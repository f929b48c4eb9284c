------------------------------- MODULE Selection -------------------------------
(***************************************************************************)
(* Which credential a request for a model gets from the Manager (pickNext, *)
(* pickNextMixed).  With a selector that isBuiltInSelector knows, round    *)
(* robin or fill first, it asks the scheduler of the model                 *)
(* (sdk/cliproxy/auth/scheduler.go) with its shard per provider.  With the *)
(* weighted selector it asks the selector, which chooses from the Manager's *)
(* own credentials (pickNextLegacy): what the scheduler would do with      *)
(* weights is never asked for.                                             *)
(*                                                                         *)
(* A shard keeps views of its ready credentials, by priority, and the      *)
(* blocked ones.  They are rebuilt when an entry changes, not when time    *)
(* passes: each pick promotes and demotes what has changed meanwhile.  The *)
(* views keep their place in the rotation.                                 *)
(*                                                                         *)
(* An action is one hold of the scheduler's lock, or the selector's; a     *)
(* pick that fails, the rebuild it asks for and the second pick are one.   *)
(* A credential is known by its place in the order of the ids; one that is *)
(* disabled or does not serve the model is like one that is not there, a   *)
(* live 401 like an expired token, and the pinned credential of a request  *)
(* like all others tried.  The Manager and the scheduler have the same     *)
(* credentials here: what reaches the scheduler, and when, is in           *)
(* SchedulerSync.                                                          *)
(***************************************************************************)
EXTENDS Integers, Sequences, FiniteSetsExt

CONSTANTS
  Auths,      \* credentials, in the order of their ids
  Providers,  \* the providers of a mixed request, in its order
  ProviderOf, \* of each credential
  ProfilesOf, \* the priorities, weights and websocket capabilities each may have
  Expiring,   \* the credentials with a token that expires; an API key does not
  Strategies, \* of the built-in selectors
  Allowed,    \* which credentials requests may get: those they have not tried, or one
  Cooldown, Life,  \* of a failure, and of a token
  MaxClock    \* bound

ASSUME SelectionAssumption ==
  /\ Auths \subseteq Nat \ {0} /\ IsFiniteSet(Auths)
  /\ Len(Providers) \in Nat /\ DOMAIN Providers = 1..Len(Providers)
  /\ ProviderOf \in [Auths -> {Providers[i] : i \in DOMAIN Providers}]
  /\ ProfilesOf \in [Auths -> SUBSET [priority : Nat, weight : Nat \ {0}, ws : BOOLEAN]]
  /\ Expiring \subseteq Auths /\ Allowed \subseteq SUBSET Auths
  /\ Strategies \subseteq {"roundRobin", "fillFirst", "weighted"}
  /\ {Cooldown, Life} \subseteq Nat \ {0} /\ MaxClock \in Nat

Provider == {Providers[i] : i \in DOMAIN Providers}
Priorities == {profile.priority : profile \in UNION {ProfilesOf[a] : a \in Auths}}
Views == {"all", "ws"}

VARIABLES
  clock,
  strategy,  \* authScheduler.strategy
  auths,     \* the credentials
  shards,    \* of the model, one for each provider
  mixed,     \* mixedCursors: the slot at which the next mixed request starts
  states     \* WeightedRoundRobinSelector.states: the credits, by kind of request

vars == <<clock, strategy, auths, shards, mixed, states>>

Absent == [there |-> FALSE, priority |-> 0, weight |-> 0, ws |-> FALSE, retry |-> 0,
           expires |-> 0]

\* readyView without its entries: lastPicked.  owed is history: who was picked while
\* whom was waiting.
NoCursor == [last |-> 0, owed |-> {}]
NoBucket == [v \in Views |-> {}]
Out == [state |-> "out", next |-> 0]
NoShard == [built |-> FALSE, entries |-> [a \in Auths |-> Out],
            ready |-> [q \in Priorities |-> NoBucket], blocked |-> {},
            cursors |-> [q \in Priorities |-> [v \in Views |-> NoCursor]]]

\* smoothWeightedState, for each provider and for mixed requests.
Nothing == [a \in Auths |-> 0]
NoCredits == [credits |-> Nothing, weights |-> Nothing]
Kinds == Provider \cup {"mixed"}
NoStates == [k \in Kinds |-> NoCredits]

-----------------------------------------------------------------------------
(* The views of a shard.  cs are the credentials.                          *)

Expired(c, now) == c.expires \in 1..now
\* isAuthBlockedForModel, and when it asks to look again.
StateAt(c, now) ==
  CASE Expired(c, now) -> [state |-> "blocked", next |-> 0]
    [] ~Expired(c, now) /\ c.retry > now -> [state |-> "blocked", next |-> c.retry]
    [] OTHER -> [state |-> "ready", next |-> 0]

\* Mutant of Restored: the rotation starts again.
RestoredFromHead(cursor, members) ==
  [NoCursor EXCEPT !.owed = {o \in cursor.owed : o[2] \in members}]

\* restoreReadyViewCursors
Restored(cursor, members) ==
  [cursor EXCEPT !.owed = {o \in @ : o[2] \in members}]

\* rebuildIndexesLocked: a priority without ready credentials loses its views.
RebuildIndexes(shard, cs) ==
  LET ready == {a \in Auths : shard.entries[a].state = "ready"}
      bucket == [q \in Priorities |->
                   [v \in Views |-> {a \in ready : cs[a].priority = q /\ (v = "ws" => cs[a].ws)}]]
  IN [shard EXCEPT
        !.ready = bucket,
        !.blocked = {a \in Auths : shard.entries[a].state = "blocked"},
        !.cursors = [q \in Priorities |-> [v \in Views |->
           IF shard.ready[q].all = {} \/ bucket[q].all = {} THEN NoCursor
           ELSE Restored(@[q][v], bucket[q][v])]]]

\* The entries of these credentials are set, and the views follow.
Set(shard, cs, who, entry) ==
  RebuildIndexes([shard EXCEPT !.entries = [a \in Auths |-> IF a \in who THEN entry[a] ELSE @[a]]], cs)
\* The same for those in who, if there are any.
Changed(shard, cs, who, entry) == IF who = {} THEN shard ELSE Set(shard, cs, who, entry)

StatesAt(cs, now) == [a \in Auths |-> StateAt(cs[a], now)]

\* promoteExpiredLocked
Promoted(shard, cs, now) ==
  Changed(shard, cs, {a \in shard.blocked : shard.entries[a].next \in 1..now},
          StatesAt(cs, now))

\* demoteExpiredTokensLocked
Demoted(shard, cs, now) ==
  Changed(shard, cs,
          {a \in Auths : shard.entries[a].state = "ready" /\ Expired(cs[a], now)},
          StatesAt(cs, now))

\* ensureModelLocked
EnsureModel(shard, p, cs, now) ==
  IF shard.built THEN Demoted(Promoted(shard, cs, now), cs, now)
  ELSE Set([NoShard EXCEPT !.built = TRUE], cs,
           {a \in Auths : cs[a].there /\ ProviderOf[a] = p}, StatesAt(cs, now))

\* Mutant of UpsertEntry: the views are kept if the state is the same.
UpsertEntryByState(shard, a, old, cs, now) ==
  IF shard.entries[a] = StateAt(cs[a], now) THEN shard
  ELSE Set(shard, cs, {a}, StatesAt(cs, now))

\* upsertEntryLocked: the views are kept if nothing they are made from has changed.
UpsertEntry(shard, a, old, cs, now) ==
  LET new == cs[a]
  IN IF /\ shard.entries[a] = StateAt(new, now)
        /\ old.priority = new.priority /\ old.ws = new.ws /\ old.weight = new.weight
     THEN shard
     ELSE Set(shard, cs, {a}, StatesAt(cs, now))

-----------------------------------------------------------------------------
(* Picks of the scheduler.  ok are the credentials that the request may get. *)

\* pickRoundRobin: the successor of the last pick.
Successor(last, ok) ==
  LET later == {a \in ok : a > last} IN Min(IF later = {} THEN ok ELSE later)

PickRoundRobin(cursor, ok) ==
  LET who == Successor(cursor.last, ok)
  IN [who |-> who,
      cursor |-> [cursor EXCEPT
        !.last = who,
        !.owed = {o \in @ : o[2] \in ok \ {who}} \cup ({who} \X (ok \ {who}))]]

PickFrom(cursor, ok) ==
  IF strategy = "fillFirst" THEN [who |-> Min(ok), cursor |-> cursor]
  ELSE PickRoundRobin(cursor, ok)

\* The priorities at which a view has one of them.
Offers(shard, v, ok) == {q \in Priorities : shard.ready[q][v] \cap ok # {}}

\* pickReadyAtPriorityLocked
PickAt(shard, q, ws, ok) ==
  LET v == IF ws /\ shard.ready[q].ws \cap ok # {} THEN "ws" ELSE "all"
      picked == PickFrom(shard.cursors[q][v], shard.ready[q][v] \cap ok)
  IN [who |-> picked.who, shard |-> [shard EXCEPT !.cursors[q][v] = picked.cursor]]

Failed(ss, m) == [who |-> 0, shards |-> ss, mixed |-> m]

\* pickSingle: with websockets downstream, a credential that has them comes first
\* whatever its priority.
PickSingle(ss, m, p, ws, cs, ok) ==
  LET shard == EnsureModel(ss[p], p, cs, clock)
      offers == IF ws /\ Offers(shard, "ws", ok) # {} THEN Offers(shard, "ws", ok)
                ELSE Offers(shard, "all", ok)
      picked == PickAt(shard, Max(offers), ws, ok)
  IN IF offers = {} THEN Failed([ss EXCEPT ![p] = shard], m)
     ELSE [who |-> picked.who, shards |-> [ss EXCEPT ![p] = picked.shard], mixed |-> m]

\* The turn of a provider lasts for as many picks as it has ready credentials; then,
\* or if it has none for this request, the next one starts.
PickMixedRoundRobin(ss, m, best, ok) ==
  LET ready == [i \in DOMAIN Providers |-> ss[Providers[i]].ready[best].all]
      size == [i \in DOMAIN Providers |-> Cardinality(ready[i])]
      start == [i \in DOMAIN Providers |-> MapThenSumSet(LAMBDA j : size[j], 1..(i - 1))]
      total == MapThenSumSet(LAMBDA j : size[j], DOMAIN Providers)
      slot == m % total
      first == CHOOSE i \in DOMAIN Providers :
                 slot \in start[i]..(start[i] + size[i] - 1)
      turns == {i \in DOMAIN Providers : ready[i] \cap ok # {}}
      turn == IF \E i \in turns : i >= first THEN Min({i \in turns : i >= first}) ELSE Min(turns)
      p == Providers[turn]
      picked == PickAt(ss[p], best, FALSE, ok)
  IN [who |-> picked.who, shards |-> [ss EXCEPT ![p] = picked.shard],
      mixed |-> 1 + IF turn = first THEN slot ELSE start[turn]]

\* The first provider that has one.
PickMixedFillFirst(ss, m, best, ok) ==
  LET first == Min({i \in DOMAIN Providers : ss[Providers[i]].ready[best].all \cap ok # {}})
  IN [who |-> Min(ss[Providers[first]].ready[best].all \cap ok), shards |-> ss, mixed |-> m]

\* pickMixed, of several providers
PickMixed(ss, m, cs, ok) ==
  LET ensured == [p \in Provider |-> EnsureModel(ss[p], p, cs, clock)]
      offers == UNION {Offers(ensured[p], "all", ok) : p \in Provider}
      best == Max(offers)
  IN IF offers = {} THEN Failed(ensured, m)
     ELSE IF strategy = "fillFirst" THEN PickMixedFillFirst(ensured, m, best, ok)
     ELSE PickMixedRoundRobin(ensured, m, best, ok)

\* Websockets matter to the requests of one provider.
Requests == {r \in [mixed : {FALSE}, provider : Provider, ws : BOOLEAN] :
               r.ws => r.provider = "codex"}
              \cup [mixed : {TRUE}, provider : {Providers[1]}, ws : {FALSE}]

PickWith(ss, m, r, ok) ==
  IF r.mixed THEN PickMixed(ss, m, auths, ok)
  ELSE PickSingle(ss, m, r.provider, r.ws, auths, ok)

\* rebuild: the shards are dropped, and built again by the next pick.
Rebuilt == [p \in Provider |-> NoShard]

PickScheduled(r, ok) ==
  LET picked == PickWith(shards, mixed, r, ok)
  IN IF picked.who # 0 THEN picked ELSE PickWith(Rebuilt, 0, r, ok)

-----------------------------------------------------------------------------
(* Picks of the weighted selector.                                         *)

Weights(cs, members) == [a \in Auths |-> IF a \in members THEN cs[a].weight ELSE 0]
\* weightsConfigChanged
Reconfigured(old, new) == \E a \in Auths : old[a] # new[a] /\ old[a] # 0 /\ new[a] # 0

\* prepare and pickSmoothWeightedAuth: everyone gains its weight, and the richest, who is
\* picked, pays for all.
PickWeighted(state, cs, ok) ==
  LET weights == Weights(cs, ok)
      credits == [a \in Auths |-> weights[a] +
                    IF Reconfigured(state.weights, weights) THEN 0 ELSE state.credits[a]]
      who == Min({a \in ok : \A b \in ok : credits[b] <= credits[a]})
  IN [who |-> who,
      state |-> [
        credits |-> [credits EXCEPT ![who] = @ - MapThenSumSet(LAMBDA a : weights[a], ok)],
        weights |-> [a \in Auths |-> IF a \in ok THEN weights[a] ELSE state.weights[a]]]]

\* collectAvailableByPriority and availableAuthsForRouteModel: those that are ready.
Available(r, ok) ==
  {a \in ok : /\ auths[a].there /\ StateAt(auths[a], clock).state = "ready"
              /\ r.mixed \/ ProviderOf[a] = r.provider}
\* availableAuthsFromPriorityBuckets
Best(pool) == {a \in pool : \A b \in pool : auths[b].priority <= auths[a].priority}
\* preferCodexWebsocketAuths
PreferWebsockets(r, pool) ==
  LET ws == {a \in pool : r.ws /\ auths[a].ws} IN IF ws = {} THEN pool ELSE ws

\* pickNextLegacy and pickNextMixedLegacy: there is no rebuild and no second pick.
PickLegacy(r, ok) ==
  LET kind == IF r.mixed THEN "mixed" ELSE r.provider
      candidates == PreferWebsockets(r, Best(Available(r, ok)))
      picked == PickWeighted(states[kind], auths, candidates)
  IN IF candidates = {} THEN [who |-> 0, states |-> states]
     ELSE [who |-> picked.who, states |-> [states EXCEPT ![kind] = picked.state]]

\* isBuiltInSelector
UseSchedulerFastPath == strategy # "weighted"

\* Whom pickNext and pickNextMixed return.
Outcome(r, ok) ==
  IF UseSchedulerFastPath THEN PickScheduled(r, ok).who ELSE PickLegacy(r, ok).who

-----------------------------------------------------------------------------
(* Actions.                                                                *)

PickNext ==
  \E r \in Requests, ok \in Allowed :
    LET picked == PickScheduled(r, ok)
    IN /\ UseSchedulerFastPath
       /\ shards' = picked.shards /\ mixed' = picked.mixed
       /\ UNCHANGED <<clock, strategy, auths, states>>

PickNextLegacy ==
  \E r \in Requests, ok \in Allowed :
    /\ ~UseSchedulerFastPath
    /\ states' = PickLegacy(r, ok).states
    /\ UNCHANGED <<clock, strategy, auths, shards, mixed>>

\* upsertAuth
UpsertAuth ==
  \E a \in Auths : \E profile \in ProfilesOf[a], retry \in {0, clock + Cooldown} :
    LET p == ProviderOf[a]
        new == [there |-> TRUE, priority |-> profile.priority, weight |-> profile.weight,
                ws |-> profile.ws, retry |-> retry,
                expires |-> IF a \in Expiring THEN clock + Life ELSE 0]
    IN /\ auths' = [auths EXCEPT ![a] = new]
       /\ shards' = IF shards[p].built
                    THEN [shards EXCEPT ![p] = UpsertEntry(@, a, auths[a], auths', clock)]
                    ELSE shards
       /\ UNCHANGED <<clock, strategy, mixed, states>>

\* removeAuth, and the upsert of a credential that is disabled or does not serve the
\* model any more.
RemoveAuth ==
  \E a \in Auths :
    LET p == ProviderOf[a]
    IN /\ auths[a].there
       /\ auths' = [auths EXCEPT ![a] = Absent]
       /\ shards' = IF shards[p].built
                    THEN [shards EXCEPT ![p] = Set(@, auths', {a}, [b \in Auths |-> Out])]
                    ELSE shards
       /\ UNCHANGED <<clock, strategy, mixed, states>>

\* SetSelector: a new selector, setSelector, and the rebuild that follows it.
SetSelector ==
  \E s \in Strategies \ {strategy} :
    /\ strategy' = s /\ states' = NoStates
    /\ mixed' = 0 /\ shards' = Rebuilt
    /\ UNCHANGED <<clock, auths>>

\* A pick for any other model has failed.
SyncScheduler ==
  /\ shards' = Rebuilt /\ mixed' = 0
  /\ UNCHANGED <<clock, strategy, auths, states>>

Tick ==
  /\ clock < MaxClock /\ clock' = clock + 1
  /\ UNCHANGED <<strategy, auths, shards, mixed, states>>

Init ==
  /\ clock = 1
  /\ strategy \in Strategies
  /\ auths = [a \in Auths |-> Absent]
  /\ shards = Rebuilt
  /\ mixed = 0
  /\ states = NoStates

Next ==
  \/ PickNext \/ PickNextLegacy
  \/ UpsertAuth \/ RemoveAuth
  \/ SetSelector \/ SyncScheduler
  \/ Tick

Spec == Init /\ [][Next]_vars

-----------------------------------------------------------------------------
(* Properties.                                                             *)

\* The scheduler prefers websockets to priority (pickSingle), a selector priority to
\* websockets.
Preferred(r, ok) ==
  IF UseSchedulerFastPath THEN Best(PreferWebsockets(r, Available(r, ok)))
  ELSE PreferWebsockets(r, Best(Available(r, ok)))

\* In every state, with views that are as old as they may be, every request gets an
\* available credential of the best tier among those it may get, and fails only if
\* there is none (upsertEntryLocked, promoteExpiredLocked, demoteExpiredTokensLocked).
\* It is a property of the scheduler: the weighted selector has no views, and looks at
\* every credential each time.
PicksBest ==
  \A r \in Requests, ok \in SUBSET Auths :
    LET preferred == Preferred(r, ok)
        who == Outcome(r, ok)
    IN IF preferred = {} THEN who = 0 ELSE who \in preferred

\* "Rotation continues from the identity of the previous pick": nobody is picked
\* twice while another credential of the view, ready and allowed at every pick in
\* between, waits, whoever else cools down, returns or is excluded.
RotationFair ==
  \A p \in Provider, q \in Priorities, v \in Views :
    \A ok \in SUBSET shards[p].ready[q][v] :
      LET cursor == shards[p].cursors[q][v]
          who == Successor(cursor.last, ok)
      IN ok # {} => \A b \in ok \ {who} : <<who, b>> \notin cursor.owed
=============================================================================
