--------------------------- MODULE ExecutionRegistry ---------------------------
(***************************************************************************)
(* sdk/cliproxy/executionregistry: the registry of the executions that     *)
(* Home dispatched to this process during one subscriber lifetime.         *)
(*                                                                         *)
(* A request goroutine takes a dispatch token, installs it as a scope (or  *)
(* gives it back), binds the resource of the execution and finally ends    *)
(* the scope: the resource is closed, the cumulative release sequence of   *)
(* the scope's group advances, the release sink is told, and the scope     *)
(* leaves the registry.  Drain and Close run against all of that, and the  *)
(* in-flight publisher freezes snapshots that answer Home's barriers.      *)
(*                                                                         *)
(* Every action is one critical section of Registry.mu (or one step that   *)
(* the code takes with no lock held: the state CAS, a resource closing, a  *)
(* call of the sink).  The maps `pending' and `scopes' of the code are the *)
(* tokens and scopes in the corresponding phases.                          *)
(***************************************************************************)
EXTENDS Naturals, FiniteSets

CONSTANTS
  Groups,       \* release groups: <<credential, model>> pairs with a Home limit
  Unaccounted,  \* the group of a scope whose spec is not Accounted
  Drainers,     \* calls of Drain
  Closers,      \* calls of Close
  MaxDispatch,  \* bound: dispatch tokens handed out
  MaxBarrier,   \* bound: barrier revisions Home sends
  MaxSink       \* bound: calls of SetReleaseSink

ASSUME RegistryAssumption ==
  /\ Unaccounted \notin Groups
  /\ MaxDispatch \in Nat /\ MaxBarrier \in Nat /\ MaxSink \in Nat

VARIABLES
  state,      \* Registry.state
  next,       \* Registry.next, the id of the last token
  phase,      \* where each token or scope is in its life
  group,      \* ScopeSpec of each scope, as far as releases are concerned
  resource,   \* Scope.closeFn and Scope.closeDone
  observed,   \* Registry.observedBarrier
  cut,        \* Registry.pendingBarrierSequence
  published,  \* Registry.publishedBarrier
  released,   \* Registry.releaseSequences
  sink,       \* Registry.releaseSink: 0 is nil, n the n-th sink installed
  call,       \* the sink and the sequence captured by markReleasedLocked
  replay,     \* calls of a new sink that SetReleaseSink has yet to make
  drain,      \* where each Drain is, and the scopes it has still to cancel
  close,      \* where each Close is, and the scopes it has still to close
  closeStarted,
  closeDone,
  \* History, read by the properties only:
  cutOf,      \* the tokens handed out when each barrier was observed
  received    \* the highest sequence each sink was called with, per group

tokenVars == <<next, phase, group>>
barrierVars == <<observed, cut, published, cutOf>>
sinkVars == <<sink, call, replay, received>>
closeVars == <<close, closeStarted, closeDone>>
vars == <<state, tokenVars, resource, barrierVars, released, sinkVars,
          drain, closeVars>>

Id == 1..MaxDispatch
Sink == 1..MaxSink
SpecGroup == Groups \cup {Unaccounted}
NoCall == [sink |-> 0, seq |-> 0]

\* Phases: of a token, then of the scope it became.  "ending" to "ticketed"
\* are the steps of EndWithRelease.
ScopePhase == {"active", "ending", "closing", "released", "ticketed"}
Phase == {"unused", "pending", "dropped", "gone"} \cup ScopePhase

Pending == {i \in Id : phase[i] = "pending"}   \* Registry.pending
Scopes == {i \in Id : phase[i] \in ScopePhase} \* Registry.scopes

DrainPc == {"idle", "cas", "cancelling", "waiting", "woken", "done", "failed"}
ClosePc == {"idle", "joined", "won", "cas", "closing", "done"}

Init ==
  /\ state = "accepting"
  /\ next = 0
  /\ phase = [i \in Id |-> "unused"]
  /\ group = [i \in Id |-> Unaccounted]
  /\ resource = [i \in Id |-> "none"]
  /\ observed = 0 /\ cut = 0 /\ published = 0
  /\ cutOf = [b \in 1..MaxBarrier |-> 0]
  /\ released = [g \in Groups |-> 0]
  /\ sink = 0
  /\ call = [i \in Id |-> NoCall]
  /\ replay = {}
  /\ received = [s \in Sink |-> [g \in Groups |-> 0]]
  /\ drain = [d \in Drainers |-> [pc |-> "idle", todo |-> {}]]
  /\ close = [c \in Closers |-> [pc |-> "idle", todo |-> {}]]
  /\ closeStarted = FALSE
  /\ closeDone = FALSE

-----------------------------------------------------------------------------
(* Tokens and scopes.                                                      *)

\* signalLocked closes the channel that every waiting Drain has captured.
Woken(dr) ==
  [d \in Drainers |->
     IF dr[d].pc = "waiting" THEN [dr[d] EXCEPT !.pc = "woken"] ELSE dr[d]]

BeginDispatch ==
  /\ state = "accepting"
  /\ next < MaxDispatch
  /\ next' = next + 1
  /\ phase' = [phase EXCEPT ![next + 1] = "pending"]
  /\ UNCHANGED <<state, group, resource, barrierVars, released, sinkVars,
                 drain, closeVars>>

\* Mutant of PendingEnd: the waiting Drains are not woken.
PendingEndSilently(i) ==
  /\ phase[i] = "pending"
  /\ phase' = [phase EXCEPT ![i] = "dropped"]
  /\ UNCHANGED <<state, next, group, resource, barrierVars, released,
                 sinkVars, drain, closeVars>>

\* PendingDispatch.End, under the token's once.
PendingEnd(i) ==
  /\ phase[i] = "pending"
  /\ phase' = [phase EXCEPT ![i] = "dropped"]
  /\ drain' = Woken(drain)
  /\ UNCHANGED <<state, next, group, resource, barrierVars, released,
                 sinkVars, closeVars>>

\* Mutant of Install: the state is not looked at again.
InstallAlways(i, g) ==
  /\ phase[i] = "pending"
  /\ phase' = [phase EXCEPT ![i] = "active"]
  /\ group' = [group EXCEPT ![i] = g]
  /\ drain' = Woken(drain)
  /\ UNCHANGED <<state, next, resource, barrierVars, released, sinkVars,
                 closeVars>>

\* Install: a registry that no longer accepts consumes the token instead.
Install(i, g) ==
  /\ phase[i] = "pending"
  /\ IF state = "accepting"
     THEN /\ phase' = [phase EXCEPT ![i] = "active"]
          /\ group' = [group EXCEPT ![i] = g]
     ELSE /\ phase' = [phase EXCEPT ![i] = "dropped"]
          /\ UNCHANGED group
  /\ drain' = Woken(drain)
  /\ UNCHANGED <<state, next, resource, barrierVars, released, sinkVars,
                 closeVars>>

\* Mutant of Bind: a registry that stopped accepting binds all the same.
BindAlways(i) ==
  /\ phase[i] = "active"
  /\ resource[i] = "none"
  /\ resource' = [resource EXCEPT ![i] = "bound"]
  /\ UNCHANGED <<state, tokenVars, barrierVars, released, sinkVars, drain,
                 closeVars>>

Bind(i) ==
  /\ state = "accepting"
  /\ phase[i] = "active"
  /\ resource[i] = "none"
  /\ resource' = [resource EXCEPT ![i] = "bound"]
  /\ UNCHANGED <<state, tokenVars, barrierVars, released, sinkVars, drain,
                 closeVars>>

\* startBoundResourceClose: the first caller takes closeFn and starts the
\* goroutine that runs it, later callers find closeDone.
StartResourceClose(i) ==
  IF resource[i] = "bound" THEN [resource EXCEPT ![i] = "closing"] ELSE resource

\* What waitForBoundResourceClose waits for: nothing bound, or closeDone closed.
ResourceDone(i) == resource[i] \in {"none", "closed"}

\* The goroutine that runs closeFn ends.
ResourceClosed(i) ==
  /\ resource[i] = "closing"
  /\ resource' = [resource EXCEPT ![i] = "closed"]
  /\ UNCHANGED <<state, tokenVars, barrierVars, released, sinkVars, drain,
                 closeVars>>

\* EndWithRelease, first critical section; sync.Once admits one caller.
EndDeactivate(i) ==
  /\ phase[i] = "active"
  /\ phase' = [phase EXCEPT ![i] = "ending"]
  /\ UNCHANGED <<state, next, group, resource, barrierVars, released,
                 sinkVars, drain, closeVars>>

EndStartClose(i) ==
  /\ phase[i] = "ending"
  /\ phase' = [phase EXCEPT ![i] = "closing"]
  /\ resource' = StartResourceClose(i)
  /\ UNCHANGED <<state, next, group, barrierVars, released, sinkVars, drain,
                 closeVars>>

\* Mutant of EndMarkReleased: the close of the resource is not waited for.
EndMarkReleasedEarly(i) ==
  /\ phase[i] = "closing"
  /\ phase' = [phase EXCEPT ![i] = "released"]
  /\ IF group[i] \in Groups
     THEN /\ released' = [released EXCEPT ![group[i]] = @ + 1]
          /\ call' = [call EXCEPT ![i] =
                        [sink |-> sink, seq |-> released[group[i]] + 1]]
     ELSE UNCHANGED <<released, call>>
  /\ UNCHANGED <<state, next, group, resource, barrierVars, sink, replay,
                 received, drain, closeVars>>

\* markReleasedLocked: advance the sequence and capture the sink under the
\* same hold of Registry.mu.
EndMarkReleased(i) ==
  /\ phase[i] = "closing"
  /\ ResourceDone(i)
  /\ phase' = [phase EXCEPT ![i] = "released"]
  /\ IF group[i] \in Groups
     THEN /\ released' = [released EXCEPT ![group[i]] = @ + 1]
          /\ call' = [call EXCEPT ![i] =
                        [sink |-> sink, seq |-> released[group[i]] + 1]]
     ELSE UNCHANGED <<released, call>>
  /\ UNCHANGED <<state, next, group, resource, barrierVars, sink, replay,
                 received, drain, closeVars>>

\* What a cumulative sink keeps of a call: the highest sequence.
Deliver(s, g, n) ==
  IF received[s][g] < n THEN [received EXCEPT ![s][g] = n] ELSE received

\* The sink is called with no lock held, then the ticket is stored.
EndCallSink(i) ==
  /\ phase[i] = "released"
  /\ phase' = [phase EXCEPT ![i] = "ticketed"]
  /\ received' = IF call[i].sink \in Sink
                 THEN Deliver(call[i].sink, group[i], call[i].seq)
                 ELSE received
  /\ UNCHANGED <<state, next, group, resource, barrierVars, released, sink,
                 call, replay, drain, closeVars>>

\* Mutant of EndForget: the scope leaves before its sink is called.
EndForgetFirst(i) ==
  /\ phase[i] = "released"
  /\ phase' = [phase EXCEPT ![i] = "gone"]
  /\ drain' = Woken(drain)
  /\ UNCHANGED <<state, next, group, resource, barrierVars, released,
                 sinkVars, closeVars>>

EndForget(i) ==
  /\ phase[i] = "ticketed"
  /\ phase' = [phase EXCEPT ![i] = "gone"]
  /\ drain' = Woken(drain)
  /\ UNCHANGED <<state, next, group, resource, barrierVars, released,
                 sinkVars, closeVars>>

-----------------------------------------------------------------------------
(* The release sink.                                                       *)

\* Mutant of SetReleaseSink: the sequences so far are not replayed.
SetReleaseSinkOnly ==
  /\ sink < MaxSink
  /\ sink' = sink + 1
  /\ UNCHANGED <<state, tokenVars, resource, barrierVars, released, call,
                 replay, received, drain, closeVars>>

\* SetReleaseSink under the lock: replace the sink, snapshot the sequences.
SetReleaseSink ==
  /\ sink < MaxSink
  /\ sink' = sink + 1
  /\ replay' = replay \cup
       {[sink |-> sink + 1, group |-> g, seq |-> released[g]] :
          g \in {h \in Groups : released[h] > 0}}
  /\ UNCHANGED <<state, tokenVars, resource, barrierVars, released, call,
                 received, drain, closeVars>>

\* ... and with the lock released: one call of the new sink per known group.
ReplayRelease(r) ==
  /\ r \in replay
  /\ replay' = replay \ {r}
  /\ received' = Deliver(r.sink, r.group, r.seq)
  /\ UNCHANGED <<state, tokenVars, resource, barrierVars, released, sink,
                 call, drain, closeVars>>

-----------------------------------------------------------------------------
(* Barriers and snapshots (observation.go).                                *)

\* Mutant of ObserveBarrier: the cut includes the next dispatch.
ObserveBarrierNext(b) ==
  /\ b > observed
  /\ observed' = b
  /\ cut' = next + 1
  /\ cutOf' = [cutOf EXCEPT ![b] = next]
  /\ UNCHANGED <<state, tokenVars, resource, published, released, sinkVars,
                 drain, closeVars>>

ObserveBarrier(b) ==
  /\ b > observed
  /\ observed' = b
  /\ cut' = next
  /\ cutOf' = [cutOf EXCEPT ![b] = next]
  /\ UNCHANGED <<state, tokenVars, resource, published, released, sinkVars,
                 drain, closeVars>>

\* Mutants of FreezeInFlight: the last dispatch before the barrier is left out,
\* or the barrier is compared with its cut.
FreezeInFlightBelow ==
  /\ observed > published
  /\ \A i \in Pending : i >= cut
  /\ published' = observed
  /\ UNCHANGED <<state, tokenVars, resource, observed, cut, cutOf, released,
                 sinkVars, drain, closeVars>>

FreezeInFlightCut ==
  /\ observed > cut
  /\ observed > published
  /\ \A i \in Pending : i > cut
  /\ published' = observed
  /\ UNCHANGED <<state, tokenVars, resource, observed, cut, cutOf, released,
                 sinkVars, drain, closeVars>>

\* FreezeInFlight.  The snapshot itself is <<published', Scopes>>; its
\* revision only counts the calls and is left out.
FreezeInFlight ==
  /\ observed > published
  /\ \A i \in Pending : i > cut
  /\ published' = observed
  /\ UNCHANGED <<state, tokenVars, resource, observed, cut, cutOf, released,
                 sinkVars, drain, closeVars>>

-----------------------------------------------------------------------------
(* Drain.                                                                  *)

DrainTo(d, pc) == drain' = [drain EXCEPT ![d].pc = pc]

\* The CAS Accepting -> Draining, or a registry found Draining.
DrainStart(d) ==
  /\ drain[d].pc = "idle"
  /\ IF state = "closed"
     THEN /\ DrainTo(d, "failed")
          /\ UNCHANGED state
     ELSE /\ DrainTo(d, "cas")
          /\ state' = "draining"
  /\ UNCHANGED <<tokenVars, resource, barrierVars, released, sinkVars,
                 closeVars>>

DrainSnapshot(d) ==
  /\ drain[d].pc = "cas"
  /\ drain' = [drain EXCEPT ![d] = [pc |-> "cancelling", todo |-> Scopes]]
  /\ UNCHANGED <<state, tokenVars, resource, barrierVars, released, sinkVars,
                 closeVars>>

DrainCancel(d, i) ==
  /\ drain[d].pc = "cancelling"
  /\ i \in drain[d].todo
  /\ resource' = StartResourceClose(i)
  /\ drain' = [drain EXCEPT ![d].todo = @ \ {i}]
  /\ UNCHANGED <<state, tokenVars, barrierVars, released, sinkVars, closeVars>>

\* Mutant of DrainCheck: the tokens are not looked at.
DrainCheckScopes(d) ==
  /\ \/ drain[d].pc = "cancelling" /\ drain[d].todo = {}
     \/ drain[d].pc = "woken"
  /\ IF Scopes = {}
     THEN DrainTo(d, "done") /\ state' = "closed"
     ELSE DrainTo(d, "waiting") /\ UNCHANGED state
  /\ UNCHANGED <<tokenVars, resource, barrierVars, released, sinkVars,
                 closeVars>>

\* One turn of the wait loop, under the lock: leave, or capture the channel.
DrainCheck(d) ==
  /\ \/ drain[d].pc = "cancelling" /\ drain[d].todo = {}
     \/ drain[d].pc = "woken"
  /\ IF Pending = {} /\ Scopes = {}
     THEN DrainTo(d, "done") /\ state' = "closed"
     ELSE DrainTo(d, "waiting") /\ UNCHANGED state
  /\ UNCHANGED <<tokenVars, resource, barrierVars, released, sinkVars,
                 closeVars>>

\* The select takes ctx.Done, whether or not the channel is closed too.
DrainTimeout(d) ==
  /\ drain[d].pc \in {"waiting", "woken"}
  /\ DrainTo(d, "failed")
  /\ UNCHANGED <<state, tokenVars, resource, barrierVars, released, sinkVars,
                 closeVars>>

-----------------------------------------------------------------------------
(* Close.                                                                  *)

CloseTo(c, pc) == close' = [close EXCEPT ![c].pc = pc]

CloseStart(c) ==
  /\ close[c].pc = "idle"
  /\ CASE closeStarted -> CloseTo(c, "joined") /\ UNCHANGED closeStarted
       [] ~closeStarted /\ state = "closed" ->
            CloseTo(c, "done") /\ UNCHANGED closeStarted
       [] OTHER -> CloseTo(c, "won") /\ closeStarted' = TRUE
  /\ UNCHANGED <<state, tokenVars, resource, barrierVars, released, sinkVars,
                 drain, closeDone>>

CloseSwap(c) ==
  /\ close[c].pc = "won"
  /\ CloseTo(c, "cas")
  /\ state' = "closed"
  /\ UNCHANGED <<tokenVars, resource, barrierVars, released, sinkVars, drain,
                 closeStarted, closeDone>>

CloseSnapshot(c) ==
  /\ close[c].pc = "cas"
  /\ close' = [close EXCEPT ![c] = [pc |-> "closing", todo |-> Scopes]]
  /\ UNCHANGED <<state, tokenVars, resource, barrierVars, released, sinkVars,
                 drain, closeStarted, closeDone>>

\* waitForBoundResourceClose: start the close of a scope in the list ...
CloseResource(c, i) ==
  /\ close[c].pc = "closing"
  /\ i \in close[c].todo
  /\ resource[i] = "bound"
  /\ resource' = StartResourceClose(i)
  /\ UNCHANGED <<state, tokenVars, barrierVars, released, sinkVars, drain,
                 closeVars>>

\* ... and go on to the next one when it is over.
CloseWaited(c, i) ==
  /\ close[c].pc = "closing"
  /\ i \in close[c].todo
  /\ ResourceDone(i)
  /\ close' = [close EXCEPT ![c].todo = @ \ {i}]
  /\ UNCHANGED <<state, tokenVars, resource, barrierVars, released, sinkVars,
                 drain, closeStarted, closeDone>>

\* Mutant of CloseFinish: closeDone is not closed.
CloseFinishSilently(c) ==
  /\ \/ close[c].pc = "closing" /\ close[c].todo = {}
     \/ close[c].pc = "joined" /\ closeDone
  /\ CloseTo(c, "done")
  /\ UNCHANGED <<state, tokenVars, resource, barrierVars, released, sinkVars,
                 drain, closeStarted, closeDone>>

CloseFinish(c) ==
  /\ \/ close[c].pc = "closing" /\ close[c].todo = {}
     \/ close[c].pc = "joined" /\ closeDone
  /\ CloseTo(c, "done")
  /\ closeDone' = TRUE
  /\ UNCHANGED <<state, tokenVars, resource, barrierVars, released, sinkVars,
                 drain, closeStarted>>

-----------------------------------------------------------------------------
EndStep(i) ==
  \/ EndStartClose(i)
  \/ EndMarkReleased(i)
  \/ EndCallSink(i)
  \/ EndForget(i)

DrainStep(d) ==
  \/ DrainSnapshot(d)
  \/ \E i \in Id : DrainCancel(d, i)
  \/ DrainCheck(d)

CloseStep(c) ==
  \/ CloseSwap(c)
  \/ CloseSnapshot(c)
  \/ \E i \in Id : CloseResource(c, i) \/ CloseWaited(c, i)
  \/ CloseFinish(c)

Next ==
  \/ BeginDispatch
  \/ \E i \in Id :
       \/ PendingEnd(i)
       \/ \E g \in SpecGroup : Install(i, g)
       \/ Bind(i)
       \/ ResourceClosed(i)
       \/ EndDeactivate(i)
       \/ EndStep(i)
  \/ SetReleaseSink
  \/ \E r \in replay : ReplayRelease(r)
  \/ \E b \in 1..MaxBarrier : ObserveBarrier(b)
  \/ FreezeInFlight
  \/ \E d \in Drainers : DrainStart(d) \/ DrainStep(d) \/ DrainTimeout(d)
  \/ \E c \in Closers : CloseStart(c) \/ CloseStep(c)

Spec == Init /\ [][Next]_vars

\* A token is resolved once Home answers or the request fails; an execution
\* is ended by its owner; resources close; the publisher's timer keeps
\* firing.  A Drain's timeout is never relied on, nor are new dispatches.
Fairness ==
  /\ \A i \in Id :
       /\ WF_vars(PendingEnd(i))
       /\ WF_vars(ResourceClosed(i))
       /\ WF_vars(EndDeactivate(i))
       /\ WF_vars(EndStep(i))
  /\ WF_vars(\E r \in replay : ReplayRelease(r))
  /\ WF_vars(FreezeInFlight)
  /\ \A d \in Drainers : WF_vars(DrainStep(d))
  /\ \A c \in Closers : WF_vars(CloseStep(c))

FairSpec == Spec /\ Fairness

-----------------------------------------------------------------------------
(* Properties.                                                             *)

TypeOK ==
  /\ state \in {"accepting", "draining", "closed"}
  /\ next \in 0..MaxDispatch
  /\ phase \in [Id -> Phase]
  /\ group \in [Id -> SpecGroup]
  /\ resource \in [Id -> {"none", "bound", "closing", "closed"}]
  /\ observed \in 0..MaxBarrier /\ published \in 0..MaxBarrier
  /\ cut \in 0..MaxDispatch
  /\ cutOf \in [1..MaxBarrier -> 0..MaxDispatch]
  /\ released \in [Groups -> Nat]
  /\ sink \in 0..MaxSink
  /\ call \in [Id -> [sink : 0..MaxSink, seq : Nat]]
  /\ replay \subseteq [sink : Sink, group : Groups, seq : Nat]
  /\ received \in [Sink -> [Groups -> Nat]]
  /\ drain \in [Drainers -> [pc : DrainPc, todo : SUBSET Id]]
  /\ close \in [Closers -> [pc : ClosePc, todo : SUBSET Id]]
  /\ closeStarted \in BOOLEAN /\ closeDone \in BOOLEAN

\* The scopes of group g that EndWithRelease has counted.
Counted(g) ==
  {i \in Id : group[i] = g /\ phase[i] \in {"released", "ticketed", "gone"}}

\* A published barrier answers Home: no dispatch that was under way when the
\* barrier arrived is still undecided, however tokens, barriers and freezes
\* interleave (ObserveBarrier, FreezeInFlight).
BarrierSound ==
  published > 0 => \A i \in Pending : i > cutOf[published]

\* The cumulative sequence of a group is the number of scopes of that group
\* whose execution is over: End counts exactly once, and never while the
\* resource of a counted scope is still open (EndWithRelease).
ReleaseExact ==
  \A g \in Groups :
    /\ released[g] = Cardinality(Counted(g))
    /\ \A i \in Counted(g) : ResourceDone(i)

\* The current sink has heard, or is about to hear from a call under way, the
\* latest sequence of every group, although sinks are replaced and called
\* with no lock held (SetReleaseSink's replay, markReleasedLocked's capture).
SinkCaughtUp ==
  sink > 0 =>
    \A g \in Groups :
      \/ released[g] = received[sink][g]
      \/ [sink |-> sink, group |-> g, seq |-> released[g]] \in replay
      \/ \E i \in Id : /\ phase[i] = "released" /\ group[i] = g
                       /\ call[i] = [sink |-> sink, seq |-> released[g]]

\* A scope is missing from snapshots (and lets Drain finish) only after the
\* sink captured for it was told its release.
ForgottenIsReported ==
  \A i \in Id :
    phase[i] = "gone" /\ call[i].sink > 0 =>
      received[call[i].sink][group[i]] >= call[i].seq

\* A Drain that returned nil left nothing behind, and nothing comes later.
DrainedIsQuiet ==
  (\E d \in Drainers : drain[d].pc = "done") =>
    state = "closed" /\ Pending = {} /\ Scopes = {}

\* A Drain or Close that has been through its list has started the close of
\* every bound resource: no late Install or Bind slips past its snapshot.
NoResourceLeaked ==
  \/ \E d \in Drainers : drain[d].pc \in {"waiting", "woken", "done"}
  \/ closeDone
  => \A i \in Id : resource[i] # "bound"

\* The registry never accepts again, and no execution starts in a registry
\* that stopped accepting.
NoRevival ==
  [][state # "accepting" =>
       /\ state' # "accepting"
       /\ state = "closed" => state' = "closed"
       /\ Pending' \subseteq Pending
       /\ Scopes' \subseteq Scopes]_vars

\* What each sink makes of its calls is a cumulative count of the releases: it is never
\* ahead of the registry and never falls back, whatever the order in which calls and
\* replays reach it and whatever sinks come before or after (markReleasedLocked,
\* SetReleaseSink).
Told(s) == INSTANCE CumulativeRelease WITH
             Groups <- Groups, released <- released, accepted <- received[s]

\* The calls of sinks that ended scopes have captured and not yet made.
Calls ==
  {[group |-> group[i], seq |-> call[i].seq] :
     i \in {j \in Id : phase[j] = "released" /\ group[j] \in Groups}}

\* Releases are handed over as those who carry them to Home rely on: one call per
\* execution, and nothing after a Drain has returned nil (EndWithRelease, Drain).
HandOver == INSTANCE ReleaseSource WITH
              Groups <- Groups, released <- released, calls <- Calls,
              quiet <- \E d \in Drainers : drain[d].pc = "done"
ImplementsHandOver == HandOver!Spec

\* Drain ends as soon as the owners let go: no release of a token or scope
\* fails to wake it (signalLocked, the channel captured under the lock).
DrainTerminates ==
  \A d \in Drainers :
    drain[d].pc = "cas" ~> drain[d].pc \in {"done", "failed"}

\* Close returns to every caller once resources close.
CloseTerminates ==
  \A c \in Closers : close[c].pc \in {"won", "joined"} ~> close[c].pc = "done"

\* Every barrier Home sends is answered.
BarrierAnswered ==
  \A b \in 1..MaxBarrier : observed = b ~> published >= b
=============================================================================
