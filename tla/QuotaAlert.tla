------------------------------- MODULE QuotaAlert -------------------------------
(***************************************************************************)
(* The quota monitor (internal/quotaalert/service.go) of several instances *)
(* on one database (internal/store/postgres_quota_alert.go): collection    *)
(* cycles under an advisory lock, their transactions, and the delivery of  *)
(* the notifications they leave behind, by leases.                         *)
(*                                                                         *)
(* The loop of an instance does one thing at a time.  A cycle is begun by  *)
(* reading the settings and taking the lock; what it reads then changes    *)
(* only in transactions of the holder of the lock.  It ends in one         *)
(* transaction, on the connection that holds the lock, which is committed  *)
(* as a whole or not at all.  A delivery claims batches, and sends and     *)
(* resolves them one by one.                                               *)
(*                                                                         *)
(* The clock is the order of the cycles and of their observations.  The    *)
(* leases and delays of the outbox run out whenever they may.  An account  *)
(* has one quota window and, for failures, the window `collection'; all    *)
(* accounts are of one provider, so a cycle makes one batch at most.       *)
(* Nothing in the program prunes events or batches.                        *)
(***************************************************************************)
EXTENDS QuotaEvaluator, FiniteSets

CONSTANTS
  Instances,
  Auths,        \* accounts that may be monitored
  Levels,       \* what may remain of a quota
  NoReading,    \* the collection of an account failed
  NotActive,    \* an account is not to be monitored
  Settings,     \* the settings the administrator may save
  MaxAttempts,  \* MaxNotificationAttempts
  Nobody,       \* holds the lock
  MaxClock,     \* bound: cycles
  MaxRevision,  \* bound: revisions of the settings
  MaxIncident   \* bound: crashes, lost connections and leases that end too early

ASSUME QuotaAlertAssumption ==
  /\ IsFiniteSet(Instances)
  /\ Nobody \notin Instances
  /\ Levels \subseteq Nat /\ {NoReading, NotActive} \cap Levels = {} /\ NoReading # NotActive
  /\ Settings \subseteq [enabled : BOOLEAN, threshold : Nat, margin : Nat, samples : Nat,
                         recovery : BOOLEAN, reminder : Nat, degraded : Nat]
  /\ MaxAttempts \in Nat \ {0}
  /\ {MaxClock, MaxRevision, MaxIncident} \subseteq Nat

VARIABLES
  clock,
  settings, revision,  \* quota_alert_settings
  rows,       \* quota_alert_state, by account and window
  failures,   \* quota_alert_collection_health: the streak of each account
  batches,    \* quota_notification_batches, by the set of their events
  lock,       \* the holder of the collection lock
  proc,       \* the loop of each instance
  incidents,
  \* History, read by the properties only:
  calm,       \* when a cycle last left each window without an alarm
  sound       \* when a cycle last found each account well, or not to be monitored

store == <<rows, failures, calm, sound>>
vars == <<clock, settings, revision, store, batches, lock, proc, incidents>>

Windows == Auths \X {"quota", "collection"}

\* The loop between its calls; a cycle with what it read; a delivery with its
\* claims and the outcome of the send it is about to record.
Idle == [does |-> "nothing"]
Collecting(start, s, r) == [does |-> "collect", start |-> start, settings |-> s, revision |-> r]
NoAnswer == [result |-> "none"]
Delivering(claims, answer) == [does |-> "deliver", claims |-> claims, answer |-> answer]

\* The administrator has saved settings; nothing has been collected yet.
Init ==
  /\ clock = 0
  /\ settings \in Settings /\ revision = 1
  /\ rows = [w \in {} |-> NoRow]
  /\ failures = [a \in Auths |-> 0]
  /\ batches = [b \in {} |-> NoAnswer]
  /\ lock = Nobody
  /\ proc = [i \in Instances |-> Idle]
  /\ incidents = 0
  /\ calm = [w \in Windows |-> 0]
  /\ sound = [a \in Auths |-> 0]

\* SaveSettingsWithSecret
SaveSettings(s) ==
  /\ revision < MaxRevision
  /\ settings' = s /\ revision' = revision + 1
  /\ UNCHANGED <<clock, store, batches, lock, proc, incidents>>

-----------------------------------------------------------------------------
(* Collection.                                                             *)

\* RunCollectionOnce as far as the lock: with the lock taken or monitoring
\* disabled it does nothing.
BeginCollection(i) ==
  /\ proc[i] = Idle
  /\ clock < MaxClock
  /\ settings.enabled
  /\ lock = Nobody
  /\ lock' = i
  /\ clock' = clock + 1
  /\ proc' = [proc EXCEPT ![i] = Collecting(clock + 1, settings, revision)]
  /\ UNCHANGED <<settings, revision, store, batches, incidents>>

Row(w) == IF w \in DOMAIN rows THEN rows[w] ELSE NoRow
WindowsOf(a) == {w \in DOMAIN rows : w[1] = a}

\* What a cycle that began at `start' makes of the results of the collectors at
\* `at': a level, or that there is none.
Failed(results) == {a \in Auths : results[a] = NoReading}
Reliable(results) == {a \in Auths : results[a] \in Levels}

\* A mutant: every failure beyond the threshold is reported.
NewlyDegradedAgain(s, results) ==
  {a \in Failed(results) : s.degraded > 0 /\ failures[a] + 1 >= s.degraded}

\* advanceCollectionHealth: the accounts that have just failed once too often.
Streak(results) ==
  [a \in Auths |-> IF a \in Failed(results) THEN failures[a] + 1 ELSE 0]
NewlyDegraded(s, results) ==
  {a \in Failed(results) : s.degraded > 0 /\ failures[a] < s.degraded
                             /\ Streak(results)[a] >= s.degraded}

\* collectObservations: the windows observed in vain, and when.
MissedAt(s, results, at, start) ==
  LET seen == UNION {IF WindowsOf(a) = {} THEN {<<a, "collection">>} ELSE WindowsOf(a) :
                       a \in Failed(results)}
      added == {<<a, "collection">> : a \in NewlyDegraded(s, results)} \ seen
  IN [w \in seen \cup added |-> IF w \in seen THEN at ELSE start]

\* EvaluateObservations
Evaluated(s, results, at, start) ==
  LET missed == MissedAt(s, results, at, start)
      reliable == {<<a, "quota">> : a \in Reliable(results)}
  IN [w \in DOMAIN missed \cup reliable |->
        IF w \in reliable THEN Observed(s, Row(w), results[w[1]], at, start)
        ELSE Missed(Row(w), missed[w], start)]

\* The events of a cycle; together they make one batch (groupTransitionEvents).
NewEvents(s, results, new, start) ==
  (UNION {EventsFor(s, <<a, "quota">>, Row(<<a, "quota">>), new[<<a, "quota">>], start) :
            a \in Reliable(results)})
  \cup {Degraded(<<a, "collection">>, start) : a \in NewlyDegraded(s, results)}

\* removedStateIdentities
Removed(results, new) ==
  {w \in DOMAIN rows : w[1] \notin Failed(results) /\ w \notin DOMAIN new}

\* upsertQuotaAlertState: whether a row may take the place of the stored one.
Replaces(row, old) == row.obs > old.obs \/ row = old

\* validateQuotaAlertTransitionHistory
FollowsHistory(e) ==
  e.who \in DOMAIN rows => e.from = Row(e.who).alert /\ e.at > Row(e.who).obs

\* CommitCollection, and Normalize before it: everything is written or nothing.
Accepted(i, new, events) ==
  /\ lock = i /\ proc[i].revision = revision
  /\ \A w \in DOMAIN new : WellFormed(new[w])
  /\ \A e \in events : FollowsHistory(e)
  /\ \A w \in DOMAIN new : Replaces(new[w], Row(w))

NewBatch == [status |-> "pending", attempts |-> 0, lease |-> 0, due |-> TRUE,
             extra |-> 0]

\* insertQuotaAlertEvent, insertQuotaNotificationBatch
AddBatch(events) ==
  batches' = IF events = {} THEN batches
             ELSE [b \in DOMAIN batches \cup {events} |->
                     IF b \in DOMAIN batches THEN batches[b] ELSE NewBatch]

Write(results, new, start) ==
  /\ rows' = [w \in (DOMAIN rows \ Removed(results, new)) \cup DOMAIN new |->
                IF w \in DOMAIN new THEN new[w] ELSE rows[w]]
  /\ failures' = Streak(results)
  /\ calm' = [w \in Windows |->
                IF w \in DOMAIN rows' /\ rows'[w].alert \in Alarms THEN calm[w] ELSE start]
  /\ sound' = [a \in Auths |-> IF a \in Failed(results) THEN sound[a] ELSE start]

\* RunCollectionOnce from the collectors to the release of the lock.  The
\* collectors answer at once (delay 0) or a while after the cycle began.
FinishCollection(i, results, delay) ==
  LET start == proc[i].start
      new == Evaluated(proc[i].settings, results, clock + delay, start)
      events == NewEvents(proc[i].settings, results, new, start)
  IN /\ proc[i].does = "collect"
     /\ IF Accepted(i, new, events)
        THEN Write(results, new, start) /\ AddBatch(events)
        ELSE UNCHANGED <<store, batches>>
     /\ clock' = clock + delay
     /\ lock' = IF lock = i THEN Nobody ELSE lock
     /\ proc' = [proc EXCEPT ![i] = Idle]
     /\ UNCHANGED <<settings, revision, incidents>>

\* The connection that holds the lock breaks; the cycle goes on without it.
LoseConnection(i) ==
  /\ lock = i
  /\ incidents < MaxIncident
  /\ incidents' = incidents + 1
  /\ lock' = Nobody
  /\ UNCHANGED <<clock, settings, revision, store, batches, proc>>

-----------------------------------------------------------------------------
(* Delivery.                                                               *)

\* A mutant: batches are claimed while others hold leases.
ClaimableByAll(b) == batches[b].status = "pending"

\* A mutant: a lease that has run out is not taken over.
ClaimableUnleased(b) == batches[b].status = "pending" /\ batches[b].due /\ batches[b].lease = 0

Claimable(b) == batches[b].status = "pending" /\ batches[b].due

\* ClaimNotificationBatches.  A lease is known by the attempt it is for.
Claim(i) ==
  LET claimed == {b \in DOMAIN batches : Claimable(b)} IN
  /\ proc[i] = Idle
  /\ claimed # {}
  /\ batches' = [b \in DOMAIN batches |->
                   IF b \in claimed
                   THEN [batches[b] EXCEPT !.attempts = @ + 1, !.lease = batches[b].attempts + 1,
                                           !.due = FALSE]
                   ELSE batches[b]]
  /\ proc' = [proc EXCEPT ![i] =
                Delivering({[batch |-> b, lease |-> batches'[b].lease] : b \in claimed}, NoAnswer)]
  /\ UNCHANGED <<clock, settings, revision, store, lock, incidents>>

\* What becomes of a batch (DeliverNotificationsOnce).
Verdict(outcome, attempt) ==
  CASE outcome = "sent" -> "sent"
    [] outcome # "sent" /\ (outcome = "permanent" \/ attempt >= MaxAttempts) -> "failed"
    [] OTHER -> "pending"

\* Sender.Send: the message arrives, arrives but its answer does not, does not
\* arrive, or cannot be sent (classifyDeliveryError).
Outcomes == {"sent", "unanswered", "failed", "permanent"}

\* The claims of a delivery are sent in the order of their cycles.
Created(b) == CHOOSE t \in {e.at : e \in b} : \A e \in b : t <= e.at
Foremost(claims) ==
  CHOOSE claim \in claims : \A c \in claims : Created(claim.batch) <= Created(c.batch)

Send(i, outcome) ==
  LET claim == Foremost(proc[i].claims)
      b == claim.batch
      told == IF outcome = "sent" THEN 1 ELSE 0
  IN /\ proc[i].does = "deliver" /\ proc[i].answer = NoAnswer
     /\ proc' = [proc EXCEPT ![i].answer =
                   [result |-> Verdict(outcome, claim.lease), claim |-> claim, told |-> told]]
     /\ batches' = [batches EXCEPT ![b].extra = @ + told]
     /\ UNCHANGED <<clock, settings, revision, store, lock, incidents>>

\* ResolveNotification, for the holder of the lease only; its error ends the delivery.
Resolve(i) ==
  LET answer == proc[i].answer
      b == answer.claim.batch
      held == batches[b].lease = answer.claim.lease /\ batches[b].status = "pending"
      rest == IF held THEN proc[i].claims \ {answer.claim} ELSE {}
  IN /\ proc[i].does = "deliver" /\ answer # NoAnswer
     /\ batches' = IF held
                   THEN [batches EXCEPT ![b].status = answer.result, ![b].lease = 0,
                                        ![b].due = FALSE]
                   ELSE batches
     /\ proc' = [proc EXCEPT ![i] = IF rest = {} THEN Idle ELSE Delivering(rest, NoAnswer)]
     /\ UNCHANGED <<clock, settings, revision, store, lock, incidents>>

\* Whether somebody still works under the current lease of a batch.
Working(b) ==
  \E i \in Instances :
    proc[i].does = "deliver" /\ [batch |-> b, lease |-> batches[b].lease] \in proc[i].claims

\* claimable_at passes: of a delay before the next attempt, or of a lease, which
\* is meant to outlast the work of its holder.
ComeDue(b) ==
  /\ batches[b].status = "pending" /\ ~batches[b].due
  /\ Working(b) => incidents < MaxIncident
  /\ incidents' = IF Working(b) THEN incidents + 1 ELSE incidents
  /\ batches' = [batches EXCEPT ![b].due = TRUE,
                                ![b].extra = @ - IF Working(b) THEN 1 ELSE 0]
  /\ UNCHANGED <<clock, settings, revision, store, lock, proc>>

\* The process dies and starts again: its connection and its claims are gone.  For the
\* batch it sends, a database error on ResolveNotification is the same.
Crash(i) ==
  LET lost == {b \in DOMAIN batches :
                 /\ proc[i].does = "deliver" /\ proc[i].answer # NoAnswer
                 /\ proc[i].answer.claim.batch = b /\ proc[i].answer.told = 1}
  IN /\ proc[i] # Idle
     /\ incidents < MaxIncident
     /\ incidents' = incidents + 1
     /\ lock' = IF lock = i THEN Nobody ELSE lock
     /\ proc' = [proc EXCEPT ![i] = Idle]
     /\ batches' = [b \in DOMAIN batches |->
                      IF b \in lost THEN [batches[b] EXCEPT !.extra = @ - 1] ELSE batches[b]]
     /\ UNCHANGED <<clock, settings, revision, store>>

-----------------------------------------------------------------------------

Results == [Auths -> Levels \cup {NoReading, NotActive}]

Finish(i) == \E results \in Results, delay \in 0..1 : FinishCollection(i, results, delay)
SendNext(i) == \E outcome \in Outcomes : Send(i, outcome)

Next ==
  \/ \E s \in Settings : SaveSettings(s)
  \/ \E i \in Instances :
       \/ BeginCollection(i) \/ Finish(i) \/ LoseConnection(i)
       \/ Claim(i) \/ SendNext(i) \/ Resolve(i) \/ Crash(i)
  \/ \E b \in DOMAIN batches : ComeDue(b)

Spec == Init /\ [][Next]_vars

\* Collectors and sends have timeouts, the loop chooses among its timers at
\* random, and delays and leases run out.
FairSpec ==
  /\ Spec
  /\ \A i \in Instances : WF_vars(Finish(i) \/ SendNext(i) \/ Resolve(i)) /\ SF_vars(Claim(i))
  /\ WF_vars(\E b \in DOMAIN batches : ComeDue(b))

-----------------------------------------------------------------------------
(* Properties.                                                             *)

Events == UNION DOMAIN batches

\* A window in alarm has been announced: since a cycle last left it without an
\* alarm, an event at least as severe has gone into a batch.  The row and its
\* event are computed apart (evaluateObservation, transitionKind), gated by the
\* confirmation samples and the recovery margin, and committed together.
AlertAnnounced ==
  \A w \in DOMAIN rows :
    rows[w].alert \in Alarms =>
      \E e \in Events : e.who = w /\ e.at > calm[w] /\ Rank(e.to) >= Rank(rows[w].alert)

\* An account that cannot be monitored is reported once, however long that
\* lasts and whoever runs the cycles (advanceCollectionHealth: "emits one
\* monitor_degraded event per streak").
DegradedOncePerStreak ==
  \A a \in Auths :
    Cardinality({e \in Events : e.kind = "monitor_degraded" /\ e.who[1] = a /\ e.at > sound[a]}) <= 1

\* A message is delivered again only when its sender could not know that it had
\* arrived, could not record it, dying or losing the database before
\* ResolveNotification, which has the effect of a Crash, or outlived its lease
\* (ClaimNotificationBatches, ResolveNotification).
DuplicatesExplained ==
  \A b \in DOMAIN batches : batches[b].extra <= 1

\* Every notification is in the end sent or given up, through crashes, lost
\* answers and leases that end too early (DeliverNotificationsOnce).
EveryBatchEnds == []<>(\A b \in DOMAIN batches : batches[b].status # "pending")

\* A cycle that holds the lock, and whose settings are current, records each
\* account that it could observe, whatever happens to the others (the
\* plan of the quota monitor: "continue healthy providers"; RunCollectionOnce).
ObservedIsRecorded ==
  [][\A i \in Instances, results \in Results, delay \in 0..1 :
       /\ FinishCollection(i, results, delay)
       /\ lock = i /\ proc[i].revision = revision
       => \A a \in Reliable(results) :
            <<a, "quota">> \in DOMAIN rows' /\ rows'[<<a, "quota">>].obs = clock']_vars
=============================================================================
