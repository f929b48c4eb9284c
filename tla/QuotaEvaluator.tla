----------------------------- MODULE QuotaEvaluator -----------------------------
(***************************************************************************)
(* What one observation makes of the alert of one quota window             *)
(* (internal/quotaalert/evaluator.go), and which rows and events are well  *)
(* formed (types.go).                                                      *)
(*                                                                         *)
(* A row is the stored state of a window: its alert, whether the latest    *)
(* collection was reliable, the count of observations in a row below the   *)
(* threshold, what remained, and when it was observed, entered its alert   *)
(* and was written.  The collectors report exhaustion explicitly exactly   *)
(* when nothing remains.  An event stands for its id, a hash of these      *)
(* fields; labels, reset times and the reason of a failure are left out.   *)
(***************************************************************************)
EXTENDS Integers

Unknown == -1  \* what remains of a window that was not observed

Alerts == {"unknown", "healthy", "warning", "exhausted"}
Alarms == {"warning", "exhausted"}
NoRow == [alert |-> "unknown", health |-> "unknown", below |-> 0, left |-> Unknown,
          obs |-> 0, trans |-> 0, upd |-> 0]

Later(s, t) == IF s > t THEN s ELSE t

\* alertSeverityRank
Rank(alert) ==
  CASE alert = "warning" -> 1 [] alert = "exhausted" -> 2 [] OTHER -> 0

\* evaluateAlert
AlertFor(left, threshold) ==
  CASE left = 0 -> "exhausted" [] left \in 1..threshold -> "warning" [] OTHER -> "healthy"

Below(s, prior, left) == IF left <= s.threshold THEN prior.below + 1 ELSE 0

\* A worse alert waits for enough observations in a row, unless nothing is left.
Confirmed(s, prior, left) ==
  LET alert == AlertFor(left, s.threshold) IN
  IF Rank(alert) > Rank(prior.alert) /\ left # 0 /\ Below(s, prior, left) < s.samples
  THEN IF prior.alert = "unknown" THEN "healthy" ELSE prior.alert
  ELSE alert

\* An alarm is over only when more than the margin above the threshold is left.
Settled(s, prior, left) ==
  LET alert == Confirmed(s, prior, left) IN
  IF alert = "healthy" /\ prior.alert \in Alarms /\ left <= s.threshold + s.margin
  THEN prior.alert ELSE alert

\* evaluateObservation of a reliable observation of a window, made at `at' in a
\* cycle that began at `start'.
Observed(s, prior, left, at, start) ==
  LET alert == Settled(s, prior, left) IN
  [alert |-> alert, health |-> "reliable", below |-> Below(s, prior, left),
   left |-> left, obs |-> at,
   trans |-> IF alert = prior.alert THEN prior.trans ELSE at,
   upd |-> Later(at, start)]

\* evaluateObservation of a failed collection: a known alert is kept as it was
\* observed, anything else becomes a fresh unknown row.
Missed(prior, at, start) ==
  CASE prior.alert # "unknown" -> [prior EXCEPT !.health = "unknown", !.upd = start]
    [] prior.alert = "unknown" /\ prior # NoRow ->
         [NoRow EXCEPT !.obs = at, !.trans = prior.trans, !.upd = Later(at, start)]
    [] OTHER -> [NoRow EXCEPT !.obs = at, !.trans = at, !.upd = start]

\* CurrentState.Normalize
WellFormed(row) ==
  /\ row.trans <= row.obs /\ row.obs <= row.upd
  /\ row.left = 0 => row.alert = "exhausted"
  /\ row.alert = "exhausted" => row.left <= 0

\* A mutant: an alarm that follows an unknown state is not announced.
TransitionKindKnown(s, from, to) ==
  CASE to = "warning" /\ from = "healthy" -> {"warning"}
    [] to = "exhausted" /\ from \in {"healthy", "warning"} -> {"exhausted"}
    [] to = "healthy" /\ from \in Alarms /\ s.recovery -> {"recovery"}
    [] OTHER -> {}

\* transitionKind: the kinds of event a change of alert is worth, none or one.
TransitionKind(s, from, to) ==
  CASE to = "warning" /\ from \in {"unknown", "healthy"} -> {"warning"}
    [] to = "exhausted" /\ from # "exhausted" -> {"exhausted"}
    [] to = "healthy" /\ from \in Alarms /\ s.recovery -> {"recovery"}
    [] OTHER -> {}

Reminds(s, prior, row, start) ==
  /\ s.reminder > 0
  /\ prior.alert = row.alert /\ row.alert \in Alarms
  /\ prior.upd + s.reminder <= start

\* The events of a reliable observation that made `row' of `prior'.
EventsFor(s, who, prior, row, start) ==
  LET transition == TransitionKind(s, prior.alert, row.alert)
      kinds == IF transition = {} /\ Reminds(s, prior, row, start)
               THEN {"reminder"} ELSE transition
  IN {[who |-> who, kind |-> kind, from |-> prior.alert, to |-> row.alert,
       at |-> IF kind = "reminder" THEN start ELSE row.trans] : kind \in kinds}

\* The event that an account could not be monitored for long (advanceCollectionHealth).
Degraded(who, start) ==
  [who |-> who, kind |-> "monitor_degraded", from |-> "unknown", to |-> "unknown",
   at |-> start]
=============================================================================
