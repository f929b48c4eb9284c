---------------------------- MODULE QuotaAlertProofs ----------------------------
(***************************************************************************)
(* Theorems about QuotaAlert, for any number of instances and accounts,    *)
(* any levels and any settings (of one degradation threshold, where it     *)
(* matters).                                                               *)
(***************************************************************************)
EXTENDS QuotaAlert, FiniteSetTheorems, TLAPS

-----------------------------------------------------------------------------
(* Types.                                                                  *)

RowType ==
  [alert : Alerts, health : {"unknown", "reliable"}, below : Nat, left : Int,
   obs : Nat, trans : Nat, upd : Nat]
Kinds == {"warning", "exhausted", "recovery", "reminder", "monitor_degraded"}
EventType == [who : Windows, kind : Kinds, from : Alerts, to : Alerts, at : Nat]
Results3 == {"sent", "failed", "pending"}
BatchType ==
  [status : Results3, attempts : Nat, lease : Nat, due : BOOLEAN, extra : Int]
ClaimType == [batch : (SUBSET EventType) \ {{}}, lease : Nat \ {0}]
AnswerType == [result : Results3, claim : ClaimType, told : {0, 1}]
CollectType == [does : {"collect"}, start : Nat, settings : Settings, revision : Nat]
DeliverType ==
  [does : {"deliver"}, claims : (SUBSET ClaimType) \ {{}}, answer : {NoAnswer} \cup AnswerType]
ProcType == {Idle} \cup CollectType \cup DeliverType

RowsType ==
  /\ DOMAIN rows \subseteq Windows
  /\ \A w \in DOMAIN rows : rows[w] \in RowType
BatchesType ==
  \A b \in DOMAIN batches : b \subseteq EventType /\ b # {} /\ batches[b] \in BatchType
StoreTypes ==
  /\ failures \in [Auths -> Nat] /\ calm \in [Windows -> Nat] /\ sound \in [Auths -> Nat]
TypeOK ==
  /\ clock \in Nat /\ settings \in Settings /\ revision \in Nat
  /\ RowsType /\ StoreTypes /\ BatchesType
  /\ lock \in Instances \cup {Nobody}
  /\ proc \in [Instances -> ProcType]

-----------------------------------------------------------------------------
(* What the proofs are about.                                              *)

\* The holder of the lock began its cycle after every other that was written.
CycleInv ==
  /\ \A w \in Windows : calm[w] <= clock
  /\ \A a \in Auths : sound[a] <= clock
  /\ \A e \in Events : e.kind = "monitor_degraded" => e.at <= clock
  /\ \A i \in Instances : proc[i].does = "collect" => proc[i].start <= clock
  /\ lock # Nobody =>
       /\ proc[lock].does = "collect"
       /\ \A w \in Windows : calm[w] < proc[lock].start
       /\ \A a \in Auths : sound[a] < proc[lock].start
       /\ \A e \in Events : e.kind = "monitor_degraded" => e.at < proc[lock].start

DegradedSince(a) ==
  {e \in Events : e.kind = "monitor_degraded" /\ e.who[1] = a /\ e.at > sound[a]}
\* An event needs as many failures as the threshold.
StreakInv ==
  \A a \in Auths :
    /\ \A e, f \in DegradedSince(a) : e = f
    /\ \A s \in Settings : failures[a] < s.degraded => DegradedSince(a) = {}

ClaimsOf(i) == IF proc[i].does = "deliver" THEN proc[i].claims ELSE {}
Answered(i, c) == proc[i].answer # NoAnswer /\ proc[i].answer.claim = c
Told(i, c) == Answered(i, c) /\ proc[i].answer.told = 1

\* A lease is held once, and older than the attempts of its batch.
LeaseInv ==
  /\ \A b \in DOMAIN batches : batches[b].lease <= batches[b].attempts
  /\ \A i \in Instances : \A c \in ClaimsOf(i) :
       /\ c.batch \in DOMAIN batches /\ c.lease <= batches[c.batch].attempts
       /\ \A j \in Instances : c \in ClaimsOf(j) => i = j
       /\ \A d \in ClaimsOf(i) : c.batch = d.batch => c = d
  /\ \A i \in Instances :
       proc[i].does = "deliver" /\ proc[i].answer # NoAnswer =>
         /\ proc[i].answer.claim \in proc[i].claims
         /\ proc[i].answer.told = 1 <=> proc[i].answer.result = "sent"

\* Who may still send a batch, and whether its holder may or has sent it.
OpenBy(i, b) == \E c \in ClaimsOf(i) : c.batch = b /\ ~Answered(i, c)
Open(b) == {i \in Instances : OpenBy(i, b)}
HandOf(i, b) ==
  \E c \in ClaimsOf(i) :
    /\ c.batch = b /\ c.lease = batches[b].lease
    /\ ~Answered(i, c) \/ Told(i, c)
InHand(b) == \E i \in Instances : HandOf(i, b)
\* The batch may be claimed, or will be.
Waiting(b) == batches[b].status = "pending" /\ (batches[b].due \/ ~InHand(b))
Chances(b) == Cardinality(Open(b)) + IF Waiting(b) THEN 1 ELSE 0
\* What was sent without need and what may yet be sent.
SentInv == \A b \in DOMAIN batches : batches[b].extra + Chances(b) <= 1

-----------------------------------------------------------------------------
(* The evaluation.                                                         *)

\* What the proofs need of the settings.
LEMMA SettingsNumbers ==
  ASSUME NEW s \in Settings
  PROVE  /\ s.threshold \in Nat /\ s.margin \in Nat /\ s.samples \in Nat
         /\ s.reminder \in Nat /\ s.degraded \in Nat
  BY QuotaAlertAssumption

\* A quota observed has a row of the right form, that carries the time of the
\* observation, and of its change.
LEMMA ObservedTypes ==
  ASSUME NEW s \in Settings, NEW prior \in RowType, NEW left \in Levels, NEW at \in Nat,
         NEW start \in Nat
  PROVE  Observed(s, prior, left, at, start) \in RowType
<1> DEFINE a1 == AlertFor(left, s.threshold)
           a2 == Confirmed(s, prior, left)
           a3 == Settled(s, prior, left)
<1>1. left \in Nat /\ prior.alert \in Alerts /\ prior.below \in Nat /\ prior.trans \in Nat
  BY QuotaAlertAssumption DEF RowType
<1>2. a1 \in Alerts
  BY DEF AlertFor, Alerts
<1>3. a2 \in Alerts
  BY <1>1, <1>2 DEF Confirmed, Alerts
<1>4. a3 \in Alerts
  BY <1>1, <1>3 DEF Settled
<1>5. Below(s, prior, left) \in Nat
  BY <1>1 DEF Below
<1>6. Later(at, start) \in Nat
  BY DEF Later
<1> HIDE DEF a3
<1>7. Observed(s, prior, left, at, start) =
        [alert |-> a3, health |-> "reliable", below |-> Below(s, prior, left),
         left |-> left, obs |-> at,
         trans |-> IF a3 = prior.alert THEN prior.trans ELSE at,
         upd |-> Later(at, start)]
  BY DEF Observed, a3
<1> QED
  BY <1>1, <1>4, <1>5, <1>6, <1>7 DEF RowType

LEMMA NoRowType == NoRow \in RowType
  BY DEF NoRow, RowType, Alerts, Unknown

LEMMA MissedTypes ==
  ASSUME NEW prior \in RowType, NEW at \in Nat, NEW start \in Nat
  PROVE  /\ Missed(prior, at, start) \in RowType
         /\ Missed(prior, at, start).alert \in Alarms =>
              Missed(prior, at, start).alert = prior.alert
<1>1. Later(at, start) \in Nat
  BY DEF Later
<1>2. CASE prior.alert # "unknown"
  <2>1. Missed(prior, at, start) = [prior EXCEPT !.health = "unknown", !.upd = start]
    BY <1>2 DEF Missed
  <2> QED
    BY <2>1 DEF RowType
<1>3. CASE prior.alert = "unknown" /\ prior # NoRow
  <2>1. Missed(prior, at, start) =
          [NoRow EXCEPT !.obs = at, !.trans = prior.trans, !.upd = Later(at, start)]
    BY <1>3 DEF Missed
  <2> QED
    BY <1>1, <2>1, NoRowType DEF RowType, NoRow, Alarms
<1>4. CASE prior = NoRow
  <2>1. prior.alert = "unknown"
    BY <1>4 DEF NoRow
  <2>2. Missed(prior, at, start) = [NoRow EXCEPT !.obs = at, !.trans = at, !.upd = start]
    BY <1>4, <2>1 DEF Missed
  <2> QED
    BY <2>2, NoRowType DEF RowType, NoRow, Alarms
<1> QED
  BY <1>2, <1>3, <1>4

\* An alarm that an observation raises or makes worse is worth an event of its time
\* that is as severe.
LEMMA WorseIsAnnounced ==
  ASSUME NEW s \in Settings, NEW prior \in RowType, NEW left \in Levels, NEW at \in Nat,
         NEW start \in Nat, NEW who,
         Observed(s, prior, left, at, start).alert \in Alarms
  PROVE  LET row == Observed(s, prior, left, at, start) IN
         \/ prior.alert \in Alarms /\ Rank(prior.alert) >= Rank(row.alert)
         \/ \E e \in EventsFor(s, who, prior, row, start) :
              e.who = who /\ e.at = at /\ Rank(e.to) >= Rank(row.alert)
<1> DEFINE row == Observed(s, prior, left, at, start)
           kinds == TransitionKind(s, prior.alert, row.alert)
<1>1. prior.alert \in Alerts
  BY DEF RowType
<1>2. row.alert # prior.alert => row.trans = at
  BY DEF Observed
<1>3. row.alert \in Alarms
  OBVIOUS
<1> HIDE DEF row
<1>4. CASE row.alert = "warning" /\ prior.alert \in {"unknown", "healthy"}
  <2>1. kinds = {"warning"}
    BY <1>4 DEF TransitionKind
  <2> DEFINE e == [who |-> who, kind |-> "warning", from |-> prior.alert, to |-> row.alert,
                   at |-> row.trans]
  <2>2. e \in EventsFor(s, who, prior, row, start)
    BY <2>1 DEF EventsFor
  <2>3. e.who = who /\ e.at = at /\ e.to = row.alert
    BY <1>2, <1>4
  <2> QED
    BY <2>2, <2>3, <1>3 DEF row, Rank
<1>5. CASE row.alert = "exhausted" /\ prior.alert # "exhausted"
  <2>1. kinds = {"exhausted"}
    BY <1>5 DEF TransitionKind
  <2> DEFINE e == [who |-> who, kind |-> "exhausted", from |-> prior.alert, to |-> row.alert,
                   at |-> row.trans]
  <2>2. e \in EventsFor(s, who, prior, row, start)
    BY <2>1 DEF EventsFor
  <2>3. e.who = who /\ e.at = at /\ e.to = row.alert
    BY <1>2, <1>5
  <2> QED
    BY <2>2, <2>3, <1>3 DEF row, Rank
<1>6. CASE row.alert = "exhausted" /\ prior.alert = "exhausted"
  BY <1>6 DEF row, Rank, Alarms
<1>7. CASE row.alert = "warning" /\ prior.alert \in Alarms
  BY <1>7 DEF row, Rank, Alarms
<1> QED
  BY <1>1, <1>3, <1>4, <1>5, <1>6, <1>7 DEF Alerts, Alarms

\* The events of an observation; none of them reports a degradation.
LEMMA EventsTypes ==
  ASSUME NEW s \in Settings, NEW prior \in RowType, NEW row \in RowType, NEW start \in Nat,
         NEW who \in Windows
  PROVE  \A e \in EventsFor(s, who, prior, row, start) :
           e \in EventType /\ e.kind # "monitor_degraded"
<1> DEFINE Worth == {"warning", "exhausted", "recovery", "reminder"}
           kinds == IF TransitionKind(s, prior.alert, row.alert) = {} /\ Reminds(s, prior, row, start)
                    THEN {"reminder"} ELSE TransitionKind(s, prior.alert, row.alert)
<1>1. TransitionKind(s, prior.alert, row.alert) \subseteq Worth
  BY DEF TransitionKind
<1>2. kinds \subseteq Worth
  BY <1>1
<1> HIDE DEF kinds
<1> SUFFICES ASSUME NEW e \in EventsFor(s, who, prior, row, start)
             PROVE  e \in EventType /\ e.kind # "monitor_degraded"
  OBVIOUS
<1>3. PICK kind \in kinds :
        e = [who |-> who, kind |-> kind, from |-> prior.alert, to |-> row.alert,
             at |-> IF kind = "reminder" THEN start ELSE row.trans]
  BY DEF EventsFor, kinds
<1> QED
  BY <1>2, <1>3 DEF EventType, RowType, Kinds

-----------------------------------------------------------------------------
(* A cycle: its rows and its events.                                       *)

LEMMA RowIsTyped ==
  ASSUME RowsType, NEW w
  PROVE  Row(w) \in RowType
  BY NoRowType DEF RowsType, Row

\* The times of the windows that were observed in vain.
LEMMA MissedTimes ==
  ASSUME RowsType, NEW s, NEW results \in Results, NEW at \in Nat, NEW start \in Nat
  PROVE  \A w \in DOMAIN MissedAt(s, results, at, start) :
           w \in Windows /\ MissedAt(s, results, at, start)[w] \in Nat
<1> DEFINE seen == UNION {IF WindowsOf(a) = {} THEN {<<a, "collection">>} ELSE WindowsOf(a) :
                            a \in Failed(results)}
           added == {<<a, "collection">> : a \in NewlyDegraded(s, results)} \ seen
<1>1. \A a \in Failed(results) : WindowsOf(a) \subseteq Windows /\ <<a, "collection">> \in Windows
  BY DEF Failed, WindowsOf, RowsType, Windows
<1>2. seen \subseteq Windows
  BY <1>1
<1>3. added \subseteq Windows
  BY <1>1 DEF NewlyDegraded
<1> HIDE DEF seen, added
<1>4. MissedAt(s, results, at, start) = [w \in seen \cup added |-> IF w \in seen THEN at ELSE start]
  BY DEF MissedAt, seen, added
<1> QED
  BY <1>2, <1>3, <1>4

\* A new row is made of an observation, or of a window observed in vain.
LEMMA EvaluatedRow ==
  ASSUME RowsType, NEW s \in Settings, NEW results \in Results, NEW at \in Nat,
         NEW start \in Nat, NEW w \in DOMAIN Evaluated(s, results, at, start)
  PROVE  LET row == Evaluated(s, results, at, start)[w] IN
         /\ w \in Windows
         /\ \/ \E a \in Reliable(results) :
                 w = <<a, "quota">> /\ row = Observed(s, Row(w), results[a], at, start)
            \/ \E t \in Nat : row = Missed(Row(w), t, start)
<1> DEFINE missed == MissedAt(s, results, at, start)
           reliable == {<<a, "quota">> : a \in Reliable(results)}
           row == Evaluated(s, results, at, start)[w]
<1>1. Evaluated(s, results, at, start) =
        [v \in DOMAIN missed \cup reliable |->
          IF v \in reliable THEN Observed(s, Row(v), results[v[1]], at, start)
          ELSE Missed(Row(v), missed[v], start)]
  BY DEF Evaluated
<1>2. w \in DOMAIN missed \cup reliable
  BY <1>1
<1>3. CASE w \in reliable
  <2>1. PICK a \in Reliable(results) : w = <<a, "quota">>
    BY <1>3
  <2>2. row = Observed(s, Row(w), results[a], at, start)
    BY <1>1, <1>2, <1>3, <2>1
  <2>3. w \in Windows
    BY <2>1 DEF Reliable, Windows
  <2> QED
    BY <2>1, <2>2, <2>3
<1>4. CASE w \notin reliable
  <2>1. w \in DOMAIN missed
    BY <1>2, <1>4
  <2>2. w \in Windows /\ missed[w] \in Nat
    BY <2>1, MissedTimes
  <2>3. row = Missed(Row(w), missed[w], start)
    BY <1>1, <1>2, <1>4
  <2> QED
    BY <2>2, <2>3
<1> QED
  BY <1>3, <1>4

LEMMA ReliableLevel ==
  ASSUME NEW results, NEW a \in Reliable(results)
  PROVE  a \in Auths /\ results[a] \in Levels
  BY DEF Reliable

LEMMA EvaluatedTypes ==
  ASSUME RowsType, NEW s \in Settings, NEW results \in Results, NEW at \in Nat,
         NEW start \in Nat, NEW w \in DOMAIN Evaluated(s, results, at, start)
  PROVE  Evaluated(s, results, at, start)[w] \in RowType
<1>1. Row(w) \in RowType
  BY RowIsTyped
<1> QED
  BY <1>1, EvaluatedRow, ObservedTypes, MissedTypes, ReliableLevel

\* An event of a cycle is one of an observation, or reports a degradation.
LEMMA NewEventsTypes ==
  ASSUME RowsType, NEW s \in Settings, NEW results \in Results, NEW at \in Nat,
         NEW start \in Nat,
         NEW e \in NewEvents(s, results, Evaluated(s, results, at, start), start)
  PROVE  /\ e \in EventType
         /\ e.kind = "monitor_degraded" =>
              \E a \in NewlyDegraded(s, results) : e = Degraded(<<a, "collection">>, start)
<1> DEFINE new == Evaluated(s, results, at, start)
<1>1. CASE \E a \in Reliable(results) :
             e \in EventsFor(s, <<a, "quota">>, Row(<<a, "quota">>), new[<<a, "quota">>], start)
  <2>1. PICK a \in Reliable(results) :
             e \in EventsFor(s, <<a, "quota">>, Row(<<a, "quota">>), new[<<a, "quota">>], start)
    BY <1>1
  <2>2. <<a, "quota">> \in DOMAIN new
    BY <2>1 DEF Evaluated
  <2>3. new[<<a, "quota">>] \in RowType /\ <<a, "quota">> \in Windows
    BY <2>2, EvaluatedTypes, EvaluatedRow
  <2>4. Row(<<a, "quota">>) \in RowType
    BY RowIsTyped
  <2> HIDE DEF new
  <2> QED
    BY <2>1, <2>3, <2>4, EventsTypes
<1>2. CASE \E a \in NewlyDegraded(s, results) : e = Degraded(<<a, "collection">>, start)
  <2>1. PICK a \in NewlyDegraded(s, results) : e = Degraded(<<a, "collection">>, start)
    BY <1>2
  <2>2. <<a, "collection">> \in Windows
    BY DEF NewlyDegraded, Failed, Windows
  <2>3. e \in EventType
    BY <2>1, <2>2 DEF Degraded, EventType, Kinds, Alerts
  <2> QED
    BY <2>1, <2>3
<1>3. e \in NewEvents(s, results, new, start)
  OBVIOUS
<1> HIDE DEF new
<1> DEFINE Of(a) == EventsFor(s, <<a, "quota">>, Row(<<a, "quota">>), new[<<a, "quota">>], start)
           Observations == {Of(a) : a \in Reliable(results)}
           Reports == {Degraded(<<a, "collection">>, start) : a \in NewlyDegraded(s, results)}
<1>4. e \in UNION Observations \/ e \in Reports
  BY <1>3 DEF NewEvents
<1>5. e \in UNION Observations => \E a \in Reliable(results) : e \in Of(a)
  <2> HIDE DEF Of
  <2> QED
    BY ZenonT(20)
<1>6. e \in Reports => \E a \in NewlyDegraded(s, results) : e = Degraded(<<a, "collection">>, start)
  OBVIOUS
<1> QED
  BY <1>1, <1>2, <1>4, <1>5, <1>6

\* An alarm in a new row is no worse than before, or one of the events of the cycle.
LEMMA AlarmIsAnnounced ==
  ASSUME RowsType, NEW s \in Settings, NEW results \in Results, NEW at \in Nat,
         NEW start \in Nat, NEW w \in DOMAIN Evaluated(s, results, at, start),
         Evaluated(s, results, at, start)[w].alert \in Alarms
  PROVE  LET new == Evaluated(s, results, at, start) IN
         \/ Row(w).alert \in Alarms /\ Rank(Row(w).alert) >= Rank(new[w].alert)
         \/ \E e \in NewEvents(s, results, new, start) :
              e.who = w /\ e.at = at /\ Rank(e.to) >= Rank(new[w].alert)
<1> DEFINE new == Evaluated(s, results, at, start)
<1>1. Row(w) \in RowType
  BY RowIsTyped
<1>2. CASE \E t \in Nat : new[w] = Missed(Row(w), t, start)
  <2>1. Row(w).alert = new[w].alert
    BY <1>1, <1>2, MissedTypes
  <2>2. new[w].alert \in Alarms
    OBVIOUS
  <2> QED
    BY <2>1, <2>2 DEF Rank, Alarms
<1>3. CASE \E a \in Reliable(results) :
             w = <<a, "quota">> /\ new[w] = Observed(s, Row(w), results[a], at, start)
  <2>1. PICK a \in Reliable(results) :
             w = <<a, "quota">> /\ new[w] = Observed(s, Row(w), results[a], at, start)
    BY <1>3
  <2>2. \/ Row(w).alert \in Alarms /\ Rank(Row(w).alert) >= Rank(new[w].alert)
        \/ \E e \in EventsFor(s, w, Row(w), new[w], start) :
              e.who = w /\ e.at = at /\ Rank(e.to) >= Rank(new[w].alert)
    BY <1>1, <2>1, WorseIsAnnounced, ReliableLevel
  <2> HIDE DEF new
  <2>3. EventsFor(s, w, Row(w), new[w], start) \subseteq NewEvents(s, results, new, start)
    BY <2>1 DEF NewEvents
  <2> QED
    BY <2>2, <2>3 DEF new
<1> QED
  BY <1>2, <1>3, EvaluatedRow

-----------------------------------------------------------------------------
(* The types are kept.                                                     *)

LEMMA ProcForms ==
  ASSUME TypeOK, NEW i \in Instances
  PROVE  /\ proc[i] \in ProcType
         /\ proc[i] = Idle => proc[i].does = "nothing"
         /\ proc[i].does = "collect" => proc[i] \in CollectType
         /\ proc[i].does = "deliver" => proc[i] \in DeliverType
  BY DEF TypeOK, ProcType, Idle, CollectType, DeliverType

LEMMA ProcChange ==
  ASSUME TypeOK, NEW i \in Instances, NEW p \in ProcType, proc' = [proc EXCEPT ![i] = p]
  PROVE  /\ proc' \in [Instances -> ProcType] /\ proc'[i] = p
         /\ \A j \in Instances : j # i => proc'[j] = proc[j]
  BY DEF TypeOK

LEMMA SameStore ==
  ASSUME RowsType, StoreTypes, UNCHANGED store
  PROVE  RowsType' /\ StoreTypes' /\ \A w : Row(w)' = Row(w)
  BY DEF RowsType, StoreTypes, store, Row

LEMMA SameBatches ==
  ASSUME BatchesType, UNCHANGED batches
  PROVE  BatchesType' /\ Events' = Events
  BY DEF BatchesType, Events

\* Batches are only added; a new one is as NewBatch.
LEMMA AddBatchStep ==
  ASSUME BatchesType, NEW events, events \subseteq EventType, AddBatch(events)
  PROVE  /\ BatchesType'
         /\ Events' = Events \cup events
         /\ DOMAIN batches \subseteq DOMAIN batches'
         /\ \A b \in DOMAIN batches : batches'[b] = batches[b]
         /\ \A b \in DOMAIN batches' \ DOMAIN batches : batches'[b] = NewBatch
<1>1. CASE events = {}
  BY <1>1 DEF AddBatch, BatchesType, Events
<1>2. CASE events # {}
  <2>1. batches' = [b \in DOMAIN batches \cup {events} |->
                      IF b \in DOMAIN batches THEN batches[b] ELSE NewBatch]
    BY <1>2 DEF AddBatch
  <2>2. DOMAIN batches' = DOMAIN batches \cup {events}
    BY <2>1
  <2>3. \A b \in DOMAIN batches : batches'[b] = batches[b]
    BY <2>1
  <2>4. \A b \in DOMAIN batches' \ DOMAIN batches : batches'[b] = NewBatch
    BY <2>1
  <2>5. NewBatch \in BatchType
    BY DEF NewBatch, BatchType, Results3
  <2>6. BatchesType'
    BY <1>2, <2>2, <2>3, <2>4, <2>5 DEF BatchesType
  <2>7. Events' = Events \cup events
    BY <2>2 DEF Events
  <2> QED
    BY <2>2, <2>3, <2>4, <2>6, <2>7
<1> QED
  BY <1>1, <1>2

LEMMA StreakTypes ==
  ASSUME StoreTypes, NEW results
  PROVE  Streak(results) \in [Auths -> Nat]
  BY DEF Streak, StoreTypes

LEMMA WriteTypes ==
  ASSUME RowsType, StoreTypes, NEW s \in Settings, NEW results \in Results, NEW at \in Nat,
         NEW start \in Nat, Write(results, Evaluated(s, results, at, start), start)
  PROVE  RowsType' /\ StoreTypes'
<1> DEFINE new == Evaluated(s, results, at, start)
<1>1. \A w \in DOMAIN new : w \in Windows /\ new[w] \in RowType
  BY EvaluatedTypes, EvaluatedRow
<1>2. Write(results, new, start)
  OBVIOUS
<1> HIDE DEF new
<1>3. rows' = [w \in (DOMAIN rows \ Removed(results, new)) \cup DOMAIN new |->
                IF w \in DOMAIN new THEN new[w] ELSE rows[w]]
  BY <1>2 DEF Write
<1>4. RowsType'
  BY <1>1, <1>3 DEF RowsType
<1>5. StoreTypes'
  BY <1>2, StreakTypes DEF Write, StoreTypes
<1> QED
  BY <1>4, <1>5

\* A cycle ends: it is written as a whole, or not at all.
LEMMA FinishStep ==
  ASSUME TypeOK, NEW i \in Instances, NEW results \in Results, NEW delay \in 0..1,
         FinishCollection(i, results, delay)
  PROVE  /\ TypeOK'
         /\ proc[i] \in CollectType /\ proc'[i] = Idle
         /\ \A j \in Instances : j # i => proc'[j] = proc[j]
         /\ clock' \in Nat /\ clock' >= clock
         /\ lock' = IF lock = i THEN Nobody ELSE lock
         /\ UNCHANGED <<settings, revision, incidents>>
         /\ LET s == proc[i].settings
                start == proc[i].start
                new == Evaluated(s, results, clock', start)
                events == NewEvents(s, results, new, start)
            IN /\ s \in Settings /\ start \in Nat
               /\ events \subseteq EventType
               /\ \/ lock = i /\ Write(results, new, start) /\ AddBatch(events)
                  \/ UNCHANGED <<store, batches>>
<1> DEFINE s == proc[i].settings
           start == proc[i].start
           new == Evaluated(s, results, clock + delay, start)
           events == NewEvents(s, results, new, start)
<1>1. /\ proc[i].does = "collect"
      /\ clock' = clock + delay
      /\ lock' = IF lock = i THEN Nobody ELSE lock
      /\ proc' = [proc EXCEPT ![i] = Idle]
      /\ UNCHANGED <<settings, revision, incidents>>
  BY DEF FinishCollection
<1>2. \/ Accepted(i, new, events) /\ Write(results, new, start) /\ AddBatch(events)
      \/ UNCHANGED <<store, batches>>
  BY DEF FinishCollection
<1>3. proc[i] \in CollectType
  BY <1>1, ProcForms
<1>4. s \in Settings /\ start \in Nat
  BY <1>3 DEF CollectType
<1>5. clock \in Nat /\ clock' \in Nat /\ clock' >= clock
  BY <1>1 DEF TypeOK
<1>6. Idle \in ProcType
  BY DEF ProcType
<1>7. /\ proc' \in [Instances -> ProcType] /\ proc'[i] = Idle
      /\ \A j \in Instances : j # i => proc'[j] = proc[j]
  BY <1>1, <1>6, ProcChange
<1>8. RowsType /\ StoreTypes /\ BatchesType
  BY DEF TypeOK
<1> HIDE DEF s, start
<1>9. events \subseteq EventType
  BY <1>1, <1>4, <1>5, <1>8, NewEventsTypes
<1>10. RowsType' /\ StoreTypes' /\ BatchesType'
  <2>1. CASE Write(results, new, start) /\ AddBatch(events)
    <3>1. RowsType' /\ StoreTypes'
      BY <1>1, <1>4, <1>5, <1>8, <2>1, WriteTypes
    <3> HIDE DEF events
    <3> QED
      BY <1>8, <1>9, <2>1, <3>1, AddBatchStep
  <2>2. CASE UNCHANGED <<store, batches>>
    BY <1>8, <2>2, SameStore, SameBatches
  <2> QED
    BY <1>2, <2>1, <2>2
<1>11. lock' \in Instances \cup {Nobody}
  BY <1>1 DEF TypeOK
<1>12. TypeOK'
  BY <1>1, <1>5, <1>7, <1>10, <1>11 DEF TypeOK
<1>13. \/ lock = i /\ Write(results, new, start) /\ AddBatch(events)
       \/ UNCHANGED <<store, batches>>
  BY <1>2 DEF Accepted
<1>14. new = Evaluated(s, results, clock', start)
  BY <1>1
<1> HIDE DEF new
<1> QED
  BY <1>1, <1>3, <1>4, <1>5, <1>7, <1>9, <1>12, <1>13, <1>14 DEF s, start

-----------------------------------------------------------------------------
(* The steps of a delivery.                                                *)

\* A set of numbers has a least one.
LEMMA LeastNumber ==
  ASSUME NEW S, S \subseteq Nat, S # {}
  PROVE  \E m \in S : \A k \in S : m <= k
<1>1. PICK n \in S : TRUE
  OBVIOUS
<1> DEFINE T == {0..k : k \in {l \in S : l <= n}}
<1>2. IsFiniteSet(0..n)
  BY <1>1, FS_Interval
<1>3. T \subseteq FiniteSubsetsOf(0..n)
  <2>1. T \subseteq SUBSET (0..n)
    BY <1>1
  <2> QED
    BY <1>2, <2>1, FS_FiniteSubsetsOfFinite
<1>4. T # {}
  BY <1>1
<1>5. PICK t \in T : \A u \in T : ~ (<<u, t>> \in StrictSubsetOrdering(0..n))
  <2> HIDE DEF T
  <2> QED
    BY <1>2, <1>3, <1>4, FS_StrictSubsetOrderingWellFounded, WFMin
<1>6. PICK m \in S : m <= n /\ t = 0..m
  OBVIOUS
<1>7. ASSUME NEW k \in S, ~(m <= k) PROVE FALSE
  <2>1. k \in Nat /\ m \in Nat /\ n \in Nat /\ k < m /\ k <= n
    BY <1>1, <1>6, <1>7
  <2>2. 0..k \in T
    BY <2>1
  <2>3. 0..k \subseteq 0..m /\ 0..k # 0..m
    <3>1. m \in 0..m /\ m \notin 0..k
      BY <2>1
    <3> QED
      BY <2>1, <3>1
  <2>4. <<0..k, t>> \in StrictSubsetOrdering(0..n)
    BY <1>6, <2>1, <2>3 DEF StrictSubsetOrdering
  <2> QED
    BY <1>5, <2>2, <2>4
<1> QED
  BY <1>7

\* A batch has a time, and the foremost claim is one of the claims.
LEMMA CreatedIsTime ==
  ASSUME NEW b, b \subseteq EventType, b # {}
  PROVE  Created(b) \in Nat
<1> DEFINE times == {e.at : e \in b}
<1>1. times \subseteq Nat /\ times # {}
  BY DEF EventType
<1>2. \E t \in times : \A k \in times : t <= k
  <2> HIDE DEF times
  <2> QED
    BY <1>1, LeastNumber
<1>3. \E t \in times : \A e \in b : t <= e.at
  BY <1>2
<1> QED
  BY <1>1, <1>3 DEF Created

LEMMA ForemostIsClaim ==
  ASSUME NEW claims, claims \subseteq ClaimType, claims # {}
  PROVE  Foremost(claims) \in claims
<1> DEFINE times == {Created(c.batch) : c \in claims}
<1>1. \A c \in claims : Created(c.batch) \in Nat
  BY CreatedIsTime DEF ClaimType
<1>2. times \subseteq Nat /\ times # {}
  BY <1>1
<1>3. \E t \in times : \A k \in times : t <= k
  <2> HIDE DEF times
  <2> QED
    BY <1>2, LeastNumber
<1>4. \E claim \in claims : \A c \in claims : Created(claim.batch) <= Created(c.batch)
  BY <1>3
<1> QED
  BY <1>4 DEF Foremost


\* An instance takes every batch that may be claimed, under a new lease.
LEMMA ClaimStep ==
  ASSUME TypeOK, NEW i \in Instances, Claim(i)
  PROVE  /\ TypeOK'
         /\ UNCHANGED <<clock, settings, revision, store, lock>>
         /\ DOMAIN batches' = DOMAIN batches
         /\ \A b \in DOMAIN batches :
              IF Claimable(b)
              THEN /\ batches'[b].status = "pending" /\ ~batches'[b].due
                   /\ batches'[b].extra = batches[b].extra
                   /\ batches'[b].attempts = batches[b].attempts + 1
                   /\ batches'[b].lease = batches[b].attempts + 1
              ELSE batches'[b] = batches[b]
         /\ proc[i].does = "nothing"
         /\ proc'[i].does = "deliver" /\ proc'[i].answer = NoAnswer
         /\ \A c : c \in proc'[i].claims <=>
              \E b \in DOMAIN batches :
                Claimable(b) /\ c = [batch |-> b, lease |-> batches[b].attempts + 1]
         /\ \A j \in Instances : j # i => proc'[j] = proc[j]
<1> DEFINE claimed == {b \in DOMAIN batches : Claimable(b)}
           Leased(b) == [batches[b] EXCEPT !.attempts = @ + 1, !.lease = batches[b].attempts + 1,
                                           !.due = FALSE]
           claims == {[batch |-> b, lease |-> batches'[b].lease] : b \in claimed}
<1>1. /\ proc[i] = Idle /\ claimed # {}
      /\ batches' = [b \in DOMAIN batches |-> IF b \in claimed THEN Leased(b) ELSE batches[b]]
      /\ proc' = [proc EXCEPT ![i] = Delivering(claims, NoAnswer)]
      /\ UNCHANGED <<clock, settings, revision, store, lock, incidents>>
  BY DEF Claim
<1>2. \A b \in DOMAIN batches : b \subseteq EventType /\ b # {} /\ batches[b] \in BatchType
  BY DEF TypeOK, BatchesType
<1>3. \A b \in claimed : /\ Leased(b) \in BatchType
                         /\ Leased(b).status = "pending" /\ ~Leased(b).due
                         /\ Leased(b).extra = batches[b].extra
                         /\ Leased(b).attempts = batches[b].attempts + 1
                         /\ Leased(b).lease = batches[b].attempts + 1
                         /\ batches[b].attempts + 1 \in Nat \ {0}
  <2> SUFFICES ASSUME NEW b \in claimed
               PROVE  /\ Leased(b) \in BatchType
                      /\ Leased(b).status = "pending" /\ ~Leased(b).due
                      /\ Leased(b).extra = batches[b].extra
                      /\ Leased(b).attempts = batches[b].attempts + 1
                      /\ Leased(b).lease = batches[b].attempts + 1
                      /\ batches[b].attempts + 1 \in Nat \ {0}
    OBVIOUS
  <2> DEFINE n == batches[b].attempts + 1
  <2>1. batches[b] \in BatchType /\ batches[b].status = "pending"
    BY <1>2 DEF Claimable
  <2>2. n \in Nat \ {0}
    BY <2>1 DEF BatchType
  <2>3. Leased(b) = [batches[b] EXCEPT !.attempts = n, !.lease = n, !.due = FALSE]
    OBVIOUS
  <2> HIDE DEF n, Leased
  <2>4. /\ Leased(b) \in BatchType
        /\ Leased(b).status = "pending" /\ ~Leased(b).due
        /\ Leased(b).extra = batches[b].extra
        /\ Leased(b).attempts = n /\ Leased(b).lease = n
    BY <2>1, <2>2, <2>3 DEF BatchType
  <2> QED
    BY <2>2, <2>4 DEF n
<1> HIDE DEF Leased
<1>4. /\ DOMAIN batches' = DOMAIN batches
      /\ \A b \in claimed : batches'[b] = Leased(b)
      /\ \A b \in DOMAIN batches \ claimed : batches'[b] = batches[b]
  BY <1>1
<1>5. BatchesType'
  BY <1>2, <1>3, <1>4 DEF BatchesType
<1>6. \A c : c \in claims <=>
        \E b \in DOMAIN batches :
          Claimable(b) /\ c = [batch |-> b, lease |-> batches[b].attempts + 1]
  BY <1>3, <1>4
<1>7. claims \subseteq ClaimType /\ claims # {}
  <2>1. \A b \in claimed : [batch |-> b, lease |-> batches[b].attempts + 1] \in ClaimType
    BY <1>2, <1>3 DEF ClaimType
  <2> QED
    BY <1>1, <1>6, <2>1
<1> HIDE DEF claims
<1>8. Delivering(claims, NoAnswer) \in ProcType
  BY <1>7 DEF Delivering, ProcType, DeliverType
<1>9. /\ proc' \in [Instances -> ProcType]
      /\ proc'[i] = Delivering(claims, NoAnswer)
      /\ \A j \in Instances : j # i => proc'[j] = proc[j]
  BY <1>1, <1>8, ProcChange
<1>10. /\ proc'[i].does = "deliver" /\ proc'[i].answer = NoAnswer /\ proc'[i].claims = claims
  BY <1>9 DEF Delivering
<1>11. TypeOK'
  BY <1>1, <1>5, <1>9, SameStore DEF TypeOK
<1>12. \A b \in DOMAIN batches :
              IF Claimable(b)
              THEN /\ batches'[b].status = "pending" /\ ~batches'[b].due
                   /\ batches'[b].extra = batches[b].extra
                   /\ batches'[b].attempts = batches[b].attempts + 1
                   /\ batches'[b].lease = batches[b].attempts + 1
              ELSE batches'[b] = batches[b]
  BY <1>3, <1>4
<1>13. proc[i].does = "nothing"
  BY <1>1, ProcForms
<1> HIDE DEF claimed
<1> QED
  BY <1>1, <1>4, <1>6, <1>9, <1>10, <1>11, <1>12, <1>13

\* A batch changed in one or two of its fields.
LEMMA BatchChange ==
  ASSUME BatchesType, NEW b, NEW new \in BatchType, batches' = [batches EXCEPT ![b] = new]
  PROVE  /\ BatchesType'
         /\ DOMAIN batches' = DOMAIN batches /\ Events' = Events
         /\ b \in DOMAIN batches => batches'[b] = new
         /\ \A d \in DOMAIN batches : d # b => batches'[d] = batches[d]
<1>1. DOMAIN batches' = DOMAIN batches
  OBVIOUS
<1> QED
  BY <1>1 DEF BatchesType, Events

\* A batch is sent, and its sender knows the outcome.
LEMMA SendStep ==
  ASSUME TypeOK, NEW i \in Instances, NEW outcome \in Outcomes, Send(i, outcome)
  PROVE  /\ TypeOK'
         /\ UNCHANGED <<clock, settings, revision, store, lock>>
         /\ proc[i].does = "deliver" /\ proc[i].answer = NoAnswer
         /\ proc'[i].does = "deliver" /\ proc'[i].claims = proc[i].claims
         /\ proc'[i].answer # NoAnswer
         /\ proc'[i].answer.told \in {0, 1}
         /\ proc'[i].answer.told = 1 <=> proc'[i].answer.result = "sent"
         /\ LET c == proc'[i].answer.claim IN
            /\ c \in proc[i].claims
            /\ DOMAIN batches' = DOMAIN batches /\ Events' = Events
            /\ \A b \in DOMAIN batches :
                 /\ batches'[b].status = batches[b].status /\ batches'[b].due = batches[b].due
                 /\ batches'[b].attempts = batches[b].attempts
                 /\ batches'[b].lease = batches[b].lease
                 /\ batches'[b].extra =
                      batches[b].extra + IF b = c.batch THEN proc'[i].answer.told ELSE 0
         /\ \A j \in Instances : j # i => proc'[j] = proc[j]
<1> DEFINE c == Foremost(proc[i].claims)
           b == c.batch
           told == IF outcome = "sent" THEN 1 ELSE 0
           answer == [result |-> Verdict(outcome, c.lease), claim |-> c, told |-> told]
<1>1. /\ proc[i].does = "deliver" /\ proc[i].answer = NoAnswer
      /\ proc' = [proc EXCEPT ![i].answer = answer]
      /\ batches' = [batches EXCEPT ![b].extra = @ + told]
      /\ UNCHANGED <<clock, settings, revision, store, lock, incidents>>
  BY DEF Send
<1>2. proc[i] \in DeliverType
  BY <1>1, ProcForms
<1>3. c \in proc[i].claims
  BY <1>2, ForemostIsClaim DEF DeliverType
<1>4. c \in ClaimType
  BY <1>2, <1>3 DEF DeliverType
<1>5. /\ Verdict(outcome, c.lease) \in Results3
      /\ told = 1 <=> Verdict(outcome, c.lease) = "sent"
  BY DEF Verdict, Results3
<1>6. told \in {0, 1}
  OBVIOUS
<1> HIDE DEF told, c
<1>7. answer \in AnswerType /\ answer # NoAnswer
  BY <1>4, <1>5, <1>6 DEF AnswerType, NoAnswer, Results3
<1>8. answer.told = told /\ answer.claim = c /\ (told = 1 <=> answer.result = "sent")
  BY <1>5
<1> HIDE DEF answer
<1> DEFINE p == [proc[i] EXCEPT !.answer = answer]
<1>9. /\ p \in ProcType /\ p.does = "deliver" /\ p.claims = proc[i].claims
      /\ p.answer = answer
  BY <1>2, <1>7 DEF DeliverType, ProcType
<1>10. /\ proc' \in [Instances -> ProcType] /\ proc'[i] = p
       /\ \A j \in Instances : j # i => proc'[j] = proc[j]
  <2>1. proc' = [proc EXCEPT ![i] = p]
    BY <1>1
  <2> HIDE DEF p
  <2> QED
    BY <1>9, <2>1, ProcChange
<1> HIDE DEF p
<1>11. BatchesType /\ \A d \in DOMAIN batches : batches[d] \in BatchType
  BY DEF TypeOK, BatchesType
<1>12. /\ BatchesType' /\ DOMAIN batches' = DOMAIN batches /\ Events' = Events
       /\ \A d \in DOMAIN batches :
            /\ batches'[d].status = batches[d].status /\ batches'[d].due = batches[d].due
            /\ batches'[d].attempts = batches[d].attempts
            /\ batches'[d].lease = batches[d].lease
            /\ batches'[d].extra = batches[d].extra + IF d = b THEN told ELSE 0
  <2>1. CASE b \in DOMAIN batches
    <3> DEFINE new == [batches[b] EXCEPT !.extra = @ + told]
    <3>1. /\ new \in BatchType /\ new.status = batches[b].status /\ new.due = batches[b].due
          /\ new.attempts = batches[b].attempts /\ new.lease = batches[b].lease
          /\ new.extra = batches[b].extra + told
      BY <1>6, <1>11, <2>1 DEF BatchType
    <3>2. batches' = [batches EXCEPT ![b] = new]
      BY <1>1
    <3> HIDE DEF new
    <3>3. /\ BatchesType' /\ DOMAIN batches' = DOMAIN batches /\ Events' = Events
          /\ batches'[b] = new
          /\ \A d \in DOMAIN batches : d # b => batches'[d] = batches[d]
      BY <1>11, <2>1, <3>1, <3>2, BatchChange
    <3>4. \A d \in DOMAIN batches : batches[d].extra \in Int
      BY <1>11 DEF BatchType
    <3> QED
      BY <3>1, <3>3, <3>4
  <2>2. CASE b \notin DOMAIN batches
    <3>1. /\ DOMAIN batches' = DOMAIN batches
          /\ \A d \in DOMAIN batches : batches'[d] = batches[d]
      BY <1>1, <2>2
    <3>2. BatchesType' /\ Events' = Events
      BY <1>11, <3>1 DEF BatchesType, Events
    <3>3. \A d \in DOMAIN batches : batches[d].extra \in Int
      BY <1>11 DEF BatchType
    <3> QED
      BY <2>2, <3>1, <3>2, <3>3
  <2> QED
    BY <2>1, <2>2
<1>13. TypeOK'
  BY <1>1, <1>10, <1>12, SameStore DEF TypeOK
<1>14. proc'[i].answer = answer /\ proc'[i].does = "deliver" /\ proc'[i].claims = proc[i].claims
  BY <1>9, <1>10
<1>15. proc'[i].answer.claim = c /\ proc'[i].answer.told = told
  BY <1>8, <1>14
<1> QED
  BY <1>1, <1>3, <1>6, <1>7, <1>8, <1>10, <1>12, <1>13, <1>14, <1>15


\* The outcome is written under the lease only; else the delivery ends.
LEMMA ResolveStep ==
  ASSUME TypeOK, LeaseInv, NEW i \in Instances, Resolve(i)
  PROVE  LET c == proc[i].answer.claim
             b == c.batch
             held == batches[b].lease = c.lease /\ batches[b].status = "pending"
         IN /\ TypeOK'
            /\ UNCHANGED <<clock, settings, revision, store, lock>>
            /\ proc[i].does = "deliver" /\ proc[i].answer # NoAnswer
            /\ b \in DOMAIN batches /\ c \in proc[i].claims
            /\ DOMAIN batches' = DOMAIN batches /\ Events' = Events
            /\ \A d \in DOMAIN batches : d # b \/ ~held => batches'[d] = batches[d]
            /\ held =>
                 /\ batches'[b].status = proc[i].answer.result
                 /\ batches'[b].lease = 0 /\ ~batches'[b].due
                 /\ batches'[b].extra = batches[b].extra
                 /\ batches'[b].attempts = batches[b].attempts
            /\ \/ /\ held
                  /\ proc'[i].does = "deliver" /\ proc'[i].answer = NoAnswer
                  /\ proc'[i].claims = proc[i].claims \ {c}
               \/ /\ proc'[i].does = "nothing"
                  /\ held => proc[i].claims \ {c} = {}
            /\ \A j \in Instances : j # i => proc'[j] = proc[j]
<1> DEFINE answer == proc[i].answer
           c == answer.claim
           b == c.batch
           held == batches[b].lease = c.lease /\ batches[b].status = "pending"
           rest == IF held THEN proc[i].claims \ {c} ELSE {}
           p == IF rest = {} THEN Idle ELSE Delivering(rest, NoAnswer)
<1>1. /\ proc[i].does = "deliver" /\ answer # NoAnswer
      /\ batches' = IF held
                    THEN [batches EXCEPT ![b].status = answer.result, ![b].lease = 0,
                                         ![b].due = FALSE]
                    ELSE batches
      /\ proc' = [proc EXCEPT ![i] = p]
      /\ UNCHANGED <<clock, settings, revision, store, lock, incidents>>
  BY DEF Resolve
<1>2. proc[i] \in DeliverType
  BY <1>1, ProcForms
<1>3. c \in proc[i].claims
  BY <1>1 DEF LeaseInv
<1>4. b \in DOMAIN batches
  BY <1>1, <1>3 DEF LeaseInv, ClaimsOf
<1>5. answer \in AnswerType
  BY <1>1, <1>2 DEF DeliverType
<1>6. BatchesType /\ batches[b] \in BatchType
  BY <1>4 DEF TypeOK, BatchesType
<1>7. p \in ProcType
  BY <1>2 DEF ProcType, DeliverType, Delivering
<1>8. /\ rest # {} => /\ p.does = "deliver" /\ p.claims = rest /\ p.answer = NoAnswer
      /\ rest = {} => p.does = "nothing"
  BY DEF Idle, Delivering
<1>9. /\ rest # {} => held /\ rest = proc[i].claims \ {c}
      /\ rest = {} => (held => proc[i].claims \ {c} = {})
  OBVIOUS
<1> HIDE DEF p, rest
<1>10. /\ proc' \in [Instances -> ProcType] /\ proc'[i] = p
       /\ \A j \in Instances : j # i => proc'[j] = proc[j]
  BY <1>1, <1>7, ProcChange
<1>11. /\ BatchesType' /\ DOMAIN batches' = DOMAIN batches /\ Events' = Events
       /\ \A d \in DOMAIN batches : d # b \/ ~held => batches'[d] = batches[d]
       /\ held =>
            /\ batches'[b].status = answer.result
            /\ batches'[b].lease = 0 /\ ~batches'[b].due
            /\ batches'[b].extra = batches[b].extra
            /\ batches'[b].attempts = batches[b].attempts
  <2>1. CASE held
    <3> DEFINE new == [batches[b] EXCEPT !.status = answer.result, !.lease = 0, !.due = FALSE]
    <3>1. /\ new \in BatchType /\ new.status = answer.result /\ new.lease = 0 /\ ~new.due
          /\ new.extra = batches[b].extra /\ new.attempts = batches[b].attempts
      BY <1>5, <1>6 DEF BatchType, AnswerType
    <3>2. batches' = [batches EXCEPT ![b] = new]
      BY <1>1, <1>4, <2>1
    <3> HIDE DEF new
    <3>3. /\ BatchesType' /\ DOMAIN batches' = DOMAIN batches /\ Events' = Events
          /\ batches'[b] = new
          /\ \A d \in DOMAIN batches : d # b => batches'[d] = batches[d]
      BY <1>4, <1>6, <3>1, <3>2, BatchChange
    <3> QED
      BY <2>1, <3>1, <3>3
  <2>2. CASE ~held
    <3>1. UNCHANGED batches
      BY <1>1, <2>2
    <3> QED
      BY <1>6, <2>2, <3>1, SameBatches
  <2> QED
    BY <2>1, <2>2
<1>12. TypeOK'
  BY <1>1, <1>10, <1>11, SameStore DEF TypeOK
<1> QED
  BY <1>1, <1>3, <1>4, <1>8, <1>9, <1>10, <1>11, <1>12

LEMMA ComeDueStep ==
  ASSUME TypeOK, NEW b \in DOMAIN batches, ComeDue(b)
  PROVE  /\ TypeOK'
         /\ UNCHANGED <<clock, settings, revision, store, lock, proc>>
         /\ DOMAIN batches' = DOMAIN batches /\ Events' = Events
         /\ \A d \in DOMAIN batches : d # b => batches'[d] = batches[d]
         /\ batches[b].status = "pending" /\ ~batches[b].due
         /\ batches'[b].status = batches[b].status
         /\ batches'[b].attempts = batches[b].attempts
         /\ batches'[b].lease = batches[b].lease
         /\ batches'[b].due
         /\ batches'[b].extra = batches[b].extra - IF Working(b) THEN 1 ELSE 0
<1> DEFINE spare == IF Working(b) THEN 1 ELSE 0
           extra == batches[b].extra - spare
           new == [batches[b] EXCEPT !.due = TRUE, !.extra = extra]
<1>1. /\ batches[b].status = "pending" /\ ~batches[b].due
      /\ batches' = [batches EXCEPT ![b].due = TRUE, ![b].extra = @ - spare]
      /\ UNCHANGED <<clock, settings, revision, store, lock, proc>>
  BY DEF ComeDue
<1>2. BatchesType /\ batches[b] \in BatchType
  BY DEF TypeOK, BatchesType
<1>3. spare \in {0, 1}
  OBVIOUS
<1> HIDE DEF spare
<1>4. extra \in Int
  BY <1>2, <1>3 DEF BatchType
<1>5. batches' = [batches EXCEPT ![b] = new]
  BY <1>1
<1> HIDE DEF extra
<1>6. /\ new \in BatchType /\ new.status = batches[b].status
      /\ new.attempts = batches[b].attempts /\ new.lease = batches[b].lease
      /\ new.due /\ new.extra = extra
  BY <1>2, <1>4 DEF BatchType
<1> HIDE DEF new
<1>7. /\ BatchesType' /\ DOMAIN batches' = DOMAIN batches /\ Events' = Events
      /\ batches'[b] = new
      /\ \A d \in DOMAIN batches : d # b => batches'[d] = batches[d]
  BY <1>2, <1>5, <1>6, BatchChange
<1>8. TypeOK'
  BY <1>1, <1>7, SameStore DEF TypeOK
<1> QED
  BY <1>1, <1>6, <1>7, <1>8 DEF extra, spare

LEMMA CrashStep ==
  ASSUME TypeOK, NEW i \in Instances, Crash(i)
  PROVE  /\ TypeOK'
         /\ UNCHANGED <<clock, settings, revision, store>>
         /\ lock' = IF lock = i THEN Nobody ELSE lock
         /\ DOMAIN batches' = DOMAIN batches /\ Events' = Events
         /\ \A b \in DOMAIN batches :
              /\ batches'[b].status = batches[b].status /\ batches'[b].due = batches[b].due
              /\ batches'[b].attempts = batches[b].attempts
              /\ batches'[b].lease = batches[b].lease
              /\ batches'[b].extra =
                   batches[b].extra -
                   IF /\ proc[i].does = "deliver" /\ proc[i].answer # NoAnswer
                      /\ proc[i].answer.claim.batch = b /\ proc[i].answer.told = 1
                   THEN 1 ELSE 0
         /\ proc'[i] = Idle
         /\ \A j \in Instances : j # i => proc'[j] = proc[j]
<1> DEFINE Told1(b) == /\ proc[i].does = "deliver" /\ proc[i].answer # NoAnswer
                       /\ proc[i].answer.claim.batch = b /\ proc[i].answer.told = 1
           lost == {b \in DOMAIN batches : Told1(b)}
           Less(b) == [batches[b] EXCEPT !.extra = @ - 1]
<1>1. /\ lock' = IF lock = i THEN Nobody ELSE lock
      /\ proc' = [proc EXCEPT ![i] = Idle]
      /\ batches' = [b \in DOMAIN batches |-> IF b \in lost THEN Less(b) ELSE batches[b]]
      /\ UNCHANGED <<clock, settings, revision, store>>
  BY DEF Crash
<1> HIDE DEF Told1
<1>2. \A b \in DOMAIN batches : b \subseteq EventType /\ b # {} /\ batches[b] \in BatchType
  BY DEF TypeOK, BatchesType
<1>3. \A b \in DOMAIN batches :
        /\ Less(b) \in BatchType /\ Less(b).extra = batches[b].extra - 1
        /\ Less(b).status = batches[b].status /\ Less(b).due = batches[b].due
        /\ Less(b).attempts = batches[b].attempts /\ Less(b).lease = batches[b].lease
  BY <1>2 DEF BatchType
<1> HIDE DEF Less
<1>4. /\ DOMAIN batches' = DOMAIN batches
      /\ \A b \in DOMAIN batches : batches'[b] = IF Told1(b) THEN Less(b) ELSE batches[b]
  BY <1>1
<1>5. BatchesType' /\ Events' = Events
  BY <1>2, <1>3, <1>4 DEF BatchesType, Events
<1>6. /\ proc' \in [Instances -> ProcType] /\ proc'[i] = Idle
      /\ \A j \in Instances : j # i => proc'[j] = proc[j]
  BY <1>1, ProcChange DEF ProcType
<1>7. lock' \in Instances \cup {Nobody}
  BY <1>1 DEF TypeOK
<1>8. TypeOK'
  BY <1>1, <1>5, <1>6, <1>7, SameStore DEF TypeOK
<1>9. \A b \in DOMAIN batches :
        /\ batches'[b].status = batches[b].status /\ batches'[b].due = batches[b].due
        /\ batches'[b].attempts = batches[b].attempts
        /\ batches'[b].lease = batches[b].lease
        /\ batches'[b].extra = batches[b].extra - IF Told1(b) THEN 1 ELSE 0
  <2>1. \A b \in DOMAIN batches : batches[b].extra \in Int
    BY <1>2 DEF BatchType
  <2> QED
    BY <1>3, <1>4, <2>1
<1> QED
  BY <1>1, <1>4, <1>5, <1>6, <1>8, <1>9 DEF Told1

LEMMA BeginStep ==
  ASSUME TypeOK, NEW i \in Instances, BeginCollection(i)
  PROVE  /\ TypeOK'
         /\ UNCHANGED <<settings, revision, store, batches>>
         /\ clock' = clock + 1 /\ lock' = i /\ lock = Nobody
         /\ proc[i].does = "nothing"
         /\ proc'[i].does = "collect" /\ proc'[i].start = clock + 1
         /\ proc'[i].settings = settings
         /\ \A j \in Instances : j # i => proc'[j] = proc[j]
<1> DEFINE p == Collecting(clock + 1, settings, revision)
<1>1. /\ proc[i] = Idle /\ lock = Nobody /\ lock' = i /\ clock' = clock + 1
      /\ proc' = [proc EXCEPT ![i] = p]
      /\ UNCHANGED <<settings, revision, store, batches>>
  BY DEF BeginCollection
<1>2. p \in ProcType /\ p.does = "collect" /\ p.start = clock + 1 /\ p.settings = settings
  BY DEF TypeOK, ProcType, CollectType, Collecting
<1> HIDE DEF p
<1>3. /\ proc' \in [Instances -> ProcType] /\ proc'[i] = p
      /\ \A j \in Instances : j # i => proc'[j] = proc[j]
  BY <1>1, <1>2, ProcChange
<1>4. clock' \in Nat /\ lock' \in Instances \cup {Nobody}
  BY <1>1 DEF TypeOK
<1>5. TypeOK'
  BY <1>1, <1>3, <1>4, SameStore, SameBatches DEF TypeOK
<1> QED
  BY <1>1, <1>2, <1>3, <1>5, ProcForms

LEMMA LoseStep ==
  ASSUME TypeOK, NEW i \in Instances, LoseConnection(i)
  PROVE  /\ TypeOK'
         /\ UNCHANGED <<clock, settings, revision, store, batches, proc>>
         /\ lock' = Nobody
  BY SameStore, SameBatches DEF TypeOK, LoseConnection

LEMMA SaveStep ==
  ASSUME TypeOK, NEW s \in Settings, SaveSettings(s)
  PROVE  TypeOK' /\ UNCHANGED <<clock, store, batches, lock, proc>>
  BY SameStore, SameBatches DEF TypeOK, SaveSettings

LEMMA InitTypes == Init => TypeOK
<1> SUFFICES ASSUME Init PROVE TypeOK
  OBVIOUS
<1>1. RowsType /\ BatchesType
  BY DEF Init, RowsType, BatchesType
<1>2. StoreTypes
  BY DEF Init, StoreTypes
<1>3. proc \in [Instances -> ProcType]
  BY DEF Init, ProcType
<1> QED
  BY <1>1, <1>2, <1>3 DEF Init, TypeOK


-----------------------------------------------------------------------------
(* Leases are held once.                                                   *)

\* Only a claim adds to the claims of an instance.
LEMMA LeaseShrinks ==
  ASSUME LeaseInv, NEW i \in Instances,
         \A j \in Instances : j # i => proc'[j] = proc[j],
         \A c \in ClaimsOf(i)' : c \in ClaimsOf(i),
         DOMAIN batches \subseteq DOMAIN batches',
         \A b \in DOMAIN batches : batches'[b].attempts = batches[b].attempts,
         \A b \in DOMAIN batches' : batches'[b].lease <= batches'[b].attempts,
         proc'[i].does = "deliver" /\ proc'[i].answer # NoAnswer =>
           /\ proc'[i].answer.claim \in proc'[i].claims
           /\ proc'[i].answer.told = 1 <=> proc'[i].answer.result = "sent"
  PROVE  LeaseInv'
<1>1. \A j \in Instances : \A c \in ClaimsOf(j)' : c \in ClaimsOf(j)
  <2> SUFFICES ASSUME NEW j \in Instances, NEW c \in ClaimsOf(j)' PROVE c \in ClaimsOf(j)
    OBVIOUS
  <2>1. CASE j = i
    BY <2>1
  <2>2. CASE j # i
    BY <2>2 DEF ClaimsOf
  <2> QED
    BY <2>1, <2>2
<1>2. \A j \in Instances : \A c \in ClaimsOf(j)' :
        /\ c.batch \in DOMAIN batches' /\ c.lease <= batches'[c.batch].attempts
        /\ \A k \in Instances : c \in ClaimsOf(k)' => j = k
        /\ \A d \in ClaimsOf(j)' : c.batch = d.batch => c = d
  <2> SUFFICES ASSUME NEW j \in Instances, NEW c \in ClaimsOf(j)'
               PROVE  /\ c.batch \in DOMAIN batches' /\ c.lease <= batches'[c.batch].attempts
                      /\ \A k \in Instances : c \in ClaimsOf(k)' => j = k
                      /\ \A d \in ClaimsOf(j)' : c.batch = d.batch => c = d
    OBVIOUS
  <2>1. c \in ClaimsOf(j)
    BY <1>1
  <2>2. /\ c.batch \in DOMAIN batches /\ c.lease <= batches[c.batch].attempts
        /\ \A k \in Instances : c \in ClaimsOf(k) => j = k
        /\ \A d \in ClaimsOf(j) : c.batch = d.batch => c = d
    BY <2>1 DEF LeaseInv
  <2> QED
    BY <1>1, <2>2
<1>3. \A j \in Instances :
        proc'[j].does = "deliver" /\ proc'[j].answer # NoAnswer =>
          /\ proc'[j].answer.claim \in proc'[j].claims
          /\ proc'[j].answer.told = 1 <=> proc'[j].answer.result = "sent"
  <2> SUFFICES ASSUME NEW j \in Instances, proc'[j].does = "deliver", proc'[j].answer # NoAnswer
               PROVE  /\ proc'[j].answer.claim \in proc'[j].claims
                      /\ proc'[j].answer.told = 1 <=> proc'[j].answer.result = "sent"
    OBVIOUS
  <2>1. CASE j = i
    BY <2>1
  <2>2. CASE j # i
    <3>1. proc'[j] = proc[j]
      BY <2>2
    <3> QED
      BY <3>1 DEF LeaseInv
  <2> QED
    BY <2>1, <2>2
<1> QED
  BY <1>2, <1>3 DEF LeaseInv

LEMMA BatchNumbers ==
  ASSUME BatchesType, NEW b \in DOMAIN batches
  PROVE  /\ batches[b].attempts \in Nat /\ batches[b].lease \in Nat
         /\ batches[b].extra \in Int /\ batches[b].due \in BOOLEAN
  BY DEF BatchesType, BatchType

LEMMA ClaimNumbers ==
  ASSUME TypeOK, NEW i \in Instances, NEW c \in ClaimsOf(i)
  PROVE  c.lease \in Nat \ {0}
  BY ProcForms DEF ClaimsOf, DeliverType, ClaimType

LEMMA LeaseOnClaim ==
  ASSUME TypeOK, LeaseInv, NEW i \in Instances, Claim(i)
  PROVE  LeaseInv'
<1>1. /\ DOMAIN batches' = DOMAIN batches
      /\ \A b \in DOMAIN batches :
           IF Claimable(b)
           THEN /\ batches'[b].attempts = batches[b].attempts + 1
                /\ batches'[b].lease = batches[b].attempts + 1
           ELSE batches'[b] = batches[b]
      /\ proc[i].does = "nothing"
      /\ proc'[i].does = "deliver" /\ proc'[i].answer = NoAnswer
      /\ \A c : c \in proc'[i].claims <=>
           \E b \in DOMAIN batches :
             Claimable(b) /\ c = [batch |-> b, lease |-> batches[b].attempts + 1]
      /\ \A j \in Instances : j # i => proc'[j] = proc[j]
  BY ClaimStep
<1>2. BatchesType
  BY DEF TypeOK
<1>3. \A b \in DOMAIN batches : batches'[b].lease <= batches'[b].attempts
                                /\ batches[b].attempts <= batches'[b].attempts
  BY <1>1, <1>2, BatchNumbers DEF LeaseInv
<1>4. \A j \in Instances : j # i => ClaimsOf(j)' = ClaimsOf(j)
  BY <1>1 DEF ClaimsOf
<1>5. \A c \in ClaimsOf(i)' :
        \E b \in DOMAIN batches :
          /\ c.batch = b /\ c.lease = batches[b].attempts + 1
          /\ c = [batch |-> b, lease |-> batches[b].attempts + 1]
          /\ batches'[b].attempts = batches[b].attempts + 1
  BY <1>1 DEF ClaimsOf
<1>6. \A j \in Instances : \A c : j # i /\ c \in ClaimsOf(j)' => c \notin ClaimsOf(i)'
  <2> SUFFICES ASSUME NEW j \in Instances, NEW c, j # i, c \in ClaimsOf(j)', c \in ClaimsOf(i)'
               PROVE  FALSE
    OBVIOUS
  <2>1. c.batch \in DOMAIN batches /\ c.lease <= batches[c.batch].attempts
    BY <1>4 DEF LeaseInv
  <2>2. c.lease = batches[c.batch].attempts + 1
    BY <1>5
  <2> QED
    BY <1>2, <2>1, <2>2, BatchNumbers
<1>7. ASSUME NEW j \in Instances, NEW c \in ClaimsOf(j)'
      PROVE  /\ c.batch \in DOMAIN batches' /\ c.lease <= batches'[c.batch].attempts
             /\ \A k \in Instances : c \in ClaimsOf(k)' => j = k
             /\ \A d \in ClaimsOf(j)' : c.batch = d.batch => c = d
  <2>1. CASE j = i
    <3>1. c.batch \in DOMAIN batches' /\ c.lease <= batches'[c.batch].attempts
      BY <1>1, <1>2, <1>5, <2>1, BatchNumbers
    <3>2. \A d \in ClaimsOf(j)' : c.batch = d.batch => c = d
      BY <1>5, <2>1
    <3>3. \A k \in Instances : c \in ClaimsOf(k)' => j = k
      BY <1>6, <2>1
    <3> QED
      BY <3>1, <3>2, <3>3
  <2>2. CASE j # i
    <3>1. c \in ClaimsOf(j)
      BY <1>4, <2>2
    <3>2. /\ c.batch \in DOMAIN batches /\ c.lease <= batches[c.batch].attempts
          /\ \A k \in Instances : c \in ClaimsOf(k) => j = k
          /\ \A d \in ClaimsOf(j) : c.batch = d.batch => c = d
      BY <3>1 DEF LeaseInv
    <3>3. c.lease <= batches'[c.batch].attempts
      <4>1. /\ c.lease \in Nat /\ batches[c.batch].attempts \in Nat
            /\ batches'[c.batch].attempts \in Nat
        BY <1>1, <1>2, <3>1, <3>2, BatchNumbers, ClaimNumbers
      <4> QED
        BY <1>3, <3>2, <4>1
    <3>4. \A k \in Instances : c \in ClaimsOf(k)' => j = k
      BY <1>4, <1>6, <2>2, <3>2
    <3> QED
      BY <1>1, <1>4, <2>2, <3>2, <3>3, <3>4
  <2> QED
    BY <2>1, <2>2
<1>8. \A j \in Instances :
        proc'[j].does = "deliver" /\ proc'[j].answer # NoAnswer =>
          /\ proc'[j].answer.claim \in proc'[j].claims
          /\ proc'[j].answer.told = 1 <=> proc'[j].answer.result = "sent"
  <2> SUFFICES ASSUME NEW j \in Instances, proc'[j].does = "deliver", proc'[j].answer # NoAnswer
               PROVE  /\ proc'[j].answer.claim \in proc'[j].claims
                      /\ proc'[j].answer.told = 1 <=> proc'[j].answer.result = "sent"
    OBVIOUS
  <2>1. proc'[j] = proc[j]
    BY <1>1
  <2> QED
    BY <2>1 DEF LeaseInv
<1> QED
  BY <1>1, <1>3, <1>7, <1>8 DEF LeaseInv


LEMMA LeaseKept ==
  ASSUME TypeOK, LeaseInv, [Next]_vars
  PROVE  TypeOK' /\ LeaseInv'
<1>1. BatchesType /\ \A b \in DOMAIN batches : batches[b].lease <= batches[b].attempts
  BY DEF TypeOK, LeaseInv
<1>2. CASE UNCHANGED vars
  <2>1. TypeOK'
    BY <1>2, SameStore, SameBatches DEF TypeOK, vars
  <2>2. LeaseInv'
    BY <1>2 DEF LeaseInv, vars, ClaimsOf
  <2> QED
    BY <2>1, <2>2
<1>3. ASSUME NEW s \in Settings, SaveSettings(s) PROVE TypeOK' /\ LeaseInv'
  BY <1>3, SaveStep DEF LeaseInv, ClaimsOf
<1>4. ASSUME NEW i \in Instances, BeginCollection(i) PROVE TypeOK' /\ LeaseInv'
  <2>1. /\ TypeOK' /\ batches' = batches
        /\ proc'[i].does = "collect"
        /\ \A j \in Instances : j # i => proc'[j] = proc[j]
    BY <1>4, BeginStep
  <2>2. ClaimsOf(i)' = {}
    BY <2>1 DEF ClaimsOf
  <2>3. proc'[i].does # "deliver"
    BY <2>1
  <2> QED
    BY <1>1, <2>1, <2>2, <2>3, LeaseShrinks
<1>5. ASSUME NEW i \in Instances, Finish(i) PROVE TypeOK' /\ LeaseInv'
  <2>1. PICK results \in Results, delay \in 0..1 : FinishCollection(i, results, delay)
    BY <1>5 DEF Finish
  <2> DEFINE events == NewEvents(proc[i].settings, results,
                         Evaluated(proc[i].settings, results, clock', proc[i].start), proc[i].start)
  <2>2. /\ TypeOK'
        /\ proc'[i] = Idle
        /\ \A j \in Instances : j # i => proc'[j] = proc[j]
        /\ events \subseteq EventType
        /\ AddBatch(events) \/ UNCHANGED batches
    BY <2>1, FinishStep
  <2> HIDE DEF events
  <2>3. ClaimsOf(i)' = {} /\ proc'[i].does # "deliver"
    BY <2>2 DEF ClaimsOf, Idle
  <2>4. /\ DOMAIN batches \subseteq DOMAIN batches'
        /\ \A b \in DOMAIN batches : batches'[b] = batches[b]
        /\ \A b \in DOMAIN batches' \ DOMAIN batches : batches'[b] = NewBatch
    BY <1>1, <2>2, AddBatchStep
  <2>5. \A b \in DOMAIN batches' : batches'[b].lease <= batches'[b].attempts
    <3>1. NewBatch.lease <= NewBatch.attempts
      BY DEF NewBatch
    <3> QED
      BY <1>1, <2>4, <3>1
  <2> QED
    BY <2>2, <2>3, <2>4, <2>5, LeaseShrinks
<1>6. ASSUME NEW i \in Instances, LoseConnection(i) PROVE TypeOK' /\ LeaseInv'
  BY <1>6, LoseStep DEF LeaseInv, ClaimsOf
<1>7. ASSUME NEW i \in Instances, Claim(i) PROVE TypeOK' /\ LeaseInv'
  BY <1>7, LeaseOnClaim, ClaimStep
<1>8. ASSUME NEW i \in Instances, SendNext(i) PROVE TypeOK' /\ LeaseInv'
  <2>1. PICK outcome \in Outcomes : Send(i, outcome)
    BY <1>8 DEF SendNext
  <2>2. /\ TypeOK'
        /\ proc[i].does = "deliver"
        /\ proc'[i].does = "deliver" /\ proc'[i].claims = proc[i].claims
        /\ proc'[i].answer.told = 1 <=> proc'[i].answer.result = "sent"
        /\ proc'[i].answer.claim \in proc[i].claims
        /\ DOMAIN batches' = DOMAIN batches
        /\ \A b \in DOMAIN batches :
             batches'[b].attempts = batches[b].attempts /\ batches'[b].lease = batches[b].lease
        /\ \A j \in Instances : j # i => proc'[j] = proc[j]
    BY <2>1, SendStep
  <2>3. ClaimsOf(i)' = ClaimsOf(i)
    BY <2>2 DEF ClaimsOf
  <2>4. \A b \in DOMAIN batches' : batches'[b].lease <= batches'[b].attempts
    BY <1>1, <2>2
  <2> QED
    BY <2>2, <2>3, <2>4, LeaseShrinks
<1>9. ASSUME NEW i \in Instances, Resolve(i) PROVE TypeOK' /\ LeaseInv'
  <2> DEFINE c == proc[i].answer.claim
             held == batches[c.batch].lease = c.lease /\ batches[c.batch].status = "pending"
  <2>1. /\ TypeOK'
        /\ proc[i].does = "deliver"
        /\ DOMAIN batches' = DOMAIN batches
        /\ \A d \in DOMAIN batches : d # c.batch \/ ~held => batches'[d] = batches[d]
        /\ held => batches'[c.batch].lease = 0
                   /\ batches'[c.batch].attempts = batches[c.batch].attempts
        /\ \/ /\ proc'[i].does = "deliver" /\ proc'[i].answer = NoAnswer
              /\ proc'[i].claims = proc[i].claims \ {c}
           \/ proc'[i].does = "nothing"
        /\ \A j \in Instances : j # i => proc'[j] = proc[j]
    BY <1>9, ResolveStep
  <2> HIDE DEF c, held
  <2>2. \A d \in ClaimsOf(i)' : d \in ClaimsOf(i)
    BY <2>1 DEF ClaimsOf
  <2>3. ~(proc'[i].does = "deliver" /\ proc'[i].answer # NoAnswer)
    BY <2>1
  <2>4. \A b \in DOMAIN batches : batches'[b].attempts = batches[b].attempts
    BY <2>1
  <2>5. \A b \in DOMAIN batches' : batches'[b].lease <= batches'[b].attempts
    <3> SUFFICES ASSUME NEW b \in DOMAIN batches' PROVE batches'[b].lease <= batches'[b].attempts
      OBVIOUS
    <3>1. b \in DOMAIN batches /\ batches[b].attempts \in Nat
      BY <1>1, <2>1, BatchNumbers
    <3>2. CASE held /\ b = c.batch
      BY <2>1, <3>1, <3>2
    <3>3. CASE b # c.batch \/ ~held
      BY <1>1, <2>1, <3>1, <3>3
    <3> QED
      BY <3>2, <3>3
  <2> QED
    BY <2>1, <2>2, <2>3, <2>4, <2>5, LeaseShrinks
<1>10. ASSUME NEW i \in Instances, Crash(i) PROVE TypeOK' /\ LeaseInv'
  <2>1. /\ TypeOK'
        /\ DOMAIN batches' = DOMAIN batches
        /\ \A b \in DOMAIN batches :
             batches'[b].attempts = batches[b].attempts /\ batches'[b].lease = batches[b].lease
        /\ proc'[i] = Idle
        /\ \A j \in Instances : j # i => proc'[j] = proc[j]
    BY <1>10, CrashStep
  <2>2. ClaimsOf(i)' = {} /\ proc'[i].does # "deliver"
    BY <2>1 DEF ClaimsOf, Idle
  <2>3. \A b \in DOMAIN batches' : batches'[b].lease <= batches'[b].attempts
    BY <1>1, <2>1
  <2> QED
    BY <2>1, <2>2, <2>3, LeaseShrinks
<1>11. ASSUME NEW b \in DOMAIN batches, ComeDue(b) PROVE TypeOK' /\ LeaseInv'
  <2>1. /\ TypeOK' /\ proc' = proc
        /\ DOMAIN batches' = DOMAIN batches
        /\ \A d \in DOMAIN batches :
             batches'[d].attempts = batches[d].attempts /\ batches'[d].lease = batches[d].lease
    BY <1>11, ComeDueStep
  <2>2. LeaseInv'
    BY <2>1 DEF LeaseInv, ClaimsOf
  <2> QED
    BY <2>1, <2>2
<1> QED
  BY <1>2, <1>3, <1>4, <1>5, <1>6, <1>7, <1>8, <1>9, <1>10, <1>11 DEF Next

LEMMA InitLeases == Init => LeaseInv
  BY DEF Init, LeaseInv, ClaimsOf, Idle


-----------------------------------------------------------------------------
(* What is sent without need.                                              *)

\* Only what instance i may send or holds has changed.
LEMMA OthersOpen ==
  ASSUME TypeOK, NEW i \in Instances, \A j \in Instances : j # i => proc'[j] = proc[j], NEW b
  PROVE  /\ \A j \in Instances : j # i => (OpenBy(j, b)' <=> OpenBy(j, b))
         /\ batches'[b].lease = batches[b].lease =>
              \A j \in Instances : j # i => (HandOf(j, b)' <=> HandOf(j, b))
  BY DEF OpenBy, HandOf, ClaimsOf, Answered, Told

LEMMA OpenCounts ==
  ASSUME TypeOK, NEW i \in Instances, \A j \in Instances : j # i => proc'[j] = proc[j], NEW b
  PROVE  /\ IsFiniteSet(Open(b)) /\ Cardinality(Open(b)) \in Nat
         /\ Cardinality(Open(b)') \in Nat
         /\ OpenBy(i, b)' <=> OpenBy(i, b) => Cardinality(Open(b)') = Cardinality(Open(b))
         /\ OpenBy(i, b)' /\ ~OpenBy(i, b) => Cardinality(Open(b)') = Cardinality(Open(b)) + 1
         /\ ~OpenBy(i, b)' /\ OpenBy(i, b) => Cardinality(Open(b)') = Cardinality(Open(b)) - 1
<1>1. \A j \in Instances : j # i => (OpenBy(j, b)' <=> OpenBy(j, b))
  BY OthersOpen
<1>2. IsFiniteSet(Open(b)) /\ IsFiniteSet(Open(b)')
  <2>1. Open(b) \subseteq Instances /\ Open(b)' \subseteq Instances
    BY DEF Open
  <2> QED
    BY <2>1, FS_Subset, QuotaAlertAssumption
<1>3. Cardinality(Open(b)) \in Nat /\ Cardinality(Open(b)') \in Nat
  BY <1>2, FS_CardinalityType
<1>4. OpenBy(i, b)' <=> OpenBy(i, b) => Open(b)' = Open(b)
  BY <1>1 DEF Open
<1>5. ASSUME OpenBy(i, b)', ~OpenBy(i, b)
      PROVE  Cardinality(Open(b)') = Cardinality(Open(b)) + 1
  <2>1. Open(b)' = Open(b) \cup {i} /\ i \notin Open(b)
    BY <1>1, <1>5 DEF Open
  <2> QED
    BY <1>2, <2>1, FS_AddElement
<1>6. ASSUME ~OpenBy(i, b)', OpenBy(i, b)
      PROVE  Cardinality(Open(b)') = Cardinality(Open(b)) - 1
  <2>1. Open(b)' = Open(b) \ {i} /\ i \in Open(b)
    BY <1>1, <1>6 DEF Open
  <2> QED
    BY <1>2, <2>1, FS_RemoveElement
<1> QED
  BY <1>2, <1>3, <1>4, <1>5, <1>6

\* A batch whose fields are as before, but for what was sent without need, stays in
\* balance if instance i pays for what it gives back.
LEMMA Balance ==
  ASSUME TypeOK, NEW i \in Instances, \A j \in Instances : j # i => proc'[j] = proc[j],
         NEW b \in DOMAIN batches, batches[b].extra + Chances(b) <= 1,
         batches'[b].status = batches[b].status, batches'[b].due = batches[b].due,
         batches'[b].lease = batches[b].lease,
         ~OpenBy(i, b)',
         NEW back \in {0, 1}, batches'[b].extra = batches[b].extra - back,
         HandOf(i, b) /\ ~OpenBy(i, b) => back = 1 \/ HandOf(i, b)'
  PROVE  batches'[b].extra + Chances(b)' <= 1
<1>1. batches[b].extra \in Int
  BY BatchNumbers DEF TypeOK
<1>2. /\ Cardinality(Open(b)) \in Nat /\ Cardinality(Open(b)') \in Nat
      /\ OpenBy(i, b)' <=> OpenBy(i, b) => Cardinality(Open(b)') = Cardinality(Open(b))
      /\ ~OpenBy(i, b)' /\ OpenBy(i, b) => Cardinality(Open(b)') = Cardinality(Open(b)) - 1
  BY OpenCounts
<1> DEFINE n == Cardinality(Open(b))
           m == Cardinality(Open(b)')
           w == IF Waiting(b) THEN 1 ELSE 0
           v == IF Waiting(b)' THEN 1 ELSE 0
<1>3. batches[b].extra + (n + w) <= 1
  BY DEF Chances
<1>4. Chances(b)' = m + v
  BY DEF Chances
<1>5. w \in {0, 1} /\ v \in {0, 1}
  OBVIOUS
<1>6. CASE OpenBy(i, b)
  <2>1. m = n - 1
    BY <1>2, <1>6
  <2> HIDE DEF n, m, w, v
  <2> QED
    BY <1>1, <1>2, <1>3, <1>4, <1>5, <2>1 DEF n, m
<1>7. CASE ~OpenBy(i, b) /\ back = 1
  <2>1. m = n
    BY <1>2, <1>7
  <2> HIDE DEF n, m, w, v
  <2> QED
    BY <1>1, <1>2, <1>3, <1>4, <1>5, <1>7, <2>1 DEF n, m
<1>8. CASE ~OpenBy(i, b) /\ back = 0
  <2>1. m = n
    BY <1>2, <1>8
  <2>2. InHand(b) => InHand(b)'
    BY <1>8, OthersOpen DEF InHand
  <2>3. Waiting(b)' => Waiting(b)
    BY <2>2 DEF Waiting
  <2>4. v <= w
    BY <2>3
  <2> HIDE DEF n, m, w, v
  <2> QED
    BY <1>1, <1>2, <1>3, <1>4, <1>5, <1>8, <2>1, <2>4 DEF n, m
<1> QED
  BY <1>6, <1>7, <1>8

\* The same, for an instance that has no part in the batch, or keeps it.
LEMMA Untouched ==
  ASSUME TypeOK, NEW i \in Instances, \A j \in Instances : j # i => proc'[j] = proc[j],
         NEW b \in DOMAIN batches, batches[b].extra + Chances(b) <= 1,
         batches'[b].status = batches[b].status, batches'[b].due = batches[b].due,
         batches'[b].lease = batches[b].lease, batches'[b].extra = batches[b].extra,
         OpenBy(i, b)' <=> OpenBy(i, b), HandOf(i, b)' <=> HandOf(i, b)
  PROVE  batches'[b].extra + Chances(b)' <= 1
<1>1. Cardinality(Open(b)') = Cardinality(Open(b))
  BY OpenCounts
<1>2. InHand(b) <=> InHand(b)'
  BY OthersOpen DEF InHand
<1>3. Waiting(b)' <=> Waiting(b)
  BY <1>2 DEF Waiting
<1> QED
  BY <1>1, <1>3 DEF Chances

\* An instance that does not deliver has no part in any batch.
LEMMA NoPart ==
  ASSUME NEW i, NEW b, proc[i].does # "deliver"
  PROVE  ~OpenBy(i, b) /\ ~HandOf(i, b)
  BY DEF OpenBy, HandOf, ClaimsOf
LEMMA NoPartNext ==
  ASSUME NEW i, NEW b, proc'[i].does # "deliver"
  PROVE  ~OpenBy(i, b)' /\ ~HandOf(i, b)'
  BY DEF OpenBy, HandOf, ClaimsOf


LEMMA SentOnClaim ==
  ASSUME TypeOK, LeaseInv, SentInv, NEW i \in Instances, Claim(i)
  PROVE  SentInv'
<1>1. /\ TypeOK'
      /\ DOMAIN batches' = DOMAIN batches
      /\ \A b \in DOMAIN batches :
           IF Claimable(b)
           THEN /\ batches'[b].status = "pending" /\ ~batches'[b].due
                /\ batches'[b].extra = batches[b].extra
                /\ batches'[b].lease = batches[b].attempts + 1
           ELSE batches'[b] = batches[b]
      /\ proc[i].does = "nothing"
      /\ proc'[i].does = "deliver" /\ proc'[i].answer = NoAnswer
      /\ \A c : c \in proc'[i].claims <=>
           \E b \in DOMAIN batches :
             Claimable(b) /\ c = [batch |-> b, lease |-> batches[b].attempts + 1]
      /\ \A j \in Instances : j # i => proc'[j] = proc[j]
  BY ClaimStep
<1> SUFFICES ASSUME NEW b \in DOMAIN batches PROVE batches'[b].extra + Chances(b)' <= 1
  BY <1>1 DEF SentInv
<1>2. batches[b].extra + Chances(b) <= 1 /\ batches[b].extra \in Int
  BY BatchNumbers DEF SentInv, TypeOK
<1>3. ~OpenBy(i, b) /\ ~HandOf(i, b)
  BY <1>1, NoPart
<1>4. CASE ~Claimable(b)
  <2>1. \A c \in proc'[i].claims : c.batch # b
    BY <1>1, <1>4
  <2>2. ~OpenBy(i, b)' /\ ~HandOf(i, b)'
    BY <2>1 DEF OpenBy, HandOf, ClaimsOf
  <2>3. batches'[b] = batches[b]
    BY <1>1, <1>4
  <2> QED
    BY <1>1, <1>2, <1>3, <2>2, <2>3, Untouched
<1>5. CASE Claimable(b)
  <2>0. PICK c : c = [batch |-> b, lease |-> batches[b].attempts + 1]
    OBVIOUS
  <2>1. c \in proc'[i].claims /\ c.batch = b /\ c.lease = batches'[b].lease
    BY <1>1, <1>5, <2>0
  <2>2. ~Answered(i, c)'
    BY <1>1 DEF Answered
  <2>3. OpenBy(i, b)' /\ HandOf(i, b)'
    <3>1. c \in ClaimsOf(i)'
      BY <1>1, <2>1 DEF ClaimsOf
    <3>2. OpenBy(i, b)'
      BY <2>1, <2>2, <3>1 DEF OpenBy
    <3>3. HandOf(i, b)'
      BY <2>1, <2>2, <3>1 DEF HandOf
    <3> QED
      BY <3>2, <3>3
  <2>4. Cardinality(Open(b)') = Cardinality(Open(b)) + 1 /\ Cardinality(Open(b)) \in Nat
    BY <1>1, <1>3, <2>3, OpenCounts
  <2>5. Waiting(b)
    BY <1>5 DEF Claimable, Waiting
  <2>6. ~Waiting(b)'
    BY <1>1, <1>5, <2>3 DEF Waiting, InHand
  <2>7. Chances(b) = Cardinality(Open(b)) + 1 /\ Chances(b)' = Cardinality(Open(b)')
    BY <1>1, <2>4, <2>5, <2>6 DEF Chances
  <2>8. batches'[b].extra = batches[b].extra
    BY <1>1, <1>5
  <2> QED
    BY <1>2, <2>4, <2>7, <2>8
<1> QED
  BY <1>4, <1>5

LEMMA SentOnSend ==
  ASSUME TypeOK, LeaseInv, SentInv, NEW i \in Instances, NEW outcome \in Outcomes,
         Send(i, outcome)
  PROVE  SentInv'
<1>0. PICK c, told : c = proc'[i].answer.claim /\ told = proc'[i].answer.told
  OBVIOUS
<1>1. /\ proc[i].does = "deliver" /\ proc[i].answer = NoAnswer
      /\ proc'[i].does = "deliver" /\ proc'[i].claims = proc[i].claims
      /\ proc'[i].answer # NoAnswer
      /\ told \in {0, 1} /\ c \in proc[i].claims
      /\ DOMAIN batches' = DOMAIN batches
      /\ \A b \in DOMAIN batches :
           /\ batches'[b].status = batches[b].status /\ batches'[b].due = batches[b].due
           /\ batches'[b].lease = batches[b].lease
           /\ batches'[b].extra = batches[b].extra + IF b = c.batch THEN told ELSE 0
      /\ \A j \in Instances : j # i => proc'[j] = proc[j]
  BY <1>0, SendStep
<1>2. /\ ClaimsOf(i)' = ClaimsOf(i) /\ c \in ClaimsOf(i)
      /\ \A d : ~Answered(i, d)
      /\ \A d : Answered(i, d)' <=> c = d
      /\ Told(i, c)' <=> told = 1
  <2>1. ClaimsOf(i)' = ClaimsOf(i) /\ c \in ClaimsOf(i)
    BY <1>1 DEF ClaimsOf
  <2>2. \A d : ~Answered(i, d)
    BY <1>1 DEF Answered
  <2>3. \A d : Answered(i, d)' <=> c = d
    BY <1>0, <1>1 DEF Answered
  <2>4. Told(i, c)' <=> told = 1
    BY <1>0, <2>3 DEF Told
  <2> QED
    BY <2>1, <2>2, <2>3, <2>4
<1>3. \A d \in ClaimsOf(i) : d.batch = c.batch => d = c
  BY <1>2 DEF LeaseInv
<1> SUFFICES ASSUME NEW b \in DOMAIN batches PROVE batches'[b].extra + Chances(b)' <= 1
  BY <1>1 DEF SentInv
<1>4. batches[b].extra + Chances(b) <= 1 /\ batches[b].extra \in Int
  BY BatchNumbers DEF SentInv, TypeOK
<1>5. CASE b # c.batch
  <2>1. OpenBy(i, b)' <=> OpenBy(i, b)
    BY <1>2, <1>5 DEF OpenBy
  <2>2. HandOf(i, b)' <=> HandOf(i, b)
    BY <1>1, <1>2, <1>5 DEF HandOf
  <2>3. batches'[b].extra = batches[b].extra
    BY <1>1, <1>4, <1>5
  <2> QED
    BY <1>1, <1>4, <2>1, <2>2, <2>3, Untouched
<1>6. CASE b = c.batch
  <2>1. OpenBy(i, b) /\ ~OpenBy(i, b)'
    BY <1>2, <1>3, <1>6 DEF OpenBy
  <2>2. Cardinality(Open(b)') = Cardinality(Open(b)) - 1 /\ Cardinality(Open(b)) \in Nat
        /\ Cardinality(Open(b)') \in Nat
    BY <1>1, <2>1, OpenCounts
  <2>3. batches'[b].extra = batches[b].extra + told
    BY <1>1, <1>6
  <2> DEFINE w == IF Waiting(b) THEN 1 ELSE 0
             v == IF Waiting(b)' THEN 1 ELSE 0
             n == Cardinality(Open(b))
             m == Cardinality(Open(b)')
  <2>4. v <= w + (1 - told)
    <3>1. CASE told = 0
      BY <3>1
    <3>2. CASE told = 1
      <4>1. HandOf(i, b) => HandOf(i, b)'
        <5> SUFFICES ASSUME HandOf(i, b) PROVE HandOf(i, b)'
          OBVIOUS
        <5>1. PICK d \in ClaimsOf(i) : d.batch = b /\ d.lease = batches[b].lease
          BY DEF HandOf
        <5>2. d = c
          BY <1>3, <1>6, <5>1
        <5>3. c \in ClaimsOf(i)' /\ c.lease = batches'[b].lease /\ Told(i, c)'
          BY <1>1, <1>2, <3>2, <5>1, <5>2
        <5> QED
          BY <1>6, <5>3 DEF HandOf
      <4>2. InHand(b) => InHand(b)'
        BY <1>1, <4>1, OthersOpen DEF InHand
      <4>3. Waiting(b)' => Waiting(b)
        BY <1>1, <4>2 DEF Waiting
      <4> QED
        BY <3>2, <4>3
    <3> QED
      BY <1>1, <3>1, <3>2
  <2>5. batches[b].extra + (n + w) <= 1 /\ Chances(b)' = m + v
    BY <1>4 DEF Chances
  <2>6. w \in Int /\ v \in Int /\ told \in Int
    BY <1>1
  <2> HIDE DEF n, m, w, v
  <2> QED
    BY <1>4, <2>2, <2>3, <2>4, <2>5, <2>6 DEF n, m
<1> QED
  BY <1>5, <1>6

LEMMA SentOnCrash ==
  ASSUME TypeOK, LeaseInv, SentInv, NEW i \in Instances, Crash(i)
  PROVE  SentInv'
<1> DEFINE Lost(b) == /\ proc[i].does = "deliver" /\ proc[i].answer # NoAnswer
                      /\ proc[i].answer.claim.batch = b /\ proc[i].answer.told = 1
<1>1. /\ DOMAIN batches' = DOMAIN batches
      /\ \A b \in DOMAIN batches :
           /\ batches'[b].status = batches[b].status /\ batches'[b].due = batches[b].due
           /\ batches'[b].lease = batches[b].lease
           /\ batches'[b].extra = batches[b].extra - IF Lost(b) THEN 1 ELSE 0
      /\ proc'[i] = Idle
      /\ \A j \in Instances : j # i => proc'[j] = proc[j]
  BY CrashStep
<1> SUFFICES ASSUME NEW b \in DOMAIN batches PROVE batches'[b].extra + Chances(b)' <= 1
  BY <1>1 DEF SentInv
<1> DEFINE back == IF Lost(b) THEN 1 ELSE 0
<1>2. batches[b].extra + Chances(b) <= 1
  BY DEF SentInv
<1>3. ~OpenBy(i, b)'
  BY <1>1, NoPartNext DEF Idle
<1>4. HandOf(i, b) /\ ~OpenBy(i, b) => Lost(b)
  BY DEF HandOf, OpenBy, ClaimsOf, Told, Answered
<1>5. HandOf(i, b) /\ ~OpenBy(i, b) => back = 1
  BY <1>4
<1>6. back \in {0, 1}
  OBVIOUS
<1>7. batches'[b].extra = batches[b].extra - back
  BY <1>1
<1> HIDE DEF back, Lost
<1> QED
  BY <1>1, <1>2, <1>3, <1>5, <1>6, <1>7, Balance

LEMMA SentOnResolve ==
  ASSUME TypeOK, LeaseInv, SentInv, NEW i \in Instances, Resolve(i)
  PROVE  SentInv'
<1> DEFINE c == proc[i].answer.claim
           held == batches[c.batch].lease = c.lease /\ batches[c.batch].status = "pending"
<1>1. /\ proc[i].does = "deliver" /\ proc[i].answer # NoAnswer
      /\ c.batch \in DOMAIN batches /\ c \in proc[i].claims
      /\ DOMAIN batches' = DOMAIN batches
      /\ \A d \in DOMAIN batches : d # c.batch \/ ~held => batches'[d] = batches[d]
      /\ held =>
           /\ batches'[c.batch].status = proc[i].answer.result
           /\ batches'[c.batch].lease = 0 /\ ~batches'[c.batch].due
           /\ batches'[c.batch].extra = batches[c.batch].extra
      /\ \/ /\ held
            /\ proc'[i].does = "deliver" /\ proc'[i].answer = NoAnswer
            /\ proc'[i].claims = proc[i].claims \ {c}
         \/ /\ proc'[i].does = "nothing"
            /\ held => proc[i].claims \ {c} = {}
      /\ \A j \in Instances : j # i => proc'[j] = proc[j]
  BY ResolveStep
<1>2. /\ c \in ClaimsOf(i)
      /\ \A d \in ClaimsOf(i) : Answered(i, d) <=> d = c
      /\ \A d \in ClaimsOf(i) : d.batch = c.batch => d = c
      /\ Told(i, c) <=> proc[i].answer.result = "sent"
  BY <1>1 DEF ClaimsOf, Answered, Told, LeaseInv
<1>3. held => /\ ClaimsOf(i)' = ClaimsOf(i) \ {c}
              /\ \A d \in ClaimsOf(i)' : ~Answered(i, d)'
  BY <1>1 DEF ClaimsOf, Answered
<1>4. ~held => proc'[i].does # "deliver"
  BY <1>1
<1> SUFFICES ASSUME NEW b \in DOMAIN batches PROVE batches'[b].extra + Chances(b)' <= 1
  BY <1>1 DEF SentInv
<1>5. batches[b].extra + Chances(b) <= 1 /\ batches[b].extra \in Int
  BY BatchNumbers DEF SentInv, TypeOK
<1> HIDE DEF c
<1>6. CASE held /\ b # c.batch
  <2>1. OpenBy(i, b)' <=> OpenBy(i, b)
    BY <1>2, <1>3, <1>6 DEF OpenBy
  <2>2. batches'[b] = batches[b]
    BY <1>1, <1>6
  <2>3. HandOf(i, b)' <=> HandOf(i, b)
    <3>1. \A d \in ClaimsOf(i) : d.batch = b => ~Answered(i, d) /\ d \in ClaimsOf(i)'
      BY <1>2, <1>3, <1>6
    <3>2. \A d \in ClaimsOf(i)' : d \in ClaimsOf(i) /\ ~Answered(i, d)'
      BY <1>3, <1>6
    <3> QED
      BY <2>2, <3>1, <3>2 DEF HandOf
  <2> QED
    BY <1>1, <1>5, <2>1, <2>2, <2>3, Untouched
<1>7. CASE held /\ b = c.batch
  <2>1. ~OpenBy(i, b) /\ ~OpenBy(i, b)'
    BY <1>2, <1>3, <1>7 DEF OpenBy
  <2>2. Cardinality(Open(b)') = Cardinality(Open(b)) /\ Cardinality(Open(b)) \in Nat
    BY <1>1, <2>1, OpenCounts
  <2>3. batches'[b].extra = batches[b].extra
    BY <1>1, <1>7
  <2>4. Waiting(b)' => Waiting(b)
    <3> SUFFICES ASSUME Waiting(b)' PROVE Waiting(b)
      OBVIOUS
    <3>1. batches'[b].status = "pending"
      BY DEF Waiting
    <3>2. ~Told(i, c)
      BY <1>1, <1>2, <1>7, <3>1
    <3>3. ~HandOf(i, b)
      BY <1>2, <1>7, <3>2 DEF HandOf
    <3>4. ASSUME NEW j \in Instances, j # i, HandOf(j, b) PROVE FALSE
      <4>1. PICK d \in ClaimsOf(j) : d.batch = b /\ d.lease = batches[b].lease
        BY <3>4 DEF HandOf
      <4>2. d \in ClaimType /\ c \in ClaimType
        BY <1>2, ProcForms DEF ClaimsOf, DeliverType
      <4>3. d = c
        BY <1>7, <4>1, <4>2 DEF ClaimType
      <4> QED
        BY <1>2, <3>4, <4>1, <4>3 DEF LeaseInv
    <3>5. ~InHand(b)
      BY <3>3, <3>4 DEF InHand
    <3> QED
      BY <1>7, <3>5 DEF Waiting
  <2>5. Chances(b)' <= Chances(b) /\ Chances(b) \in Int /\ Chances(b)' \in Int
    BY <2>2, <2>4 DEF Chances
  <2> QED
    BY <1>5, <2>3, <2>5
<1>8. CASE ~held
  <2>1. batches'[b] = batches[b]
    BY <1>1, <1>8
  <2>2. ~OpenBy(i, b)' /\ ~HandOf(i, b)'
    BY <1>4, <1>8, NoPartNext
  <2>3. CASE OpenBy(i, b) \/ ~HandOf(i, b)
    <3>1. batches'[b].extra = batches[b].extra - 0
      BY <1>5, <2>1
    <3>2. /\ batches'[b].status = batches[b].status /\ batches'[b].due = batches[b].due
          /\ batches'[b].lease = batches[b].lease
          /\ 0 \in {0, 1}
          /\ ~(HandOf(i, b) /\ ~OpenBy(i, b))
      BY <2>1, <2>3
    <3>3. batches[b].extra + Chances(b) <= 1
      BY <1>5
    <3> QED
      BY <1>1, <2>2, <3>1, <3>2, <3>3, Balance
  <2>4. CASE ~OpenBy(i, b) /\ HandOf(i, b)
    <3>1. b = c.batch /\ batches[b].lease = c.lease
      BY <1>2, <2>4 DEF HandOf, OpenBy
    <3>2. batches[b].status # "pending"
      BY <1>8, <3>1
    <3>3. ~Waiting(b) /\ ~Waiting(b)'
      BY <2>1, <3>2 DEF Waiting
    <3>4. Cardinality(Open(b)') = Cardinality(Open(b))
      BY <1>1, <2>2, <2>4, OpenCounts
    <3> QED
      BY <1>5, <2>1, <3>3, <3>4 DEF Chances
  <2> QED
    BY <2>3, <2>4
<1> QED
  BY <1>6, <1>7, <1>8


LEMMA SentOnComeDue ==
  ASSUME TypeOK, LeaseInv, SentInv, NEW b \in DOMAIN batches, ComeDue(b)
  PROVE  SentInv'
<1>1. /\ UNCHANGED proc
      /\ DOMAIN batches' = DOMAIN batches
      /\ \A d \in DOMAIN batches : d # b => batches'[d] = batches[d]
      /\ batches[b].status = "pending" /\ ~batches[b].due
      /\ batches'[b].status = batches[b].status
      /\ batches'[b].extra = batches[b].extra - IF Working(b) THEN 1 ELSE 0
  BY ComeDueStep
<1> SUFFICES ASSUME NEW d \in DOMAIN batches PROVE batches'[d].extra + Chances(d)' <= 1
  BY <1>1 DEF SentInv
<1>2. batches[d].extra + Chances(d) <= 1 /\ batches[d].extra \in Int
  BY BatchNumbers DEF SentInv, TypeOK
<1>3. Open(d)' = Open(d)
  BY <1>1 DEF Open, OpenBy, ClaimsOf, Answered
<1>4. Cardinality(Open(d)) \in Nat
  <2>1. Open(d) \subseteq Instances
    BY DEF Open
  <2> QED
    BY <2>1, FS_Subset, FS_CardinalityType, QuotaAlertAssumption
<1>5. CASE d # b
  <2>1. batches'[d] = batches[d]
    BY <1>1, <1>5
  <2>2. \A i \in Instances : HandOf(i, d)' <=> HandOf(i, d)
    BY <1>1, <2>1 DEF HandOf, ClaimsOf, Answered, Told
  <2>3. InHand(d)' <=> InHand(d)
    BY <2>2 DEF InHand
  <2>4. Waiting(d)' <=> Waiting(d)
    BY <2>1, <2>3 DEF Waiting
  <2> QED
    BY <1>2, <1>3, <2>1, <2>4 DEF Chances
<1>6. CASE d = b
  <2>1. Chances(d)' <= Cardinality(Open(d)) + 1 /\ Chances(d)' \in Int
    BY <1>3, <1>4 DEF Chances
  <2>2. CASE Waiting(d)
    <3>1. Chances(d) = Cardinality(Open(d)) + 1
      BY <2>2 DEF Chances
    <3>2. batches'[d].extra <= batches[d].extra /\ batches'[d].extra \in Int
      BY <1>1, <1>2, <1>6
    <3> HIDE DEF Chances
    <3> QED
      BY <1>2, <1>4, <2>1, <3>1, <3>2
  <2>3. CASE ~Waiting(d)
    <3>1. Chances(d) = Cardinality(Open(d))
      BY <1>4, <2>3 DEF Chances
    <3>2. InHand(d)
      BY <1>1, <1>6, <2>3 DEF Waiting
    <3>3. PICK i \in Instances : HandOf(i, d)
      BY <3>2 DEF InHand
    <3>4. PICK c \in ClaimsOf(i) : c.batch = d /\ c.lease = batches[d].lease
      BY <3>3 DEF HandOf
    <3>5. c \in ClaimType
      BY <3>4, ProcForms DEF ClaimsOf, DeliverType
    <3>6. c = [batch |-> d, lease |-> batches[d].lease]
      BY <3>4, <3>5 DEF ClaimType
    <3>7. proc[i].does = "deliver" /\ c \in proc[i].claims
      BY <3>4 DEF ClaimsOf
    <3>8. Working(d)
      BY <3>6, <3>7 DEF Working
    <3>9. batches'[d].extra = batches[d].extra - 1
      BY <1>1, <1>6, <3>8
    <3> QED
      BY <1>2, <1>4, <2>1, <3>1, <3>9
  <2> QED
    BY <2>2, <2>3
<1> QED
  BY <1>5, <1>6

\* A cycle changes no batch, and nobody has a claim on a new one.
LEMMA SentOnFinish ==
  ASSUME TypeOK, LeaseInv, SentInv, NEW i \in Instances, Finish(i)
  PROVE  SentInv'
<1>1. PICK results \in Results, delay \in 0..1 : FinishCollection(i, results, delay)
  BY DEF Finish
<1> DEFINE events == NewEvents(proc[i].settings, results,
                       Evaluated(proc[i].settings, results, clock', proc[i].start), proc[i].start)
<1>2. /\ proc[i] \in CollectType /\ proc'[i] = Idle
      /\ \A j \in Instances : j # i => proc'[j] = proc[j]
      /\ events \subseteq EventType
      /\ AddBatch(events) \/ UNCHANGED batches
  BY <1>1, FinishStep
<1> HIDE DEF events
<1>3. proc[i].does # "deliver" /\ proc'[i].does # "deliver"
  BY <1>2 DEF CollectType, Idle
<1>4. /\ \A b \in DOMAIN batches : batches'[b] = batches[b]
      /\ \A b \in DOMAIN batches' \ DOMAIN batches : batches'[b] = NewBatch
  BY <1>2, AddBatchStep DEF TypeOK
<1> SUFFICES ASSUME NEW b \in DOMAIN batches' PROVE batches'[b].extra + Chances(b)' <= 1
  BY DEF SentInv
<1>5. CASE b \in DOMAIN batches
  <2>1. batches[b].extra + Chances(b) <= 1
    BY <1>5 DEF SentInv
  <2>2. batches'[b] = batches[b]
    BY <1>4, <1>5
  <2>3. ~OpenBy(i, b) /\ ~HandOf(i, b)
    BY <1>3, NoPart
  <2>4. ~OpenBy(i, b)' /\ ~HandOf(i, b)'
    BY <1>3, NoPartNext
  <2> QED
    BY <1>2, <1>5, <2>1, <2>2, <2>3, <2>4, Untouched
<1>6. CASE b \notin DOMAIN batches
  <2>1. \A j \in Instances : \A c \in ClaimsOf(j)' : c \in ClaimsOf(j)
    BY <1>2, <1>3 DEF ClaimsOf
  <2>2. \A j \in Instances : \A c \in ClaimsOf(j)' : c.batch # b
    BY <1>6, <2>1 DEF LeaseInv
  <2>3. Open(b)' = {}
    BY <2>2 DEF Open, OpenBy
  <2>4. Cardinality(Open(b)') = 0
    BY <2>3, FS_EmptySet
  <2>5. batches'[b].extra = 0
    BY <1>4, <1>6 DEF NewBatch
  <2>6. Chances(b)' <= 1 /\ Chances(b)' \in Int
    BY <2>4 DEF Chances
  <2> QED
    BY <2>5, <2>6
<1> QED
  BY <1>5, <1>6

LEMMA SentKept ==
  ASSUME TypeOK, LeaseInv, SentInv, [Next]_vars
  PROVE  SentInv'
<1>1. CASE UNCHANGED <<batches, proc>>
  BY <1>1 DEF SentInv, Chances, Open, OpenBy, Waiting, InHand, HandOf, ClaimsOf, Answered, Told
<1>2. CASE UNCHANGED vars
  BY <1>1, <1>2 DEF vars
<1>3. ASSUME NEW s \in Settings, SaveSettings(s) PROVE SentInv'
  BY <1>1, <1>3, SaveStep
<1>4. ASSUME NEW i \in Instances, BeginCollection(i) PROVE SentInv'
  <2>1. /\ batches' = batches
        /\ proc[i].does # "deliver" /\ proc'[i].does # "deliver"
        /\ \A j \in Instances : j # i => proc'[j] = proc[j]
    BY <1>4, BeginStep
  <2> SUFFICES ASSUME NEW b \in DOMAIN batches PROVE batches'[b].extra + Chances(b)' <= 1
    BY <2>1 DEF SentInv
  <2>2. batches[b].extra + Chances(b) <= 1
    BY DEF SentInv
  <2>3. ~OpenBy(i, b) /\ ~HandOf(i, b)
    BY <2>1, NoPart
  <2>4. ~OpenBy(i, b)' /\ ~HandOf(i, b)'
    BY <2>1, NoPartNext
  <2> QED
    BY <2>1, <2>2, <2>3, <2>4, Untouched
<1>5. ASSUME NEW i \in Instances, LoseConnection(i) PROVE SentInv'
  BY <1>1, <1>5, LoseStep
<1>6. ASSUME NEW i \in Instances, SendNext(i) PROVE SentInv'
  BY <1>6, SentOnSend DEF SendNext
<1> QED
  BY <1>2, <1>3, <1>4, <1>5, <1>6, SentOnFinish, SentOnClaim, SentOnResolve, SentOnCrash,
     SentOnComeDue DEF Next

LEMMA InitSent == Init => SentInv
  BY DEF Init, SentInv

\* A batch is sent again only for a reason: what has been sent without need and who
\* may yet send it add up to one.
LEMMA SentWithinChances ==
  ASSUME TypeOK, SentInv
  PROVE  DuplicatesExplained
<1> SUFFICES ASSUME NEW b \in DOMAIN batches PROVE batches[b].extra <= 1
  BY DEF DuplicatesExplained
<1>1. batches[b].extra + Chances(b) <= 1 /\ batches[b].extra \in Int
  BY BatchNumbers DEF SentInv, TypeOK
<1>2. Cardinality(Open(b)) \in Nat
  <2>1. Open(b) \subseteq Instances
    BY DEF Open
  <2> QED
    BY <2>1, FS_Subset, FS_CardinalityType, QuotaAlertAssumption
<1>3. Chances(b) \in Nat
  BY <1>2 DEF Chances
<1> QED
  BY <1>1, <1>3

\* A message is delivered again only when its sender could not know that it had
\* arrived, died before it could say so, or outlived its lease, whatever instances
\* claim, send and resolve in between (ClaimNotificationBatches, ResolveNotification).
THEOREM DuplicatesHaveReasons == Spec => []DuplicatesExplained
<1> DEFINE Inv == TypeOK /\ LeaseInv /\ SentInv
<1>1. Init => Inv
  BY InitTypes, InitLeases, InitSent
<1>2. Inv /\ [Next]_vars => Inv'
  BY LeaseKept, SentKept
<1>3. Inv => DuplicatesExplained
  BY SentWithinChances
<1> QED
  BY <1>1, <1>2, <1>3, PTL DEF Spec


-----------------------------------------------------------------------------
(* The order of the cycles.                                                *)

LEMMA StoreNumbers ==
  ASSUME TypeOK
  PROVE  /\ clock \in Nat
         /\ \A w \in Windows : calm[w] \in Nat
         /\ \A a \in Auths : sound[a] \in Nat /\ failures[a] \in Nat
         /\ \A e \in Events : e \in EventType /\ e.at \in Nat
         /\ \A i \in Instances : proc[i].does = "collect" => proc[i].start \in Nat
<1>1. \A e \in Events : e \in EventType
  BY DEF TypeOK, BatchesType, Events
<1>2. \A e \in Events : e.at \in Nat
  BY <1>1 DEF EventType
<1>3. \A i \in Instances : proc[i].does = "collect" => proc[i].start \in Nat
  BY ProcForms DEF CollectType
<1> QED
  BY <1>1, <1>2, <1>3 DEF TypeOK, StoreTypes

\* A step that only changes an instance that does not collect afterwards, and
\* perhaps gives up the lock.
LEMMA CycleSame ==
  ASSUME CycleInv, NEW i \in Instances,
         \A j \in Instances : j # i => proc'[j] = proc[j],
         UNCHANGED <<clock, store>>, Events' = Events,
         lock \in Instances \cup {Nobody}, lock' # Nobody => lock' = lock /\ lock # i,
         proc'[i].does # "collect"
  PROVE  CycleInv'
<1>1. UNCHANGED <<calm, sound>>
  BY DEF store
<1>2. \A j \in Instances : proc'[j].does = "collect" => j # i /\ proc'[j] = proc[j]
  OBVIOUS
<1>3. lock' # Nobody => lock' = lock /\ lock # Nobody /\ proc'[lock'] = proc[lock]
  OBVIOUS
<1> QED
  BY <1>1, <1>2, <1>3 DEF CycleInv

LEMMA CycleOnFinish ==
  ASSUME TypeOK, CycleInv, NEW i \in Instances, Finish(i)
  PROVE  CycleInv'
<1>1. PICK results \in Results, delay \in 0..1 : FinishCollection(i, results, delay)
  BY DEF Finish
<1>2. PICK s, start, new : /\ s = proc[i].settings /\ start = proc[i].start
                           /\ new = Evaluated(s, results, clock', start)
  OBVIOUS
<1>3. PICK events : events = NewEvents(s, results, new, start)
  OBVIOUS
<1>4. /\ TypeOK'
      /\ proc[i] \in CollectType /\ proc'[i] = Idle
      /\ \A j \in Instances : j # i => proc'[j] = proc[j]
      /\ clock' \in Nat /\ clock' >= clock
      /\ lock' = IF lock = i THEN Nobody ELSE lock
      /\ s \in Settings /\ start \in Nat
      /\ events \subseteq EventType
      /\ \/ lock = i /\ Write(results, new, start) /\ AddBatch(events)
         \/ UNCHANGED <<store, batches>>
  BY <1>1, <1>2, <1>3, FinishStep
<1>5. clock \in Nat /\ start <= clock
  BY <1>2, <1>4 DEF TypeOK, CycleInv, CollectType
<1>6. /\ \A w \in Windows : calm'[w] <= clock'
      /\ \A a \in Auths : sound'[a] <= clock'
  <2>1. \A w \in Windows : calm'[w] = calm[w] \/ calm'[w] = start
    <3> SUFFICES ASSUME NEW w \in Windows PROVE calm'[w] = calm[w] \/ calm'[w] = start
      OBVIOUS
    <3>1. CASE Write(results, new, start)
      BY <3>1 DEF Write
    <3>2. CASE UNCHANGED store
      BY <3>2 DEF store
    <3> QED
      BY <1>4, <3>1, <3>2
  <2>2. \A a \in Auths : sound'[a] = sound[a] \/ sound'[a] = start
    <3> SUFFICES ASSUME NEW a \in Auths PROVE sound'[a] = sound[a] \/ sound'[a] = start
      OBVIOUS
    <3>1. CASE Write(results, new, start)
      BY <3>1 DEF Write
    <3>2. CASE UNCHANGED store
      BY <3>2 DEF store
    <3> QED
      BY <1>4, <3>1, <3>2
  <2> QED
    BY <1>4, <1>5, <2>1, <2>2, StoreNumbers DEF CycleInv
<1>7. \A e \in Events' : e.kind = "monitor_degraded" => e.at <= clock'
  <2>1. \A e \in Events : e.kind = "monitor_degraded" => e.at <= clock'
    BY <1>4, <1>5, StoreNumbers DEF CycleInv
  <2>2. \A e \in events : e.kind = "monitor_degraded" => e.at <= clock'
    <3> SUFFICES ASSUME NEW e \in events, e.kind = "monitor_degraded" PROVE e.at <= clock'
      OBVIOUS
    <3>0. e.kind = "monitor_degraded"
      OBVIOUS
    <3>1. PICK a : e = Degraded(<<a, "collection">>, start)
      <4>1. RowsType
        BY DEF TypeOK
      <4>2. e \in NewEvents(s, results, Evaluated(s, results, clock', start), start)
        BY <1>2, <1>3
      <4>3. \E a \in NewlyDegraded(s, results) : e = Degraded(<<a, "collection">>, start)
        BY <1>4, <3>0, <4>1, <4>2, NewEventsTypes
      <4> QED
        BY <4>3
    <3> QED
      BY <1>4, <1>5, <3>1 DEF Degraded
  <2>3. Events' = Events \cup events \/ Events' = Events
    BY <1>4, AddBatchStep, SameBatches DEF TypeOK
  <2> QED
    BY <2>1, <2>2, <2>3
<1>8. \A j \in Instances : proc'[j].does = "collect" => proc'[j].start <= clock'
  <2> SUFFICES ASSUME NEW j \in Instances, proc'[j].does = "collect" PROVE proc'[j].start <= clock'
    OBVIOUS
  <2>1. j # i /\ proc'[j] = proc[j]
    BY <1>4 DEF Idle
  <2> QED
    BY <1>4, <1>5, <2>1, StoreNumbers DEF CycleInv
<1>9. ASSUME lock' # Nobody
      PROVE  /\ proc'[lock'].does = "collect"
             /\ \A w \in Windows : calm'[w] < proc'[lock'].start
             /\ \A a \in Auths : sound'[a] < proc'[lock'].start
             /\ \A e \in Events' : e.kind = "monitor_degraded" => e.at < proc'[lock'].start
  <2>1. lock' = lock /\ lock # i /\ lock \in Instances /\ proc'[lock] = proc[lock]
    BY <1>4, <1>9 DEF TypeOK
  <2>2. UNCHANGED <<calm, sound>>
    BY <1>4, <2>1 DEF store
  <2>3. Events' = Events
    BY <1>4, <2>1, SameBatches DEF TypeOK
  <2> QED
    BY <1>9, <2>1, <2>2, <2>3 DEF CycleInv
<1> QED
  BY <1>6, <1>7, <1>8, <1>9 DEF CycleInv

LEMMA CycleKept ==
  ASSUME TypeOK, LeaseInv, CycleInv, [Next]_vars
  PROVE  CycleInv'
<1>1. lock \in Instances \cup {Nobody} /\ BatchesType /\ Nobody \notin Instances
  BY QuotaAlertAssumption DEF TypeOK
<1>2. CASE UNCHANGED vars
  BY <1>2 DEF CycleInv, vars, store, Events
<1>3. ASSUME NEW s \in Settings, SaveSettings(s) PROVE CycleInv'
  BY <1>3, SaveStep DEF CycleInv, store, Events
<1>4. ASSUME NEW i \in Instances, BeginCollection(i) PROVE CycleInv'
  <2>1. /\ UNCHANGED <<store, batches>>
        /\ clock' = clock + 1 /\ lock' = i
        /\ proc'[i].does = "collect" /\ proc'[i].start = clock + 1
        /\ \A j \in Instances : j # i => proc'[j] = proc[j]
    BY <1>4, BeginStep
  <2>2. UNCHANGED <<calm, sound>> /\ Events' = Events
    BY <2>1 DEF store, Events
  <2>3. /\ \A w \in Windows : calm'[w] < clock + 1 /\ calm'[w] <= clock'
        /\ \A a \in Auths : sound'[a] < clock + 1 /\ sound'[a] <= clock'
        /\ \A e \in Events' : e.kind = "monitor_degraded" => e.at < clock + 1 /\ e.at <= clock'
    BY <2>1, <2>2, StoreNumbers DEF CycleInv
  <2>4. \A j \in Instances : proc'[j].does = "collect" => proc'[j].start <= clock'
    BY <2>1, StoreNumbers DEF CycleInv
  <2> QED
    BY <2>1, <2>3, <2>4 DEF CycleInv
<1>5. ASSUME NEW i \in Instances, LoseConnection(i) PROVE CycleInv'
  BY <1>5, LoseStep DEF CycleInv, store, Events
<1>6. ASSUME NEW i \in Instances, Claim(i) PROVE CycleInv'
  <2>1. /\ UNCHANGED <<clock, store, lock>> /\ DOMAIN batches' = DOMAIN batches
        /\ proc[i].does = "nothing" /\ proc'[i].does = "deliver"
        /\ \A j \in Instances : j # i => proc'[j] = proc[j]
    BY <1>6, ClaimStep
  <2>2. lock' # Nobody => lock' = lock /\ lock # i
    BY <2>1 DEF CycleInv
  <2>3. Events' = Events
    BY <2>1 DEF Events
  <2> QED
    BY <1>1, <2>1, <2>2, <2>3, CycleSame
<1>7. ASSUME NEW i \in Instances, SendNext(i) PROVE CycleInv'
  <2>1. PICK outcome \in Outcomes : Send(i, outcome)
    BY <1>7 DEF SendNext
  <2>2. /\ UNCHANGED <<clock, store, lock>> /\ Events' = Events
        /\ proc[i].does = "deliver" /\ proc'[i].does = "deliver"
        /\ \A j \in Instances : j # i => proc'[j] = proc[j]
    BY <2>1, SendStep
  <2>3. lock' # Nobody => lock' = lock /\ lock # i
    BY <2>2 DEF CycleInv
  <2> QED
    BY <1>1, <2>2, <2>3, CycleSame
<1>8. ASSUME NEW i \in Instances, Resolve(i) PROVE CycleInv'
  <2>1. /\ UNCHANGED <<clock, store, lock>> /\ Events' = Events
        /\ proc[i].does = "deliver" /\ proc'[i].does \in {"deliver", "nothing"}
        /\ \A j \in Instances : j # i => proc'[j] = proc[j]
    BY <1>8, ResolveStep
  <2>2. lock' # Nobody => lock' = lock /\ lock # i
    BY <2>1 DEF CycleInv
  <2> QED
    BY <1>1, <2>1, <2>2, CycleSame
<1>9. ASSUME NEW i \in Instances, Crash(i) PROVE CycleInv'
  <2>1. /\ UNCHANGED <<clock, store>> /\ Events' = Events
        /\ lock' = IF lock = i THEN Nobody ELSE lock
        /\ proc'[i] = Idle
        /\ \A j \in Instances : j # i => proc'[j] = proc[j]
    BY <1>9, CrashStep
  <2>2. proc'[i].does # "collect"
    BY <2>1 DEF Idle
  <2> QED
    BY <1>1, <2>1, <2>2, CycleSame
<1>10. ASSUME NEW b \in DOMAIN batches, ComeDue(b) PROVE CycleInv'
  <2>1. UNCHANGED <<clock, store, lock, proc>> /\ Events' = Events
    BY <1>10, ComeDueStep
  <2> QED
    BY <2>1 DEF CycleInv, store
<1> QED
  BY <1>2, <1>3, <1>4, <1>5, <1>6, <1>7, <1>8, <1>9, <1>10, CycleOnFinish DEF Next

LEMMA InitCycles == Init => CycleInv
<1> SUFFICES ASSUME Init PROVE CycleInv
  OBVIOUS
<1>1. Events = {}
  BY DEF Init, Events
<1> QED
  BY <1>1 DEF Init, CycleInv, Idle


\* What the rows and the events are depends on the cycles only, each written after
\* those before it.
LEMMA Written ==
  ASSUME TypeOK, LeaseInv, CycleInv, [Next]_vars
  PROVE  \/ UNCHANGED store /\ Events' = Events
         \/ \E s \in Settings, results \in Results, start \in Nat :
              /\ clock' \in Nat /\ start <= clock'
              /\ \A w \in Windows : calm[w] < start
              /\ \A a \in Auths : sound[a] < start
              /\ \A e \in Events : e.kind = "monitor_degraded" => e.at < start
              /\ Write(results, Evaluated(s, results, clock', start), start)
              /\ Events' = Events \cup
                             NewEvents(s, results, Evaluated(s, results, clock', start), start)
<1> DEFINE Same == UNCHANGED store /\ Events' = Events
           Wrote(s, results, start) ==
             /\ clock' \in Nat /\ start <= clock'
             /\ \A w \in Windows : calm[w] < start
             /\ \A a \in Auths : sound[a] < start
             /\ \A e \in Events : e.kind = "monitor_degraded" => e.at < start
             /\ Write(results, Evaluated(s, results, clock', start), start)
             /\ Events' = Events \cup
                            NewEvents(s, results, Evaluated(s, results, clock', start), start)
           Done == Same \/ \E s \in Settings, results \in Results, start \in Nat :
                             Wrote(s, results, start)
<1>1. BatchesType
  BY DEF TypeOK
<1>2. ASSUME UNCHANGED vars PROVE Same
  BY <1>2 DEF vars, Events
<1>3. ASSUME NEW s \in Settings, SaveSettings(s) PROVE Same
  BY <1>1, <1>3, SaveStep, SameBatches
<1>4. ASSUME NEW i \in Instances, BeginCollection(i) PROVE Same
  BY <1>1, <1>4, BeginStep, SameBatches
<1>5. ASSUME NEW i \in Instances, LoseConnection(i) PROVE Same
  BY <1>1, <1>5, LoseStep, SameBatches
<1>6. ASSUME NEW i \in Instances, Claim(i) PROVE Same
  BY <1>6, ClaimStep DEF Events
<1>7. ASSUME NEW i \in Instances, SendNext(i) PROVE Same
  BY <1>7, SendStep DEF SendNext
<1>8. ASSUME NEW i \in Instances, Resolve(i) PROVE Same
  BY <1>8, ResolveStep
<1>9. ASSUME NEW i \in Instances, Crash(i) PROVE Same
  BY <1>9, CrashStep
<1>10. ASSUME NEW b \in DOMAIN batches, ComeDue(b) PROVE Same
  BY <1>10, ComeDueStep
<1>11. ASSUME NEW i \in Instances, Finish(i)
       PROVE  Done
  <2>1. PICK results \in Results, delay \in 0..1 : FinishCollection(i, results, delay)
    BY <1>11 DEF Finish
  <2>2. PICK s, start : s = proc[i].settings /\ start = proc[i].start
    OBVIOUS
  <2>3. PICK events : events = NewEvents(s, results, Evaluated(s, results, clock', start), start)
    OBVIOUS
  <2>4. /\ proc[i] \in CollectType
        /\ clock' \in Nat /\ clock' >= clock
        /\ s \in Settings /\ start \in Nat
        /\ events \subseteq EventType
        /\ \/ /\ lock = i /\ Write(results, Evaluated(s, results, clock', start), start)
              /\ AddBatch(events)
           \/ UNCHANGED <<store, batches>>
    BY <2>1, <2>2, <2>3, FinishStep
  <2>5. CASE UNCHANGED <<store, batches>>
    BY <1>1, <2>5, SameBatches
  <2>6. CASE /\ lock = i /\ Write(results, Evaluated(s, results, clock', start), start)
             /\ AddBatch(events)
    <3>1. Events' = Events \cup events
      BY <1>1, <2>4, <2>6, AddBatchStep
    <3>2. i # Nobody
      BY QuotaAlertAssumption
    <3>3. /\ \A w \in Windows : calm[w] < start
          /\ \A a \in Auths : sound[a] < start
          /\ \A e \in Events : e.kind = "monitor_degraded" => e.at < start
      BY <2>2, <2>6, <3>2 DEF CycleInv
    <3>4. start <= clock /\ clock \in Nat
      BY <2>2, <2>4 DEF CycleInv, CollectType, TypeOK
    <3>5. start <= clock'
      BY <2>4, <3>4
    <3>6. Wrote(s, results, start)
      BY <2>3, <2>4, <2>6, <3>1, <3>3, <3>5
    <3> QED
      BY <2>4, <3>6
  <2> QED
    BY <2>4, <2>5, <2>6
<1>12. Same => Done
  OBVIOUS
<1> HIDE DEF Done, Wrote, Same
<1>13. Done
  BY <1>2, <1>3, <1>4, <1>5, <1>6, <1>7, <1>8, <1>9, <1>10, <1>11, <1>12 DEF Next
<1> QED
  BY <1>13 DEF Done, Wrote, Same

-----------------------------------------------------------------------------
(* Alarms are announced.                                                   *)

LEMMA AnnouncedKept ==
  ASSUME TypeOK, TypeOK', LeaseInv, CycleInv, AlertAnnounced, [Next]_vars
  PROVE  AlertAnnounced'
<1>1. CASE UNCHANGED store /\ Events' = Events
  BY <1>1 DEF AlertAnnounced, store
<1>2. ASSUME NEW s \in Settings, NEW results \in Results, NEW start \in Nat,
             clock' \in Nat, start <= clock',
             \A w \in Windows : calm[w] < start,
             Write(results, Evaluated(s, results, clock', start), start),
             Events' = Events \cup
                         NewEvents(s, results, Evaluated(s, results, clock', start), start)
      PROVE  AlertAnnounced'
  <2> DEFINE Announced(w, e, alert) ==
               e.who = w /\ e.at > calm[w] /\ Rank(e.to) >= Rank(alert)
  <2> SUFFICES ASSUME NEW w \in DOMAIN rows', rows'[w].alert \in Alarms
               PROVE  \E e \in Events' : e.who = w /\ e.at > calm'[w]
                                         /\ Rank(e.to) >= Rank(rows'[w].alert)
    BY DEF AlertAnnounced
  <2>1. PICK new : new = Evaluated(s, results, clock', start)
    OBVIOUS
  <2>2. PICK events : events = NewEvents(s, results, new, start)
    OBVIOUS
  <2>3. w \in Windows /\ RowsType
    BY DEF TypeOK, RowsType
  <2>4. calm'[w] = calm[w] /\ calm[w] \in Nat
    <3>1. calm' = [v \in Windows |->
                     IF v \in DOMAIN rows' /\ rows'[v].alert \in Alarms THEN calm[v] ELSE start]
      BY <1>2 DEF Write
    <3> QED
      BY <2>3, <3>1, StoreNumbers
  <2>5. rows' = [v \in (DOMAIN rows \ Removed(results, new)) \cup DOMAIN new |->
                  IF v \in DOMAIN new THEN new[v] ELSE rows[v]]
    BY <1>2, <2>1 DEF Write
  <2>6. \A alert \in Alarms : alert = rows[w].alert /\ w \in DOMAIN rows =>
          \E e \in Events : Announced(w, e, alert)
    BY DEF AlertAnnounced
  <2>7. Events \subseteq Events' /\ events \subseteq Events'
    BY <1>2, <2>1, <2>2
  <2>8. CASE w \notin DOMAIN new
    <3>1. rows'[w] = rows[w] /\ w \in DOMAIN rows
      BY <2>5, <2>8
    <3> QED
      BY <2>4, <2>6, <2>7, <3>1
  <2>9. CASE w \in DOMAIN new
    <3>1. rows'[w] = new[w]
      BY <2>5, <2>9
    <3>2. \/ Row(w).alert \in Alarms /\ Rank(Row(w).alert) >= Rank(new[w].alert)
          \/ \E e \in events : e.who = w /\ e.at = clock' /\ Rank(e.to) >= Rank(new[w].alert)
      <4>1. w \in DOMAIN Evaluated(s, results, clock', start)
        BY <2>1, <2>9
      <4>2. Evaluated(s, results, clock', start)[w].alert \in Alarms
        BY <2>1, <3>1
      <4> QED
        BY <1>2, <2>1, <2>2, <2>3, <4>1, <4>2, AlarmIsAnnounced
    <3>3. CASE Row(w).alert \in Alarms /\ Rank(Row(w).alert) >= Rank(new[w].alert)
      <4>1. w \in DOMAIN rows /\ Row(w) = rows[w]
        BY <3>3 DEF Row, NoRow, Alarms
      <4>2. PICK e \in Events : Announced(w, e, Row(w).alert)
        BY <2>6, <3>3, <4>1
      <4>3. Rank(e.to) >= Rank(new[w].alert)
        <5>1. Rank(e.to) \in Int /\ Rank(Row(w).alert) \in Int /\ Rank(new[w].alert) \in Int
          BY DEF Rank
        <5> QED
          BY <3>3, <4>2, <5>1
      <4> QED
        BY <2>4, <2>7, <3>1, <4>2, <4>3
    <3>4. CASE \E e \in events :
                 e.who = w /\ e.at = clock' /\ Rank(e.to) >= Rank(new[w].alert)
      <4>1. clock' > calm[w]
        BY <1>2, <2>3, <2>4
      <4> QED
        BY <2>4, <2>7, <3>1, <3>4, <4>1
    <3> QED
      BY <3>2, <3>3, <3>4
  <2> QED
    BY <2>8, <2>9
<1> QED
  BY <1>1, <1>2, Written

\* A window in alarm has been announced: since a cycle last left it without an alarm,
\* an event at least as severe has gone into a batch, however the cycles of several
\* instances, lost connections and crashes interleave (evaluateObservation,
\* transitionKind, CommitCollection).
THEOREM AlarmsAreAnnounced == Spec => []AlertAnnounced
<1> DEFINE Inv == TypeOK /\ LeaseInv /\ CycleInv /\ AlertAnnounced
<1>1. Init => Inv
  <2>1. Init => AlertAnnounced
    BY DEF Init, AlertAnnounced
  <2> QED
    BY <2>1, InitTypes, InitLeases, InitCycles
<1>2. Inv /\ [Next]_vars => Inv'
  BY LeaseKept, CycleKept, AnnouncedKept
<1> QED
  BY <1>1, <1>2, PTL DEF Spec

-----------------------------------------------------------------------------
(* A degradation is reported once.                                         *)

LEMMA StreakKept ==
  ASSUME \A s, t \in Settings : s.degraded = t.degraded,
         TypeOK, LeaseInv, CycleInv, StreakInv, [Next]_vars
  PROVE  StreakInv'
<1>1. CASE UNCHANGED store /\ Events' = Events
  BY <1>1 DEF StreakInv, DegradedSince, store
<1>2. ASSUME NEW s \in Settings, NEW results \in Results, NEW start \in Nat,
             clock' \in Nat,
             \A a \in Auths : sound[a] < start,
             \A e \in Events : e.kind = "monitor_degraded" => e.at < start,
             Write(results, Evaluated(s, results, clock', start), start),
             Events' = Events \cup
                         NewEvents(s, results, Evaluated(s, results, clock', start), start)
      PROVE  StreakInv'
  <2>1. PICK events : events = NewEvents(s, results, Evaluated(s, results, clock', start), start)
    OBVIOUS
  <2>2. \A e \in events : e.kind = "monitor_degraded" =>
          \E a \in NewlyDegraded(s, results) : e = Degraded(<<a, "collection">>, start)
    <3>1. RowsType
      BY DEF TypeOK
    <3> QED
      BY <1>2, <2>1, <3>1, NewEventsTypes
  <2> SUFFICES ASSUME NEW a \in Auths
               PROVE  /\ \A e, f \in DegradedSince(a)' : e = f
                      /\ \A t \in Settings : failures'[a] < t.degraded => DegradedSince(a)' = {}
    BY DEF StreakInv
  <2>3. /\ \A e, f \in DegradedSince(a) : e = f
        /\ \A t \in Settings : failures[a] < t.degraded => DegradedSince(a) = {}
    BY DEF StreakInv
  <2>4. /\ failures'[a] = IF a \in Failed(results) THEN failures[a] + 1 ELSE 0
        /\ sound'[a] = IF a \in Failed(results) THEN sound[a] ELSE start
        /\ failures[a] \in Nat /\ sound[a] \in Nat
    BY <1>2, StoreNumbers DEF Write, Streak
  <2>5. Events' = Events \cup events
    BY <1>2, <2>1
  <2>6. \A e \in events : e.kind = "monitor_degraded" /\ e.who[1] = a =>
          a \in NewlyDegraded(s, results) /\ e = Degraded(<<a, "collection">>, start)
    BY <2>2 DEF Degraded
  <2>7. CASE a \notin Failed(results)
    <3>1. \A e \in DegradedSince(a)' : e \in Events
      BY <2>5, <2>6, <2>7 DEF DegradedSince, NewlyDegraded
    <3>2. \A e \in DegradedSince(a)' : e.kind = "monitor_degraded" /\ e.at > start
      BY <2>4, <2>7 DEF DegradedSince
    <3>3. \A e \in Events : e.at \in Nat
      BY StoreNumbers
    <3>4. DegradedSince(a)' = {}
      <4> SUFFICES ASSUME NEW e \in DegradedSince(a)' PROVE FALSE
        OBVIOUS
      <4> QED
        BY <1>2, <3>1, <3>2, <3>3
    <3> QED
      BY <3>4
  <2>8. CASE a \in Failed(results) /\ a \notin NewlyDegraded(s, results)
    <3>1. \A e \in DegradedSince(a)' : e \in DegradedSince(a)
      BY <2>4, <2>5, <2>6, <2>8 DEF DegradedSince
    <3>2. \A t \in Settings : failures'[a] < t.degraded => failures[a] < t.degraded
      BY <2>4, <2>8, SettingsNumbers
    <3> QED
      BY <2>3, <3>1, <3>2
  <2>9. CASE a \in NewlyDegraded(s, results)
    <3>1. a \in Failed(results) /\ failures[a] < s.degraded /\ failures[a] + 1 >= s.degraded
      BY <2>9 DEF NewlyDegraded, Streak
    <3>2. DegradedSince(a) = {}
      BY <2>3, <3>1
    <3>3. \A e \in DegradedSince(a)' : e = Degraded(<<a, "collection">>, start)
      BY <2>4, <2>5, <2>6, <3>1, <3>2 DEF DegradedSince
    <3>4. \A t \in Settings : ~(failures'[a] < t.degraded)
      <4> SUFFICES ASSUME NEW t \in Settings PROVE ~(failures'[a] < t.degraded)
        OBVIOUS
      <4>1. t.degraded = s.degraded /\ s.degraded \in Nat
        BY SettingsNumbers
      <4> QED
        BY <2>4, <3>1, <4>1
    <3> QED
      BY <3>3, <3>4
  <2> QED
    BY <2>7, <2>8, <2>9
<1> QED
  BY <1>1, <1>2, Written

LEMMA InitStreak == Init => StreakInv
<1> SUFFICES ASSUME Init PROVE StreakInv
  OBVIOUS
<1>1. Events = {}
  BY DEF Init, Events
<1> QED
  BY <1>1 DEF StreakInv, DegradedSince

\* An account that cannot be monitored is reported once, however long that lasts and
\* whoever runs the cycles, while the threshold stays what it is (advanceCollectionHealth).
THEOREM DegradationReportedOnce ==
  ASSUME \A s, t \in Settings : s.degraded = t.degraded
  PROVE  Spec => []DegradedOncePerStreak
<1> DEFINE Inv == TypeOK /\ LeaseInv /\ CycleInv /\ StreakInv
<1>1. Init => Inv
  BY InitTypes, InitLeases, InitCycles, InitStreak
<1>2. Inv /\ [Next]_vars => Inv'
  BY LeaseKept, CycleKept, StreakKept
<1>3. Inv => DegradedOncePerStreak
  <2> SUFFICES ASSUME StreakInv, NEW a \in Auths PROVE Cardinality(DegradedSince(a)) <= 1
    BY DEF DegradedOncePerStreak, DegradedSince
  <2>1. \A e, f \in DegradedSince(a) : e = f
    BY DEF StreakInv
  <2>2. CASE DegradedSince(a) = {}
    BY <2>2, FS_EmptySet
  <2>3. ASSUME NEW e \in DegradedSince(a) PROVE Cardinality(DegradedSince(a)) <= 1
    <3>1. DegradedSince(a) = {e}
      BY <2>1
    <3>2. Cardinality({e}) = 1
      BY FS_Singleton
    <3> QED
      BY <3>1, <3>2
  <2> QED
    BY <2>2, <2>3
<1> QED
  BY <1>1, <1>2, <1>3, PTL DEF Spec

=============================================================================
