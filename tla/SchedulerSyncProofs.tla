-------------------------- MODULE SchedulerSyncProofs --------------------------
(***************************************************************************)
(* Theorems about SchedulerSync, for any number of writes and of calls     *)
(* under way, any late stamps and any restored record.                     *)
(***************************************************************************)
EXTENDS SchedulerSync, TLAPS

-----------------------------------------------------------------------------
(* Types.                                                                  *)

\* A write by a writer that holds a time keeps the types.
LEMMA WriteTypes ==
  ASSUME TypeOK, NEW t \in Time, NEW epoch \in Nat, NEW gen \in Nat, NEW off \in BOOLEAN,
         Write(t, epoch, gen, off)
  PROVE  /\ clock' \in Time /\ clock' = clock + 1
         /\ auth' \in Snapshot
         /\ late' \in BOOLEAN
  BY SchedulerSyncAssumption DEF TypeOK, Write, Snapshot, Time

\* So does a call that brings a clone.
LEMMA StartTypes ==
  ASSUME calls \subseteq CallType, NEW op \in {"upsert", "remove", "rebuild"},
         NEW a \in Snapshot, NEW holds \in BOOLEAN, Start(Call(op, a, holds))
  PROVE  calls' \subseteq CallType
<1>1. Call(op, a, holds) \in CallType
  BY DEF Call, CallType
<1> QED
  BY <1>1 DEF Start

\* So does the acceptance of a clone.
LEMMA AcceptTypes ==
  ASSUME NEW a \in Snapshot, Accept(a)
  PROVE  /\ fence' \in [epoch : Nat, gen : Nat, updated : Nat]
         /\ entry' \in Time /\ dropped' \in BOOLEAN
<1>1. a.epoch \in Nat /\ a.gen \in Nat /\ a.updated \in Nat /\ a.rev \in Time /\ 0 \in Time
  BY SchedulerSyncAssumption DEF Snapshot, Time
<1>2. fence' \in [epoch : Nat, gen : Nat, updated : Nat]
  BY <1>1 DEF Accept
<1>3. entry' \in Time
  BY <1>1 DEF Accept
<1> QED
  BY <1>2, <1>3 DEF Accept

\* Every step keeps the types.
LEMMA TypeStep ==
  ASSUME TypeOK, [Next]_vars
  PROVE  TypeOK'
<1> USE SchedulerSyncAssumption
<1>t. clock < MaxClock => clock + 1 \in Time
  BY DEF TypeOK, Time
<1>a. auth.epoch \in Nat /\ auth.gen \in Nat /\ auth.disabled \in BOOLEAN
  BY DEF TypeOK, Snapshot
<1>1. CASE RestoreRecord
  <2>1. record \in Time
    BY DEF TypeOK, Time
  <2>2. /\ clock' \in Time /\ auth' \in Snapshot /\ late' \in BOOLEAN
    BY <1>1, <1>a, <2>1, WriteTypes DEF RestoreRecord, Rewrite
  <2> QED
    <3>1. calls' \subseteq CallType
      BY <1>1, <2>2, StartTypes DEF RestoreRecord, TypeOK, Upsert
    <3>2. record' \in 0..2
      BY <1>1 DEF RestoreRecord
    <3> QED
      BY <1>1, <2>2, <3>1, <3>2 DEF RestoreRecord, TypeOK, scheduler
<1>2. CASE Serve
  BY <1>2 DEF Serve, TypeOK, scheduler
<1>3. ASSUME NEW off \in BOOLEAN, Register(off) PROVE TypeOK'
  <2>1. epochs + 1 \in Nat
    BY DEF TypeOK
  <2>2. /\ clock' \in Time /\ auth' \in Snapshot /\ late' \in BOOLEAN
    BY <1>3, <1>t, <2>1, WriteTypes DEF Register, Write
  <2> QED
    <3>1. /\ Start(Call("upsert", auth', TRUE)) /\ epochs' = epochs + 1
          /\ UNCHANGED <<serving, record, scheduler>>
      BY <1>3 DEF Register
    <3> QED
      BY <2>1, <2>2, <3>1, StartTypes DEF TypeOK, scheduler
<1>4. ASSUME NEW off \in BOOLEAN, Update(off) PROVE TypeOK'
  <2>1. epochs \in Nat /\ (IF Registered(auth) THEN auth.gen + 1 ELSE 0) \in Nat
    BY DEF TypeOK, Snapshot
  <2>2. /\ clock' \in Time /\ auth' \in Snapshot /\ late' \in BOOLEAN
    BY <1>4, <1>t, <2>1, WriteTypes DEF Update, Write
  <2> QED
    <3>1. Start(Call("upsert", auth', TRUE)) /\ UNCHANGED <<serving, record, epochs, scheduler>>
      BY <1>4 DEF Update
    <3> QED
      BY <2>2, <3>1, StartTypes DEF TypeOK, scheduler
<1>5. CASE Forget
  <2>1. NoAuth \in Snapshot
    BY DEF NoAuth, Snapshot, Time
  <2>2. (~Management) \in BOOLEAN
    OBVIOUS
  <2> QED
    BY <1>5, <2>1, <2>2, StartTypes DEF Forget, TypeOK, scheduler
<1>6. CASE MarkResult
  <2>1. /\ clock' \in Time /\ auth' \in Snapshot /\ late' \in BOOLEAN
    BY <1>6, <1>a, <1>t, WriteTypes DEF MarkResult, Rewrite, Write
  <2> QED
    BY <1>6, <2>1, StartTypes DEF MarkResult, TypeOK, Upsert, scheduler
<1>7. ASSUME NEW t \in Time, Reset(t) PROVE TypeOK'
  <2>1. /\ clock' \in Time /\ auth' \in Snapshot /\ late' \in BOOLEAN
    BY <1>7, <1>a, WriteTypes DEF Reset, Rewrite
  <2> QED
    BY <1>7, <2>1, StartTypes DEF Reset, TypeOK, Upsert, scheduler
<1>8. CASE RefreshJob
  <2>1. /\ clock' \in Time /\ auth' \in Snapshot
    BY <1>8, <1>t DEF RefreshJob, TypeOK, Snapshot
  <2> QED
    BY <1>8, <2>1 DEF RefreshJob, TypeOK, scheduler
<1>9. CASE RefreshSchedulerEntry
  BY <1>9, StartTypes DEF RefreshSchedulerEntry, TypeOK, Upsert, scheduler
<1>10. CASE SyncScheduler
  BY <1>10, StartTypes DEF SyncScheduler, TypeOK, scheduler
<1>11. ASSUME NEW c \in calls, UpsertAuth(c) PROVE TypeOK'
  <2>1. c.auth \in Snapshot
    BY DEF TypeOK, CallType
  <2> QED
    BY <1>11, <2>1, AcceptTypes DEF UpsertAuth, TypeOK, scheduler
<1>12. ASSUME NEW c \in calls, RemoveAuth(c) PROVE TypeOK'
  <2>1. /\ fence' \in [epoch : Nat, gen : Nat, updated : Nat]
    BY <1>12 DEF RemoveAuth, TypeOK, Time
  <2>2. entry' \in Time
    BY <1>12 DEF RemoveAuth, TypeOK, Time
  <2>3. calls' \subseteq CallType
    BY <1>12 DEF RemoveAuth, TypeOK
  <2> QED
    BY <1>12, <2>1, <2>2, <2>3 DEF RemoveAuth, TypeOK
<1>13. ASSUME NEW c \in calls, Rebuild(c) PROVE TypeOK'
  <2>1. c.auth \in Snapshot
    BY DEF TypeOK, CallType
  <2> QED
    <3>1. calls' \subseteq CallType
      BY <1>13 DEF Rebuild, TypeOK
    <3>2. CASE Registered(c.auth) /\ ~Stale(c.auth)
      BY <1>13, <2>1, <3>1, <3>2, AcceptTypes DEF Rebuild, TypeOK
    <3>3. CASE ~(Registered(c.auth) /\ ~Stale(c.auth))
      <4>1. entry' \in Time
        BY <1>13, <3>3 DEF Rebuild, Time
      <4>2. dropped' \in BOOLEAN
        BY <1>13, <3>3 DEF Rebuild
      <4> QED
        BY <1>13, <3>1, <3>3, <4>1, <4>2 DEF Rebuild, TypeOK
    <3> QED
      BY <3>2, <3>3
<1>14. CASE UNCHANGED vars
  BY <1>14 DEF vars, scheduler, TypeOK
<1> QED
  BY <1>1, <1>2, <1>3, <1>4, <1>5, <1>6, <1>7, <1>8, <1>9, <1>10, <1>11, <1>12, <1>13, <1>14
  DEF Next

\* The first state has the types.
LEMMA InitTypes ==
  ASSUME Init
  PROVE  TypeOK
<1>0. 0 \in Time /\ 2 \in Time
  BY SchedulerSyncAssumption DEF Time
<1>1. auth \in Snapshot
  <2>1. NoAuth \in Snapshot
    BY <1>0 DEF NoAuth, Snapshot
  <2>2. [epoch |-> 0, gen |-> 0, updated |-> 2, rev |-> 2, disabled |-> FALSE] \in Snapshot
    BY <1>0 DEF Snapshot
  <2> QED
    BY <2>1, <2>2 DEF Init
<1>2. record \in 0..2
  BY SchedulerSyncAssumption DEF Init
<1>3. auth.updated \in Nat /\ auth.rev \in Time
  BY <1>1 DEF Snapshot, Time
<1>4. fence \in [epoch : Nat, gen : Nat, updated : Nat] /\ entry \in Time
  BY <1>3 DEF Init
<1> QED
  BY <1>0, <1>1, <1>2, <1>4 DEF Init, TypeOK

\* The Manager, the clones under way and the scheduler keep their types, for any number
\* of writes and of calls.
THEOREM TypeCorrect == Spec => []TypeOK
  BY InitTypes, TypeStep, PTL DEF Spec

-----------------------------------------------------------------------------
(* The fence.                                                              *)

\* Only a call of the scheduler moves the fence, and it moves it up.
LEMMA FenceStep ==
  ASSUME TypeOK, [Next]_vars, NEW a \in Snapshot, Stale(a)
  PROVE  Stale(a)'
<1>1. CASE UNCHANGED fence
  BY <1>1 DEF Stale
<1>2. ASSUME NEW b \in Snapshot, ~Stale(b), Accept(b)
      PROVE  Stale(a)'
  <2>1. fence' = [epoch |-> b.epoch, gen |-> b.gen, updated |-> b.updated]
    BY <1>2 DEF Accept
  <2> QED
    BY <1>2, <2>1 DEF Stale, TypeOK, Snapshot, Time
<1>3. ASSUME NEW c \in calls, UpsertAuth(c) PROVE Stale(a)'
  BY <1>1, <1>2, <1>3 DEF UpsertAuth, TypeOK, CallType, scheduler
<1>4. ASSUME NEW c \in calls, RemoveAuth(c) PROVE Stale(a)'
  BY <1>4 DEF RemoveAuth, Stale, TypeOK, Snapshot
<1>5. ASSUME NEW c \in calls, Rebuild(c) PROVE Stale(a)'
  BY <1>1, <1>2, <1>5 DEF Rebuild, TypeOK, CallType
<1> QED
  BY <1>1, <1>3, <1>4, <1>5
  DEF Next, vars, scheduler, RestoreRecord, Serve, Register, Update, Forget, MarkResult,
      Reset, RefreshJob, RefreshSchedulerEntry, SyncScheduler

\* What the scheduler once refused it refuses for ever: upserts, rebuilds and
\* tombstones in any order never lower the fence.
THEOREM FenceNeverFalls == Spec => FenceMonotonic
<1>1. TypeOK /\ [Next]_vars => [\A c \in calls : Stale(c.auth) => Stale(c.auth)']_vars
  <2> SUFFICES ASSUME TypeOK, [Next]_vars, NEW c \in calls, Stale(c.auth)
               PROVE  Stale(c.auth)'
    OBVIOUS
  <2>1. c.auth \in Snapshot
    BY DEF TypeOK, CallType
  <2> QED
    BY <2>1, FenceStep
<1> QED
  BY <1>1, TypeCorrect, PTL DEF Spec, FenceMonotonic

-----------------------------------------------------------------------------
(* The inductive invariant.                                                *)

\* x has an earlier stamp than y: epochs first, then generations, then times.
Older(x, y) ==
  \/ x.epoch < y.epoch
  \/ x.epoch = y.epoch /\ x.gen < y.gen
  \/ x.epoch = y.epoch /\ x.gen = y.gen /\ x.updated < y.updated

\* Clones and fence are no later than the clock, and not ahead of the registration;
\* a record is only restored to a credential that was loaded.
Bounded ==
  /\ clock >= 2
  /\ ~serving /\ record > 0 => Registered(auth)
  /\ fence.updated <= clock + 1
  /\ Registered(auth) => auth.updated <= clock /\ auth.rev <= clock
  /\ \A c \in calls : Registered(c.auth) =>
       /\ c.auth.updated <= clock /\ c.auth.rev <= clock /\ c.auth.epoch <= epochs
       /\ Registered(auth) /\ c.auth.epoch = epochs => c.auth.gen <= auth.gen

\* Only one call holds others up: an upsert of the registration, or its removal.
Serialized ==
  /\ \A c, d \in calls : c.holds /\ d.holds => c = d
  /\ \A c \in calls :
       /\ c.op = "upsert" => Registered(c.auth)
       /\ c.op = "remove" => c.holds
       /\ c.holds => IF c.op = "remove" THEN ~Registered(auth)
                     ELSE c.op = "upsert" /\ Registered(auth) /\ c.auth.epoch = epochs

\* The fence follows the registration: it is in the same epoch once the call of
\* Register is over, and one ahead of all clones once the call of Forget is.
Follows ==
  /\ Registered(auth) => /\ auth.epoch = epochs /\ fence.epoch <= epochs
                         /\ fence.epoch = epochs => fence.gen <= auth.gen
                         /\ Locked \/ fence.epoch = epochs
  /\ ~Registered(auth) /\ Locked => fence.epoch = epochs
  /\ ~Registered(auth) /\ ~Locked =>
       /\ entry = 0 /\ fence.epoch <= epochs + 1 /\ fence.gen = 0
       /\ \A c \in calls : Registered(c.auth) => c.auth.epoch < fence.epoch

\* What a clone carries is what the Manager has.
Current(a) == a.rev = auth.rev /\ a.disabled = auth.disabled

\* After a write stamped with its own time, everything from before is older, and the
\* clone has arrived and been accepted, or it is under way and will be.
InOrder ==
  Registered(auth) /\ ~late =>
    /\ ~Older(auth, fence)
    /\ \A d \in calls : Registered(d.auth) =>
         /\ ~Older(auth, d.auth)
         /\ ~Current(d.auth) => /\ Older(d.auth, auth)
                                /\ \A c \in calls : Registered(c.auth) /\ Current(c.auth) =>
                                     Older(d.auth, c.auth)
    /\ \/ /\ entry = (IF auth.disabled THEN 0 ELSE auth.rev) \/ (dropped /\ entry = 0)
          /\ \A d \in calls : Registered(d.auth) /\ ~Current(d.auth) => Older(d.auth, fence)
       \/ \E c \in calls : c.op = "upsert" /\ Current(c.auth) /\ ~Older(c.auth, fence)

Inv == TypeOK /\ Bounded /\ Serialized /\ Follows /\ InOrder

-----------------------------------------------------------------------------
(* One goroutine registers, updates and removes: the invariant is kept.    *)

\* The numbers in the state, for arithmetic.
Numbers ==
  /\ clock \in Nat /\ epochs \in Nat
  /\ auth.epoch \in Nat /\ auth.gen \in Nat /\ auth.updated \in Nat /\ auth.rev \in Nat
  /\ fence.epoch \in Nat /\ fence.gen \in Nat /\ fence.updated \in Nat
  /\ \A c \in calls : /\ c.auth.epoch \in Nat /\ c.auth.gen \in Nat
                      /\ c.auth.updated \in Nat /\ c.auth.rev \in Nat

LEMMA TypesHaveNumbers == TypeOK => Numbers
<1> SUFFICES ASSUME TypeOK PROVE Numbers
  OBVIOUS
<1> USE SchedulerSyncAssumption
<1>1. \A a \in Snapshot : /\ a.epoch \in Nat /\ a.gen \in Nat
                         /\ a.updated \in Nat /\ a.rev \in Nat
  BY DEF Snapshot, Time
<1>2. \A c \in calls : c.auth \in Snapshot
  BY DEF TypeOK, CallType
<1>3. clock \in Nat
  BY DEF TypeOK, Time
<1>4. fence.epoch \in Nat /\ fence.gen \in Nat /\ fence.updated \in Nat
  BY DEF TypeOK
<1>5. auth \in Snapshot /\ epochs \in Nat
  BY DEF TypeOK
<1> QED
  BY <1>1, <1>2, <1>3, <1>4, <1>5 DEF Numbers

\* A call that brings what the Manager has, and holds nobody up.
LEMMA StartKeeps ==
  ASSUME Numbers, Bounded, Serialized, Follows, InOrder,
         NEW op \in {"upsert", "rebuild"}, op = "upsert" => Registered(auth),
         Start(Call(op, auth, FALSE)),
         UNCHANGED <<clock, serving, record, auth, epochs, scheduler, late>>
  PROVE  Bounded' /\ Serialized' /\ Follows' /\ InOrder'
<1> DEFINE new == Call(op, auth, FALSE)
<1>1. calls' = calls \cup {new}
  BY DEF Start
<1>2. new.op = op /\ new.auth = auth /\ new.holds = FALSE
  BY DEF Call
<1> HIDE DEF new
<1> USE DEF Numbers, scheduler
<1>3. auth' = auth /\ Registered(auth)' = Registered(auth) /\ Locked' = Locked
  BY <1>1, <1>2 DEF Registered, Locked
<1>4. Bounded'
  BY <1>1, <1>2, <1>3 DEF Bounded, Follows, Registered
<1>5. Serialized'
  BY <1>1, <1>2, <1>3 DEF Serialized, Registered
<1>6. Follows'
  BY <1>1, <1>2, <1>3 DEF Follows, Registered
<1>7. InOrder'
  BY <1>1, <1>2, <1>3 DEF InOrder, Registered, Current, Older
<1> QED
  BY <1>4, <1>5, <1>6, <1>7

\* A write of a registered credential, at any time that is not ahead of the clock.
LEMMA RewriteKeeps ==
  ASSUME Numbers, Bounded, Serialized, Follows, InOrder, Registered(auth),
         NEW t \in Nat, t <= clock + 1, Rewrite(t), Start(Upsert(auth')),
         UNCHANGED <<epochs, scheduler>>, serving' => serving, record' = record \/ record' = 0
  PROVE  Bounded' /\ Serialized' /\ Follows' /\ InOrder'
<1> DEFINE new == Upsert(auth')
<1>1. calls' = calls \cup {new}
  BY DEF Start
<1>2. new.op = "upsert" /\ new.auth = auth' /\ new.holds = FALSE
  BY DEF Upsert, Call
<1> HIDE DEF new
<1> USE DEF Numbers, scheduler
<1>3. /\ auth'.epoch = auth.epoch /\ auth'.gen = auth.gen /\ auth'.updated = t
      /\ auth'.rev = clock + 1 /\ clock' = clock + 1 /\ late' = (t # clock + 1)
  BY DEF Rewrite, Write
<1>4. Registered(auth)' /\ Registered(auth') /\ Locked' = Locked
  BY <1>1, <1>2, <1>3 DEF Registered, Locked
<1>5. Bounded'
  BY <1>1, <1>2, <1>3, <1>4 DEF Bounded, Follows, Registered
<1>6. Serialized'
  BY <1>1, <1>2, <1>3, <1>4 DEF Serialized, Registered
<1>7. Follows'
  BY <1>1, <1>2, <1>3, <1>4 DEF Follows, Registered
<1>8. InOrder'
  <2>1. CASE late'
    BY <2>1 DEF InOrder
  <2>2. CASE t = clock + 1
    BY <1>1, <1>2, <1>3, <1>4, <2>2 DEF InOrder, Bounded, Follows, Registered, Current, Older
  <2> QED
    BY <1>3, <2>1, <2>2
<1> QED
  BY <1>5, <1>6, <1>7, <1>8

\* A new registration: it has an epoch of its own.
LEMMA RegisterKeeps ==
  ASSUME Numbers, Bounded, Serialized, Follows, InOrder, ~Management,
         NEW off \in BOOLEAN, Register(off)
  PROVE  Bounded' /\ Serialized' /\ Follows' /\ InOrder'
<1> DEFINE new == Call("upsert", auth', TRUE)
<1>1. calls' = calls \cup {new}
  BY DEF Register, Start
<1>2. new.op = "upsert" /\ new.auth = auth' /\ new.holds = TRUE
  BY DEF Call
<1> HIDE DEF new
<1> USE DEF Numbers, scheduler
<1>3. /\ auth'.epoch = epochs + 1 /\ auth'.gen = 1 /\ auth'.updated = clock + 1
      /\ auth'.rev = clock + 1 /\ clock' = clock + 1 /\ late' = FALSE
      /\ epochs' = epochs + 1 /\ serving' = serving /\ record' = record
      /\ fence' = fence /\ entry' = entry /\ dropped' = dropped /\ serving
  BY DEF Register, Write
<1>4. ~Registered(auth) /\ ~Locked
  BY DEF Register
<1>5. Registered(auth)' /\ Registered(auth') /\ Locked'
  BY <1>1, <1>2, <1>3 DEF Registered, Locked
<1>6. Bounded'
  BY <1>1, <1>2, <1>3, <1>5 DEF Bounded, Registered
<1>7. Serialized'
  BY <1>1, <1>2, <1>3, <1>4, <1>5 DEF Serialized, Registered, Locked
<1>8. Follows'
  BY <1>1, <1>2, <1>3, <1>4, <1>5 DEF Follows, Registered
<1>9. InOrder'
  BY <1>1, <1>2, <1>3, <1>4, <1>5 DEF InOrder, Bounded, Follows, Registered, Current, Older
<1> QED
  BY <1>6, <1>7, <1>8, <1>9

\* An update: the next generation of the registration.
LEMMA UpdateKeeps ==
  ASSUME Numbers, Bounded, Serialized, Follows, InOrder, ~Management,
         NEW off \in BOOLEAN, Update(off)
  PROVE  Bounded' /\ Serialized' /\ Follows' /\ InOrder'
<1> DEFINE new == Call("upsert", auth', TRUE)
<1>1. calls' = calls \cup {new}
  BY DEF Update, Start
<1>2. new.op = "upsert" /\ new.auth = auth' /\ new.holds = TRUE
  BY DEF Call
<1> HIDE DEF new
<1> USE DEF Numbers, scheduler
<1>3. Registered(auth) /\ ~Locked
  BY DEF Update
<1>4. /\ auth'.epoch = epochs /\ auth'.gen = auth.gen + 1 /\ auth'.updated = clock + 1
      /\ auth'.rev = clock + 1 /\ clock' = clock + 1 /\ late' = FALSE
      /\ epochs' = epochs /\ serving' = serving /\ record' = record
      /\ fence' = fence /\ entry' = entry /\ dropped' = dropped
  BY <1>3 DEF Update, Write
<1>5. Registered(auth)' /\ Registered(auth') /\ Locked'
  BY <1>1, <1>2, <1>4 DEF Registered, Locked
<1>6. Bounded'
  BY <1>1, <1>2, <1>3, <1>4, <1>5 DEF Bounded, Follows, Registered
<1>7. Serialized'
  BY <1>1, <1>2, <1>3, <1>4, <1>5 DEF Serialized, Registered, Locked
<1>8. Follows'
  BY <1>1, <1>2, <1>3, <1>4, <1>5 DEF Follows, Registered
<1>9. InOrder'
  BY <1>1, <1>2, <1>3, <1>4, <1>5 DEF InOrder, Bounded, Follows, Registered, Current, Older
<1> QED
  BY <1>6, <1>7, <1>8, <1>9

\* A removal: its call holds the next registration up until the tombstone is set.
LEMMA ForgetKeeps ==
  ASSUME Numbers, Bounded, Serialized, Follows, InOrder, ~Management, Forget
  PROVE  Bounded' /\ Serialized' /\ Follows' /\ InOrder'
<1> DEFINE new == Call("remove", NoAuth, ~Management)
<1>1. calls' = calls \cup {new}
  BY DEF Forget, Start
<1>2. new.op = "remove" /\ new.auth = NoAuth /\ new.holds
  BY DEF Call
<1> HIDE DEF new
<1> USE DEF Numbers, scheduler
<1>3. Registered(auth) /\ ~Locked /\ serving
  BY DEF Forget
<1>4. UNCHANGED <<clock, serving, record, epochs, fence, entry, dropped, late>>
  BY DEF Forget
<1>5. ~Registered(auth)' /\ ~Registered(NoAuth) /\ Locked'
  BY <1>1, <1>2 DEF Forget, Registered, NoAuth, Locked
<1>6. Bounded'
  BY <1>1, <1>2, <1>3, <1>4, <1>5 DEF Bounded, Registered
<1>7. Serialized'
  BY <1>1, <1>2, <1>3, <1>4, <1>5 DEF Serialized, Registered, Locked
<1>8. Follows'
  BY <1>3, <1>4, <1>5 DEF Follows, Registered
<1>9. InOrder'
  BY <1>5 DEF InOrder
<1> QED
  BY <1>6, <1>7, <1>8, <1>9

\* A generation that the scheduler is not told of.
LEMMA RefreshJobKeeps ==
  ASSUME Numbers, Bounded, Serialized, Follows, InOrder, RefreshJob
  PROVE  Bounded' /\ Serialized' /\ Follows' /\ InOrder'
<1> USE DEF Numbers, scheduler
<1>1. /\ auth'.epoch = auth.epoch /\ auth'.gen = auth.gen + 1 /\ auth'.updated = clock + 1
      /\ auth'.rev = auth.rev /\ auth'.disabled = auth.disabled /\ clock' = clock + 1
      /\ UNCHANGED <<serving, record, epochs, calls, fence, entry, dropped, late>>
  BY DEF RefreshJob
<1>2. Registered(auth)' = Registered(auth) /\ Locked' = Locked /\ Registered(auth)
  BY <1>1 DEF RefreshJob, Registered, Locked
<1>3. Bounded'
  BY <1>1, <1>2 DEF Bounded, Follows, Registered
<1>4. Serialized'
  BY <1>1, <1>2 DEF Serialized
<1>5. Follows'
  BY <1>1, <1>2 DEF Follows, Registered
<1>6. InOrder'
  BY <1>1, <1>2 DEF InOrder, Registered, Current, Older
<1> QED
  BY <1>3, <1>4, <1>5, <1>6

\* A clone arrives and is accepted.
LEMMA AcceptKeeps ==
  ASSUME Numbers, Bounded, Serialized, Follows, InOrder,
         NEW c \in calls, c.op # "remove", Registered(c.auth), ~Stale(c.auth), Accept(c.auth),
         calls' = calls \ {c}, UNCHANGED <<clock, serving, record, auth, epochs, late>>
  PROVE  Bounded' /\ Serialized' /\ Follows' /\ InOrder'
<1> USE DEF Numbers
<1>1. /\ fence'.epoch = c.auth.epoch /\ fence'.gen = c.auth.gen
      /\ fence'.updated = c.auth.updated
      /\ entry' = (IF c.auth.disabled THEN 0 ELSE c.auth.rev)
  BY DEF Accept
<1>2. ~Older(c.auth, fence)
  BY DEF Stale, Older
<1>3. Bounded'
  BY <1>1 DEF Bounded, Registered
<1>4. Serialized'
  BY DEF Serialized, Registered
<1>5. Registered(auth) \/ Locked
  BY <1>2 DEF Follows, Older
<1>6. Follows'
  <2>1. CASE Registered(auth)
    <3>1. Locked' \/ fence'.epoch = epochs
      BY <1>1, <1>2, <2>1 DEF Follows, Serialized, Bounded, Locked, Older
    <3> QED
      BY <1>1, <2>1, <3>1 DEF Follows, Bounded, Registered
  <2>2. CASE ~Registered(auth)
    <3>1. Locked'
      BY <1>5, <2>2 DEF Locked, Serialized
    <3>2. fence'.epoch = epochs
      BY <1>1, <1>2, <1>5, <2>2 DEF Follows, Bounded, Older
    <3> QED
      BY <2>2, <3>1, <3>2 DEF Follows, Registered
  <2> QED
    BY <2>1, <2>2
<1>7. InOrder'
  BY <1>1, <1>2 DEF InOrder, Registered, Current, Older
<1> QED
  BY <1>3, <1>4, <1>6, <1>7

\* A clone arrives and is refused as too old.
LEMMA RefuseKeeps ==
  ASSUME Numbers, Bounded, Serialized, Follows, InOrder,
         NEW c \in calls, c.op = "upsert", Stale(c.auth),
         calls' = calls \ {c},
         UNCHANGED <<clock, serving, record, auth, epochs, late, scheduler>>
  PROVE  Bounded' /\ Serialized' /\ Follows' /\ InOrder'
<1> USE DEF Numbers, scheduler
<1>1. Older(c.auth, fence)
  BY DEF Stale, Older
<1>2. Bounded'
  BY DEF Bounded, Registered
<1>3. Serialized'
  BY DEF Serialized, Registered
<1>4. Follows'
  <2>1. CASE Registered(auth)
    <3>1. Locked' \/ fence.epoch = epochs
      BY <1>1, <2>1 DEF Follows, Serialized, Bounded, Locked, Older
    <3> QED
      BY <2>1, <3>1 DEF Follows, Registered
  <2>2. CASE ~Registered(auth) /\ Locked
    <3>1. Locked'
      BY <2>2 DEF Locked, Serialized
    <3> QED
      BY <2>2, <3>1 DEF Follows, Registered
  <2>3. CASE ~Registered(auth) /\ ~Locked
    BY <2>3 DEF Follows, Registered, Locked
  <2> QED
    BY <2>1, <2>2, <2>3
<1>5. InOrder'
  BY <1>1 DEF InOrder, Registered, Current
<1> QED
  BY <1>2, <1>3, <1>4, <1>5

\* A removal arrives: the tombstone is one epoch ahead of every clone under way.
LEMMA RemoveKeeps ==
  ASSUME Numbers, Bounded, Serialized, Follows, InOrder, NEW c \in calls, RemoveAuth(c)
  PROVE  Bounded' /\ Serialized' /\ Follows' /\ InOrder'
<1> USE DEF Numbers
<1>1. /\ fence'.epoch = fence.epoch + 1 /\ fence'.gen = 0 /\ fence'.updated = clock + 1
      /\ entry' = 0 /\ calls' = calls \ {c} /\ c.op = "remove"
      /\ UNCHANGED <<clock, serving, record, auth, epochs, late>>
  BY DEF RemoveAuth
<1>2. c.holds /\ ~Registered(auth) /\ Locked /\ fence.epoch = epochs
  BY <1>1 DEF Serialized, Follows, Locked
<1>3. ~Registered(auth)' /\ ~Locked'
  BY <1>1, <1>2 DEF Serialized, Registered, Locked
<1>4. Bounded'
  BY <1>1, <1>2 DEF Bounded, Registered
<1>5. Serialized'
  BY <1>1, <1>2 DEF Serialized, Registered
<1>6. Follows'
  BY <1>1, <1>2, <1>3 DEF Follows, Bounded, Registered
<1>7. InOrder'
  BY <1>3 DEF InOrder
<1> QED
  BY <1>4, <1>5, <1>6, <1>7

\* A rebuild that loses the credential leaves the fence as it is.
LEMMA RebuildLosesKeeps ==
  ASSUME Numbers, Bounded, Serialized, Follows, InOrder, dropped \in BOOLEAN,
         NEW c \in calls, Rebuild(c), ~(Registered(c.auth) /\ ~Stale(c.auth))
  PROVE  Bounded' /\ Serialized' /\ Follows' /\ InOrder'
<1> USE DEF Numbers
<1>1. /\ entry' = 0 /\ dropped' = (entry # 0 \/ dropped) /\ fence' = fence
      /\ calls' = calls \ {c} /\ c.op = "rebuild"
      /\ UNCHANGED <<clock, serving, record, auth, epochs, late>>
  BY DEF Rebuild
<1>2. ~c.holds /\ Locked' = Locked
  BY <1>1 DEF Serialized, Locked
<1>3. Bounded'
  BY <1>1 DEF Bounded, Registered
<1>4. Serialized'
  BY <1>1 DEF Serialized, Registered
<1>5. Follows'
  BY <1>1, <1>2 DEF Follows, Registered
<1>6. InOrder'
  <2> SUFFICES ASSUME Registered(auth), ~late PROVE InOrder'
    BY <1>1 DEF InOrder, Registered
  <2>1. ~Older(auth, fence)'
    BY <1>1 DEF InOrder, Older
  <2>2. \A d \in calls : Registered(d.auth) =>
          /\ ~Older(auth, d.auth)
          /\ ~Current(d.auth) => /\ Older(d.auth, auth)
                                 /\ \A e \in calls : Registered(e.auth) /\ Current(e.auth) =>
                                      Older(d.auth, e.auth)
    BY DEF InOrder
  <2>3. /\ calls' \subseteq calls /\ auth' = auth /\ fence' = fence
        /\ \A a : Current(a)' <=> Current(a)
    BY <1>1 DEF Current
  <2>4. CASE \E d \in calls : d.op = "upsert" /\ Current(d.auth) /\ ~Older(d.auth, fence)
    <3>1. \E d \in calls' : d.op = "upsert" /\ Current(d.auth)' /\ ~Older(d.auth, fence')
      BY <1>1, <2>3, <2>4
    <3> QED
      BY <2>1, <2>2, <2>3, <3>1 DEF InOrder
  <2>5. CASE /\ entry = (IF auth.disabled THEN 0 ELSE auth.rev) \/ (dropped /\ entry = 0)
             /\ \A d \in calls : Registered(d.auth) /\ ~Current(d.auth) => Older(d.auth, fence)
    <3>1. entry' = (IF auth'.disabled THEN 0 ELSE auth'.rev) \/ (dropped' /\ entry' = 0)
      BY <1>1, <2>5 DEF Registered
    <3> QED
      BY <2>1, <2>2, <2>3, <2>5, <3>1 DEF InOrder
  <2> QED
    BY <2>4, <2>5 DEF InOrder
<1> QED
  BY <1>3, <1>4, <1>5, <1>6

\* Every step keeps the invariant.
LEMMA InvStep ==
  ASSUME ~Management, Inv, [Next]_vars
  PROVE  Inv'
<1> USE DEF Inv
<1>0. Numbers /\ TypeOK'
  BY TypesHaveNumbers, TypeStep
<1> SUFFICES Bounded' /\ Serialized' /\ Follows' /\ InOrder'
  BY <1>0
<1>1. CASE RestoreRecord
  <2>1. record \in Nat /\ record <= clock + 1 /\ Registered(auth)
    BY <1>0, <1>1 DEF RestoreRecord, TypeOK, Bounded, Numbers
  <2> QED
    BY <1>0, <1>1, <2>1, RewriteKeeps DEF RestoreRecord
<1>2. CASE Serve
  BY <1>2 DEF Serve, scheduler, Bounded, Serialized, Follows, InOrder, Registered, Locked,
              Current, Older
<1>3. ASSUME NEW off \in BOOLEAN, Register(off)
      PROVE  Bounded' /\ Serialized' /\ Follows' /\ InOrder'
  BY <1>0, <1>3, RegisterKeeps
<1>4. ASSUME NEW off \in BOOLEAN, Update(off)
      PROVE  Bounded' /\ Serialized' /\ Follows' /\ InOrder'
  BY <1>0, <1>4, UpdateKeeps
<1>5. CASE Forget
  BY <1>0, <1>5, ForgetKeeps
<1>6. CASE MarkResult
  BY <1>0, <1>6, RewriteKeeps DEF MarkResult, Numbers
<1>7. ASSUME NEW t \in Time, Reset(t)
      PROVE  Bounded' /\ Serialized' /\ Follows' /\ InOrder'
  <2>1. t \in Nat /\ t <= clock + 1
    BY <1>0, <1>7 DEF Reset, ReadBefore, Time, Numbers
  <2> QED
    BY <1>0, <1>7, <2>1, RewriteKeeps DEF Reset
<1>8. CASE RefreshJob
  BY <1>0, <1>8, RefreshJobKeeps
<1>9. CASE RefreshSchedulerEntry
  BY <1>0, <1>9, StartKeeps DEF RefreshSchedulerEntry, Upsert
<1>10. CASE SyncScheduler
  BY <1>0, <1>10, StartKeeps DEF SyncScheduler
<1>11. ASSUME NEW c \in calls, UpsertAuth(c)
       PROVE  Bounded' /\ Serialized' /\ Follows' /\ InOrder'
  <2>1. Registered(c.auth)
    BY <1>11 DEF UpsertAuth, Serialized
  <2>2. CASE Stale(c.auth)
    BY <1>0, <1>11, <2>2, RefuseKeeps DEF UpsertAuth
  <2>3. CASE ~Stale(c.auth)
    BY <1>0, <1>11, <2>1, <2>3, AcceptKeeps DEF UpsertAuth
  <2> QED
    BY <2>2, <2>3
<1>12. ASSUME NEW c \in calls, RemoveAuth(c)
       PROVE  Bounded' /\ Serialized' /\ Follows' /\ InOrder'
  BY <1>0, <1>12, RemoveKeeps
<1>13. ASSUME NEW c \in calls, Rebuild(c)
       PROVE  Bounded' /\ Serialized' /\ Follows' /\ InOrder'
  <2>1. CASE Registered(c.auth) /\ ~Stale(c.auth)
    BY <1>0, <1>13, <2>1, AcceptKeeps DEF Rebuild
  <2>2. CASE ~(Registered(c.auth) /\ ~Stale(c.auth))
    BY <1>0, <1>13, <2>2, RebuildLosesKeeps DEF TypeOK
  <2> QED
    BY <2>1, <2>2
<1>14. CASE UNCHANGED vars
  BY <1>14 DEF vars, scheduler, Bounded, Serialized, Follows, InOrder, Registered, Locked,
               Current, Older
<1> QED
  BY <1>1, <1>2, <1>3, <1>4, <1>5, <1>6, <1>7, <1>8, <1>9, <1>10, <1>11, <1>12, <1>13, <1>14
  DEF Next

\* It holds in every state of a service without the management API.
LEMMA InvHolds ==
  ASSUME ~Management
  PROVE  Spec => []Inv
<1>1. ASSUME Init PROVE Inv
  <2>1. TypeOK
    BY <1>1, InitTypes
  <2>2. calls = {} /\ ~Locked /\ clock = 2 /\ epochs = 0 /\ late = FALSE
    BY <1>1 DEF Init, Locked
  <2>3. /\ fence.epoch = 0 /\ fence.gen = 0 /\ fence.updated = auth.updated
        /\ entry = auth.rev /\ auth.epoch = 0 /\ auth.gen = 0 /\ auth.disabled = FALSE
        /\ \/ auth.updated = 2 /\ auth.rev = 2
           \/ auth.updated = 0 /\ auth.rev = 0 /\ record = 0
    BY <1>1 DEF Init, NoAuth
  <2> QED
    BY <2>1, <2>2, <2>3
    DEF Inv, Bounded, Serialized, Follows, InOrder, Registered, Current, Older
<1>2. Inv /\ [Next]_vars => Inv'
  BY InvStep
<1> QED
  BY <1>1, <1>2, PTL DEF Spec

-----------------------------------------------------------------------------
(* What the scheduler serves.                                              *)

\* With one goroutine that registers, updates and removes, the scheduler serves the
\* credential as the Manager has it once every clone has arrived.
THEOREM SchedulerFollows ==
  ASSUME ~Management
  PROVE  Spec => []ScheduledIsCurrent
<1>1. Inv => ScheduledIsCurrent
  BY DEF Inv, InOrder, ScheduledIsCurrent, Quiet
<1> QED
  BY <1>1, InvHolds, PTL

\* It serves nothing of a credential that was removed.
THEOREM RemovalsArrive ==
  ASSUME ~Management
  PROVE  Spec => []RemovedIsUnscheduled
<1>1. Inv => RemovedIsUnscheduled
  BY DEF Inv, Follows, RemovedIsUnscheduled, Quiet, Locked
<1> QED
  BY <1>1, InvHolds, PTL

\* The fence is never ahead of a write stamped with its own time.
THEOREM AlwaysRepairable ==
  ASSUME ~Management
  PROVE  Spec => []Repairable
<1>1. Inv => Repairable
  BY DEF Inv, InOrder, Repairable, Stale, Older
<1> QED
  BY <1>1, InvHolds, PTL
=============================================================================
