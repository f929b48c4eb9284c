---------------------------- MODULE AuthRefreshProofs ----------------------------
(***************************************************************************)
(* Theorems about AuthRefresh, for any number of callers and loops, any    *)
(* durations and bounds.                                                   *)
(***************************************************************************)
EXTENDS AuthRefresh, Integers, TLAPS

-----------------------------------------------------------------------------
(* Types.                                                                  *)

Err == {"none", "quota", "unauthorized", "grant", "other"}
AuthType ==
  [epoch : 0..MaxEpoch, token : Nat, expires : Nat, after : Nat, off : BOOLEAN,
   err : Err, blocked : BOOLEAN, retry : Nat, limit : Nat, edit : Nat]
JobType == [epoch : Nat, until : Nat, loop : Nat]
LoopPc == {"off", "rebuild", "wait", "mark", "again", "send", "drain", "remove",
           "release", "end"}
LoopType ==
  [pc : LoopPc, now : Nat, next : Nat, dirty : BOOLEAN, wake : BOOLEAN,
   jobs : JobType, hand : JobType, then : {"wait", "drain"}]
Dispatchers == [Loop -> LoopType]
PendingType == [job : JobType, running : BOOLEAN]
RefresherPc == {"idle", "begin", "lock", "call", "merge", "unschedule", "finish", "done"}
RefresherType ==
  [pc : RefresherPc, job : JobType, base : AuthType, failed : Nat, got : AuthType]
Refreshers == [Refresher -> RefresherType]

CredentialTypes ==
  /\ clock \in Nat \ {0}
  /\ auth \in AuthType /\ editor \in AuthType
  /\ epochs \in 1..MaxEpoch
  /\ newest \in [1..MaxEpoch -> Nat]
  /\ quota \in Nat

MachineTypes ==
  /\ pending \in PendingType
  /\ active \in 0..MaxLoop
  /\ loops \in Dispatchers
  /\ refreshers \in Refreshers
  /\ \A r \in Refresher : In(r, "call") => Present(refreshers[r].base)

TypeOK == CredentialTypes /\ MachineTypes

\* The constants.
LEMMA Constants ==
  /\ Lead \in Nat \ {0} /\ Life \in Nat \ {0} /\ Pending \in Nat \ {0}
  /\ Backoff \in Nat \ {0} /\ Ineffective \in Nat \ {0} /\ Interval \in Nat \ {0}
  /\ Cooldown \in Nat \ {0}
  /\ MaxEpoch \in Nat \ {0} /\ MaxLoop \in Nat \ {0}
  /\ Failures \subseteq Err /\ Errors \subseteq Err
  /\ \A l \in Loop : l \in Nat \ {0} /\ l \in 0..MaxLoop /\ l \in Refresher /\ l \notin Callers
  /\ 0 \notin Refresher /\ 0 \notin Loop
  /\ \A r \in Refresher : r \notin Callers => r \in Loop
  BY AuthRefreshAssumption DEF Err, Loop, Refresher

LEMMA NoneTypes ==
  /\ NoAuth \in AuthType /\ NoJob \in JobType
  /\ IdleLoop \in LoopType /\ IdleRefresher \in RefresherType
  BY Constants DEF NoAuth, NoJob, IdleLoop, IdleRefresher, AuthType, JobType, LoopType,
         RefresherType, Err, LoopPc, RefresherPc

\* The look-ups of the loop are times.
LEMMA CheckType ==
  ASSUME NEW a \in AuthType, NEW now \in Nat
  PROVE  /\ NextCheck(a, now) \in Nat
         /\ NextCheck(a, now) >= now
  BY Constants DEF NextCheck, Latest, Due, AuthType

\* What two states of a dispatcher have in common but the mark.
SameBut(x, y) ==
  /\ x.pc = y.pc /\ x.now = y.now /\ x.next = y.next
  /\ x.jobs = y.jobs /\ x.hand = y.hand /\ x.then = y.then

\* Dispatcher l is in state x, the others are as they were.
Put(ls, l, x) == [ls EXCEPT ![l] = x]

LEMMA LoopSet ==
  ASSUME NEW ls \in Dispatchers, NEW l \in Loop, NEW x \in LoopType
  PROVE  /\ Put(ls, l, x) \in Dispatchers
         /\ Put(ls, l, x)[l] = x
         /\ \A k \in Loop : k # l => Put(ls, l, x)[k] = ls[k]
  BY DEF Dispatchers, Put

LEMMA LoopAt ==
  ASSUME NEW ls \in Dispatchers, NEW l \in Loop
  PROVE  /\ ls[l] \in LoopType
         /\ ls[l].pc \in LoopPc /\ ls[l].now \in Nat /\ ls[l].next \in Nat
         /\ ls[l].jobs \in JobType /\ ls[l].hand \in JobType
         /\ ls[l].then \in {"wait", "drain"}
  BY DEF Dispatchers, LoopType

LEMMA LoopGoes ==
  ASSUME NEW ls \in Dispatchers, NEW l \in Loop, NEW pc \in LoopPc
  PROVE  [ls[l] EXCEPT !.pc = pc] \in LoopType
  BY LoopAt DEF LoopType

LEMMA MarkedType ==
  ASSUME NEW ls \in Dispatchers, active \in 0..MaxLoop
  PROVE  /\ Marked(ls) \in Dispatchers
         /\ \A l \in Loop :
              /\ SameBut(Marked(ls)[l], ls[l])
              /\ l # active => Marked(ls)[l] = ls[l]
              /\ l = active => Marked(ls)[l].dirty /\ Marked(ls)[l].wake
<1>1. CASE active = 0
  BY <1>1, Constants DEF Marked, SameBut
<1>2. CASE active # 0
  <2> DEFINE x == [ls[active] EXCEPT !.dirty = TRUE, !.wake = TRUE]
  <2>1. active \in Loop
    BY <1>2, Constants DEF Loop
  <2>2. /\ x \in LoopType /\ SameBut(x, ls[active])
        /\ x.dirty /\ x.wake
    BY <2>1, LoopAt DEF LoopType, SameBut
  <2>3. Marked(ls) = Put(ls, active, x)
    BY <1>2 DEF Marked, Put
  <2> HIDE DEF x
  <2>4. \A l \in Loop : SameBut(ls[l], ls[l])
    BY DEF SameBut
  <2> QED
    BY <2>1, <2>2, <2>3, <2>4, LoopSet
<1> QED
  BY <1>1, <1>2

LEMMA RemovedType ==
  ASSUME NEW ls \in Dispatchers, NEW l \in Loop
  PROVE  /\ Removed(ls, l) \in Dispatchers
         /\ Removed(ls, l)[l] = [ls[l] EXCEPT !.next = 0, !.dirty = FALSE]
         /\ \A k \in Loop : k # l => Removed(ls, l)[k] = ls[k]
<1> DEFINE x == [ls[l] EXCEPT !.next = 0, !.dirty = FALSE]
<1>1. x \in LoopType
  BY LoopAt DEF LoopType
<1>2. Removed(ls, l) = Put(ls, l, x)
  BY DEF Removed, Put
<1> HIDE DEF x
<1>3. /\ Removed(ls, l) \in Dispatchers
      /\ Removed(ls, l)[l] = x
      /\ \A k \in Loop : k # l => Removed(ls, l)[k] = ls[k]
  BY <1>1, <1>2, LoopSet
<1> QED
  BY <1>3 DEF x

\* The end of a round: the dispatcher goes on where it was told to.
Ended(x, y) ==
  /\ y.pc = x.then /\ y.now = (IF x.then = "wait" THEN 0 ELSE x.now)
  /\ y.hand = NoJob /\ y.then = "wait"
  /\ y.dirty = x.dirty /\ y.wake = x.wake /\ y.jobs = x.jobs

LEMMA BackType ==
  ASSUME NEW ls \in Dispatchers, NEW l \in Loop
  PROVE  /\ Back(ls, l) \in Dispatchers
         /\ Ended(ls[l], Back(ls, l)[l])
         /\ Back(ls, l)[l].next = ls[l].next
         /\ \A k \in Loop : k # l => Back(ls, l)[k] = ls[k]
<1> DEFINE back == [ls[l] EXCEPT !.pc = ls[l].then,
                                 !.now = IF ls[l].then = "wait" THEN 0 ELSE @,
                                 !.hand = NoJob, !.then = "wait"]
<1>1. back \in LoopType
  <2>1. back.pc \in LoopPc /\ back.now \in Nat /\ back.hand \in JobType
        /\ back.then \in {"wait", "drain"}
    BY LoopAt, NoneTypes DEF LoopType, LoopPc
  <2> QED
    BY LoopAt, <2>1 DEF LoopType
<1>2. Back(ls, l) = Put(ls, l, back)
  BY DEF Back, Put
<1>3. Ended(ls[l], back) /\ back.next = ls[l].next
  BY LoopAt DEF Ended, LoopType
<1> HIDE DEF back
<1> QED
  BY <1>1, <1>2, <1>3, LoopSet

LEMMA UpsertedType ==
  ASSUME NEW ls \in Dispatchers, NEW l \in Loop, NEW at \in Nat
  PROVE  /\ Upserted(ls, l, at) \in Dispatchers
         /\ Ended(ls[l], Upserted(ls, l, at)[l])
         /\ Upserted(ls, l, at)[l].next = at
         /\ \A k \in Loop : k # l => Upserted(ls, l, at)[k] = ls[k]
<1> DEFINE b == Back(ls, l)
           x == [b[l] EXCEPT !.next = at]
<1>1. b \in Dispatchers /\ Ended(ls[l], b[l]) /\ \A k \in Loop : k # l => b[k] = ls[k]
  BY BackType
<1>2. Upserted(ls, l, at) = Put(b, l, x)
  BY DEF Upserted, Put
<1> HIDE DEF b
<1>3. x \in LoopType /\ Ended(ls[l], x) /\ x.next = at
  BY <1>1, LoopAt DEF LoopType, Ended
<1> HIDE DEF x
<1> QED
  BY <1>1, <1>2, <1>3, LoopSet

LEMMA FailedType ==
  ASSUME clock \in Nat, NEW a \in AuthType, NEW error \in Errors
  PROVE  /\ Failed(a, error) \in AuthType
         /\ Failed(a, error) = [a EXCEPT !.err = Failed(a, error).err,
                                         !.blocked = Failed(a, error).blocked,
                                         !.after = Failed(a, error).after]
<1> DEFINE f == Failed(a, error)
<1>1. /\ f = [a EXCEPT !.err = f.err, !.blocked = f.blocked, !.after = f.after]
      /\ f.err = error
  BY DEF Failed, AuthType
<1>2. f.after \in Nat
  BY Constants DEF Failed, AuthType, Earliest
<1>3. f.blocked \in BOOLEAN
  BY DEF Failed, AuthType
<1>4. error \in Err
  BY Constants
<1> HIDE DEF f
<1>5. f \in AuthType
  <2> DEFINE x == f.after  y == f.blocked
  <2> HIDE DEF x, y
  <2>1. x \in Nat /\ y \in BOOLEAN
    BY <1>2, <1>3 DEF x, y
  <2>2. f = [a EXCEPT !.err = error, !.blocked = y, !.after = x]
    BY <1>1 DEF x, y
  <2> QED
    BY <1>4, <2>1, <2>2 DEF AuthType
<1> QED
  BY <1>1, <1>5 DEF f

LEMMA MergedType ==
  ASSUME NEW b \in AuthType, NEW c \in AuthType, NEW u \in AuthType
  PROVE  Merged(b, c, u) \in AuthType
  BY DEF Merged, AuthType, Err

\* Only nextRefreshAfter changes.
LEMMA LaterType ==
  ASSUME NEW a \in AuthType, NEW n \in Nat
  PROVE  [a EXCEPT !.after = n] \in AuthType
  BY DEF AuthType


-----------------------------------------------------------------------------
(* What the steps of a dispatcher do to the dispatchers.                   *)

Others(l) == \A k \in Loop : k # l => loops'[k] = loops[k]
\* The others, but for a mark.
OthersMarked(l) ==
  \A k \in Loop : k # l => /\ SameBut(loops'[k], loops[k])
                           /\ loops[k].dirty => loops'[k].dirty
                           /\ loops[k].wake => loops'[k].wake

LEMMA TellFacts ==
  ASSUME TypeOK, NEW ls \in Dispatchers, NEW k \in Loop
  PROVE  /\ SameBut(Marked(ls)[k], ls[k])
         /\ ls[k].dirty => Marked(ls)[k].dirty
         /\ ls[k].wake => Marked(ls)[k].wake
         /\ k = active => Marked(ls)[k].dirty /\ Marked(ls)[k].wake
         /\ Marked(ls) \in Dispatchers
  BY MarkedType DEF TypeOK, MachineTypes

LEMMA FinishFacts ==
  ASSUME TypeOK, NEW job \in JobType, NEW retryAt \in Nat, NEW ls \in Dispatchers,
         FinishRefreshJob(job, retryAt, ls)
  PROVE  /\ pending' \in PendingType
         /\ auth' \in AuthType
         /\ loops' \in Dispatchers
         /\ auth' = auth \/ Write([auth EXCEPT !.after = retryAt])
         /\ pending.job # job => loops' = ls /\ UNCHANGED <<pending, auth, revived>>
         /\ pending.job = job => /\ pending'.job = NoJob /\ ~pending'.running
                                 /\ loops' = Marked(ls)
         /\ auth' = auth => UNCHANGED revived \/ Write(auth)
<1>1. [auth EXCEPT !.after = retryAt] \in AuthType
  BY LaterType DEF TypeOK, CredentialTypes
<1>2. Marked(ls) \in Dispatchers
  BY MarkedType DEF TypeOK, MachineTypes
<1>3. [job |-> NoJob, running |-> FALSE] \in PendingType
  BY NoneTypes DEF PendingType
<1>4. /\ pending \in PendingType
      /\ auth \in AuthType
  BY DEF TypeOK, CredentialTypes, MachineTypes
<1>5. CASE pending.job # job
  BY <1>4, <1>5 DEF FinishRefreshJob
<1>6. CASE pending.job = job
  <2>1. /\ pending' = [job |-> NoJob, running |-> FALSE]
        /\ \/ UNCHANGED <<auth, revived>>
           \/ Write([auth EXCEPT !.after = retryAt])
        /\ loops' = Marked(ls)
    BY <1>6 DEF FinishRefreshJob
  <2>2. /\ auth' = auth \/ Write([auth EXCEPT !.after = retryAt])
        /\ auth' \in AuthType
        /\ auth' = auth => UNCHANGED revived \/ Write(auth)
    BY <1>1, <1>4, <2>1 DEF Write
  <2> QED
    BY <1>2, <1>3, <1>6, <2>1, <2>2
<1> QED
  BY <1>5, <1>6

\* The dispatcher is told to take the credential out.
Removes(x, y) ==
  /\ y.pc = "remove" /\ y.now = x.now /\ y.next = x.next /\ y.dirty = x.dirty
  /\ y.wake = x.wake /\ y.jobs = x.jobs /\ y.hand = x.hand /\ y.then = x.then

LEMMA DecideFacts ==
  ASSUME TypeOK, NEW ls \in Dispatchers, NEW l \in Loop, NEW at \in Nat,
         Decide(ls, l, at)
  PROVE  /\ loops' \in Dispatchers
         /\ Refreshable(auth) => Ended(ls[l], loops'[l]) /\ loops'[l].next = at
         /\ ~Refreshable(auth) => Removes(ls[l], loops'[l]) /\ UNCHANGED revived
         /\ \A k \in Loop : k # l => loops'[k] = ls[k]
         /\ l # active /\ ~revived' => ~revived
<1>1. CASE Refreshable(auth)
  <2>1. /\ loops' \in Dispatchers
        /\ Ended(ls[l], loops'[l]) /\ loops'[l].next = at
        /\ \A k \in Loop : k # l => loops'[k] = ls[k]
    BY <1>1, UpsertedType DEF Decide
  <2>2. revived' = (revived /\ l # active)
    BY <1>1, Zenon DEF Decide
  <2>3. l # active /\ ~revived' => ~revived
    BY <2>2, Zenon
  <2> QED
    BY <1>1, <2>1, <2>3
<1>2. CASE ~Refreshable(auth)
  <2> DEFINE x == [ls[l] EXCEPT !.pc = "remove"]
  <2>1. x \in LoopType
    BY LoopGoes DEF LoopPc
  <2>2. Removes(ls[l], x)
    BY LoopAt DEF LoopType, Removes
  <2>3. loops' = Put(ls, l, x)
    BY <1>2 DEF Decide, Put
  <2>4. UNCHANGED revived
    BY <1>2 DEF Decide
  <2> HIDE DEF x
  <2> QED
    BY <1>2, <2>1, <2>2, <2>3, <2>4, LoopSet
<1> QED
  BY <1>1, <1>2

LEMMA OnlyLoopsTypes ==
  ASSUME TypeOK, OnlyLoops, loops' \in Dispatchers
  PROVE  TypeOK'
  BY DEF TypeOK, CredentialTypes, MachineTypes, In, OnlyLoops, history

LEMMA Looks ==
  ASSUME TypeOK, NEW l \in Loop
  PROVE  /\ NextCheck(auth, clock) \in Nat
         /\ NextCheck(auth, loops[l].now) \in Nat
         /\ loops \in Dispatchers /\ auth \in AuthType /\ pending \in PendingType
         /\ loops[l].now \in Nat /\ clock \in Nat
  BY CheckType, LoopAt DEF TypeOK, CredentialTypes, MachineTypes

LEMMA RebuildStep ==
  ASSUME TypeOK, NEW l \in Loop, Rebuild(l)
  PROVE  /\ TypeOK' /\ Others(l)
         /\ loops[l].pc = "rebuild" /\ loops'[l].pc = "wait"
         /\ loops'[l].next = IF Refreshable(auth) THEN NextCheck(auth, clock) ELSE 0
         /\ loops'[l].jobs = loops[l].jobs /\ loops'[l].hand = loops[l].hand
         /\ loops'[l].then = loops[l].then
         /\ l # active /\ ~revived' => ~revived
         /\ UNCHANGED <<auth, pending>>
<1> DEFINE next == IF Refreshable(auth) THEN NextCheck(auth, clock) ELSE 0
           x == [loops[l] EXCEPT !.pc = "wait", !.next = next]
<1>1. next \in Nat /\ loops \in Dispatchers
  BY Looks
<1>2. loops' = Put(loops, l, x)
  BY DEF Rebuild, Put
<1> HIDE DEF next
<1>3. x \in LoopType /\ x.pc = "wait" /\ x.next = next /\ x.jobs = loops[l].jobs
      /\ x.hand = loops[l].hand /\ x.then = loops[l].then
  <2>1. loops[l] \in LoopType
    BY <1>1, LoopAt
  <2>2. "wait" \in LoopPc
    BY DEF LoopPc
  <2> QED
    BY <1>1, <2>1, <2>2 DEF LoopType
<1> HIDE DEF x
<1>4. loops' \in Dispatchers /\ Others(l) /\ loops'[l] = x
  BY <1>1, <1>2, <1>3, LoopSet DEF Others
<1>5. TypeOK'
  BY <1>4, OnlyLoopsTypes DEF Rebuild
<1> QED
  BY <1>3, <1>4, <1>5 DEF Rebuild, At, next, OnlyLoops

\* The round over the marks is done, or the credential is to be taken out.
LEMMA ApplyDirtyStep ==
  ASSUME TypeOK, NEW l \in Loop, ApplyDirty(l)
  PROVE  /\ TypeOK' /\ Others(l)
         /\ \/ loops[l].pc = "wait" /\ loops[l].wake
            \/ loops[l].pc = "drain"
         /\ \/ /\ loops'[l].pc = loops[l].then /\ loops'[l].then = "wait"
               /\ loops'[l].hand = NoJob
               /\ loops[l].then = "drain" =>
                    loops'[l].now = loops[l].now
            \/ /\ loops'[l].pc = "remove" /\ loops'[l].then = loops[l].then
               /\ loops'[l].hand = loops[l].hand /\ loops'[l].now = loops[l].now
         /\ loops'[l].jobs = loops[l].jobs
         /\ Refreshable(auth) /\ ~loops[l].dirty =>
               /\ loops'[l].pc = loops[l].then
               /\ loops'[l].next = loops[l].next /\ UNCHANGED revived
         /\ Refreshable(auth) /\ loops[l].dirty =>
               /\ loops'[l].pc = loops[l].then
               /\ loops'[l].next = NextCheck(auth, IF loops[l].pc = "wait" /\ loops[l].wake
                                                   THEN clock ELSE loops[l].now)
         /\ ~Refreshable(auth) => UNCHANGED revived
         /\ l # active /\ ~revived' => ~revived
         /\ UNCHANGED <<auth, pending>>
<1> DEFINE woken == At(l, "wait") /\ loops[l].wake
           now == IF woken THEN clock ELSE loops[l].now
           x == [loops[l] EXCEPT !.dirty = FALSE, !.wake = ~woken /\ @]
           ls == [loops EXCEPT ![l].dirty = FALSE, ![l].wake = ~woken /\ @]
<1>1. /\ x \in LoopType
      /\ x.pc = loops[l].pc /\ x.now = loops[l].now /\ x.next = loops[l].next
      /\ x.jobs = loops[l].jobs /\ x.hand = loops[l].hand /\ x.then = loops[l].then
  BY Looks, LoopAt DEF LoopType
<1>2. ls = Put(loops, l, x)
  BY DEF Put
<1>3. /\ woken \/ At(l, "drain")
      /\ loops[l].dirty => Decide(ls, l, NextCheck(auth, now))
      /\ ~loops[l].dirty => loops' = Back(ls, l) /\ UNCHANGED revived
      /\ OnlyLoops
  BY DEF ApplyDirty
<1>4. NextCheck(auth, now) \in Nat
  BY Looks
<1> HIDE DEF ls, x
<1>5. ls \in Dispatchers /\ ls[l] = x /\ \A k \in Loop : k # l => ls[k] = loops[k]
  BY <1>1, <1>2, LoopSet, Looks
<1>6. CASE loops[l].dirty
  <2>1. /\ loops' \in Dispatchers
        /\ Refreshable(auth) => Ended(x, loops'[l]) /\ loops'[l].next = NextCheck(auth, now)
        /\ ~Refreshable(auth) => Removes(x, loops'[l]) /\ UNCHANGED revived
        /\ \A k \in Loop : k # l => loops'[k] = ls[k]
        /\ l # active /\ ~revived' => ~revived
    <3> HIDE DEF now
    <3> QED
      BY <1>3, <1>4, <1>5, <1>6, DecideFacts
  <2>2. TypeOK'
    BY <1>3, <2>1, OnlyLoopsTypes
  <2> QED
    BY <1>1, <1>3, <1>5, <1>6, <2>1, <2>2 DEF Others, Ended, Removes, At, OnlyLoops
<1>7. CASE ~loops[l].dirty
  <2>1. /\ loops' \in Dispatchers
        /\ Ended(x, loops'[l]) /\ loops'[l].next = x.next
        /\ \A k \in Loop : k # l => loops'[k] = ls[k]
        /\ UNCHANGED revived
    BY <1>3, <1>5, <1>7, BackType
  <2>2. TypeOK'
    BY <1>3, <2>1, OnlyLoopsTypes
  <2> QED
    BY <1>1, <1>3, <1>5, <1>7, <2>1, <2>2 DEF Others, Ended, At, OnlyLoops
<1> QED
  BY <1>6, <1>7


LEMMA HandleDueStep ==
  ASSUME TypeOK, NEW l \in Loop, HandleDueAuth(l)
  PROVE  /\ TypeOK' /\ Others(l)
         /\ loops[l].pc = "wait" /\ loops[l].next \in 1..clock
         /\ loops'[l].now = clock
         /\ loops'[l].jobs = loops[l].jobs
         /\ \/ /\ ~Refreshable(auth) /\ loops'[l].pc = "drain" /\ loops'[l].then = "wait"
               /\ loops'[l].hand = NoJob /\ UNCHANGED revived
            \/ /\ Refreshable(auth)
               /\ loops'[l].pc = "mark" /\ loops'[l].then = "drain"
               /\ loops'[l].hand.loop = l /\ UNCHANGED revived
            \/ /\ Refreshable(auth)
               /\ loops'[l].pc = "drain" /\ loops'[l].then = "wait"
               /\ loops'[l].hand = NoJob
               /\ loops'[l].next = NextCheck(auth, clock)
            \/ /\ ~Refreshable(auth)
               /\ loops'[l].pc = "remove" /\ loops'[l].then = "drain"
               /\ loops'[l].hand = loops[l].hand /\ UNCHANGED revived
         /\ l # active /\ ~revived' => ~revived
         /\ UNCHANGED <<auth, pending>>
<1> DEFINE x == [loops[l] EXCEPT !.next = 0, !.now = clock, !.then = "drain"]
           job == [epoch |-> auth.epoch, until |-> clock + Pending, loop |-> l]
           y == [x EXCEPT !.pc = "mark", !.hand = job]
           ls == [loops EXCEPT ![l].next = 0, ![l].now = clock, ![l].then = "drain"]
           marking == [ls EXCEPT ![l].pc = "mark", ![l].hand = job]
<1>1. /\ x \in LoopType
      /\ x.pc = loops[l].pc /\ x.now = clock /\ x.then = "drain"
      /\ x.jobs = loops[l].jobs /\ x.hand = loops[l].hand
  BY Looks, LoopAt DEF LoopType
<1>2. ls = Put(loops, l, x)
  BY DEF Put
<1>3. job \in JobType /\ job.loop = l
  BY Constants, Looks DEF JobType, AuthType
<1> HIDE DEF job, x
<1>4. y \in LoopType /\ y.pc = "mark" /\ y.hand = job /\ y.then = "drain"
      /\ y.now = clock /\ y.jobs = loops[l].jobs
  BY <1>1, <1>3 DEF LoopType, LoopPc
<1> HIDE DEF ls
<1>5. ls \in Dispatchers /\ ls[l] = x /\ \A k \in Loop : k # l => ls[k] = loops[k]
  BY <1>1, <1>2, LoopSet, Looks
<1>6. marking = Put(ls, l, y)
  BY <1>5 DEF Put
<1> HIDE DEF y, marking
<1>7. /\ marking \in Dispatchers /\ marking[l] = y
      /\ \A k \in Loop : k # l => marking[k] = loops[k]
  BY <1>4, <1>5, <1>6, LoopSet
<1>8. /\ loops[l].pc = "wait" /\ loops[l].next \in 1..clock
      /\ OnlyLoops
      /\ \/ ~Refreshable(auth) /\ loops' = Back(ls, l) /\ UNCHANGED revived
         \/ Refreshable(auth) /\ loops' = marking /\ UNCHANGED revived
         \/ Decide(ls, l, NextCheck(auth, clock))
  BY DEF HandleDueAuth, At, ls, x, job, marking, Refreshable
<1>9. CASE loops' = Back(ls, l) /\ ~Refreshable(auth) /\ UNCHANGED revived
  <2>1. /\ loops' \in Dispatchers /\ Ended(x, loops'[l])
        /\ \A k \in Loop : k # l => loops'[k] = ls[k]
    BY <1>5, <1>9, BackType
  <2>2. TypeOK'
    BY <1>8, <2>1, OnlyLoopsTypes
  <2> QED
    BY <1>1, <1>5, <1>8, <1>9, <2>1, <2>2 DEF Ended, Others, OnlyLoops
<1>10. CASE loops' = marking /\ Refreshable(auth) /\ UNCHANGED revived
  <2>1. TypeOK'
    BY <1>7, <1>8, <1>10, OnlyLoopsTypes
  <2> QED
    BY <1>3, <1>4, <1>7, <1>8, <1>10, <2>1 DEF Others, OnlyLoops
<1>11. CASE Decide(ls, l, NextCheck(auth, clock))
  <2>1. /\ loops' \in Dispatchers
        /\ Refreshable(auth) => Ended(x, loops'[l]) /\ loops'[l].next = NextCheck(auth, clock)
        /\ ~Refreshable(auth) => Removes(x, loops'[l]) /\ UNCHANGED revived
        /\ \A k \in Loop : k # l => loops'[k] = ls[k]
        /\ l # active /\ ~revived' => ~revived
    BY <1>5, <1>11, Looks, DecideFacts
  <2>2. TypeOK'
    BY <1>8, <2>1, OnlyLoopsTypes
  <2> QED
    BY <1>1, <1>5, <1>8, <2>1, <2>2 DEF Ended, Removes, Others, OnlyLoops
<1> QED
  BY <1>8, <1>9, <1>10, <1>11

LEMMA MarkStep ==
  ASSUME TypeOK, NEW l \in Loop, MarkRefreshPending(l)
  PROVE  /\ TypeOK' /\ OthersMarked(l)
         /\ loops[l].pc = "mark"
         /\ loops'[l].jobs = loops[l].jobs /\ loops'[l].hand = loops[l].hand
         /\ loops'[l].then = loops[l].then /\ loops'[l].now = loops[l].now
         /\ \/ /\ Refreshable(auth) /\ pending.job = NoJob
               /\ pending' = [job |-> loops[l].hand, running |-> FALSE]
               /\ Write([auth EXCEPT !.after = loops[l].hand.until])
               /\ loops'[l].pc = "send"
               /\ l = active => loops'[l].dirty
               /\ \A k \in Loop : k = active => loops'[k].dirty /\ loops'[k].wake
            \/ /\ UNCHANGED <<pending, auth, revived>>
               /\ loops'[l].pc = "again" /\ Others(l)
<1>1. /\ loops \in Dispatchers /\ Marked(loops) \in Dispatchers
      /\ \A k \in Loop : /\ SameBut(Marked(loops)[k], loops[k])
                         /\ loops[k].dirty => Marked(loops)[k].dirty
                         /\ loops[k].wake => Marked(loops)[k].wake
                         /\ k = active => Marked(loops)[k].dirty /\ Marked(loops)[k].wake
  BY Looks, TellFacts
<1> DEFINE job == loops[l].hand
           m == Marked(loops)
           x == [m[l] EXCEPT !.pc = "send"]
           y == [loops[l] EXCEPT !.pc = "again"]
<1>2. /\ loops[l].pc = "mark"
      /\ \/ /\ Refreshable(auth) /\ pending.job = NoJob
            /\ pending' = [job |-> job, running |-> FALSE]
            /\ Write([auth EXCEPT !.after = job.until])
            /\ loops' = Put(m, l, x)
         \/ loops' = Put(loops, l, y) /\ UNCHANGED <<pending, auth, revived>>
      /\ UNCHANGED <<clock, epochs, active, refreshers, editor, history>>
  BY DEF MarkRefreshPending, At, Goto, Put
<1> HIDE DEF m
<1>3. /\ x \in LoopType /\ x.pc = "send"
      /\ x.jobs = m[l].jobs /\ x.hand = m[l].hand /\ x.then = m[l].then
      /\ x.now = m[l].now /\ x.dirty = m[l].dirty /\ x.wake = m[l].wake
  BY <1>1, LoopAt DEF LoopType, LoopPc, m
<1>4. /\ y \in LoopType /\ y.pc = "again"
      /\ y.jobs = loops[l].jobs /\ y.hand = loops[l].hand /\ y.then = loops[l].then
      /\ y.now = loops[l].now
  BY <1>1, LoopAt DEF LoopType, LoopPc
<1> HIDE DEF x, y
<1>5. job \in JobType /\ job.until \in Nat
  BY <1>1, LoopAt DEF JobType
<1> HIDE DEF job
<1>6. CASE /\ Refreshable(auth) /\ pending.job = NoJob
           /\ pending' = [job |-> job, running |-> FALSE]
           /\ Write([auth EXCEPT !.after = job.until])
           /\ loops' = Put(m, l, x)
  <2>1. /\ loops' \in Dispatchers /\ loops'[l] = x
        /\ \A k \in Loop : k # l => loops'[k] = m[k]
    BY <1>1, <1>3, <1>6, LoopSet DEF m
  <2>2. pending' \in PendingType
    BY <1>5, <1>6 DEF PendingType
  <2>3. auth' \in AuthType
    BY <1>5, <1>6, LaterType DEF Write, TypeOK, CredentialTypes
  <2>4. TypeOK'
    BY <1>2, <2>1, <2>2, <2>3 DEF TypeOK, CredentialTypes, MachineTypes, In, history
  <2>5. OthersMarked(l)
    BY <1>1, <2>1 DEF OthersMarked, m
  <2>6. /\ loops'[l].jobs = loops[l].jobs /\ loops'[l].hand = loops[l].hand
        /\ loops'[l].then = loops[l].then /\ loops'[l].now = loops[l].now
        /\ loops'[l].pc = "send"
    BY <1>1, <1>3, <2>1 DEF SameBut, m
  <2>7. \A k \in Loop : k = active => loops'[k].dirty /\ loops'[k].wake
    BY <1>1, <1>3, <2>1 DEF m
  <2> QED
    BY <1>2, <1>6, <2>4, <2>5, <2>6, <2>7 DEF job
<1>7. CASE loops' = Put(loops, l, y) /\ UNCHANGED <<pending, auth, revived>>
  <2>1. /\ loops' \in Dispatchers /\ loops'[l] = y /\ Others(l)
    BY <1>1, <1>4, <1>7, LoopSet DEF Others
  <2>2. TypeOK'
    BY <1>2, <1>7, <2>1 DEF TypeOK, CredentialTypes, MachineTypes, In, history
  <2>3. OthersMarked(l)
    BY <2>1 DEF OthersMarked, Others, SameBut
  <2> QED
    BY <1>2, <1>4, <1>7, <2>1, <2>2, <2>3
<1> QED
  BY <1>2, <1>6, <1>7

LEMMA LookAgainStep ==
  ASSUME TypeOK, NEW l \in Loop, LookAgain(l)
  PROVE  /\ TypeOK' /\ Others(l)
         /\ loops[l].pc = "again"
         /\ loops'[l].jobs = loops[l].jobs
         /\ \/ /\ Refreshable(auth)
               /\ loops'[l].pc = loops[l].then /\ loops'[l].then = "wait"
               /\ loops'[l].hand = NoJob
               /\ loops[l].then = "drain" => loops'[l].now = loops[l].now
               /\ LET next == NextCheck(auth, loops[l].now)
                  IN loops'[l].next = IF next > loops[l].now THEN next
                                      ELSE loops[l].now + Interval
            \/ /\ ~Refreshable(auth) /\ loops'[l].pc = "remove"
               /\ loops'[l].then = loops[l].then
               /\ loops'[l].hand = loops[l].hand /\ loops'[l].now = loops[l].now
               /\ UNCHANGED revived
         /\ l # active /\ ~revived' => ~revived
         /\ UNCHANGED <<auth, pending>>
<1> DEFINE next == NextCheck(auth, loops[l].now)
           at == IF next > loops[l].now THEN next ELSE loops[l].now + Interval
<1>1. next \in Nat /\ loops[l].now + Interval \in Nat /\ loops \in Dispatchers
  BY Looks, Constants
<1>2. loops[l].pc = "again" /\ Decide(loops, l, at) /\ OnlyLoops
  BY DEF LookAgain, At
<1> HIDE DEF next
<1>3. at \in Nat
  BY <1>1
<1> HIDE DEF at
<1>4. /\ loops' \in Dispatchers
      /\ Refreshable(auth) => Ended(loops[l], loops'[l]) /\ loops'[l].next = at
      /\ ~Refreshable(auth) => Removes(loops[l], loops'[l]) /\ UNCHANGED revived
      /\ \A k \in Loop : k # l => loops'[k] = loops[k]
      /\ l # active /\ ~revived' => ~revived
  BY <1>1, <1>2, <1>3, DecideFacts
<1>5. TypeOK'
  BY <1>2, <1>4, OnlyLoopsTypes
<1> QED
  BY <1>2, <1>4, <1>5 DEF Others, Ended, Removes, at, next, OnlyLoops

LEMMA SendStep ==
  ASSUME TypeOK, NEW l \in Loop, SendJob(l)
  PROVE  /\ TypeOK' /\ Others(l)
         /\ loops[l].pc = "send" /\ loops'[l].pc = "drain"
         /\ loops'[l].jobs = loops[l].hand /\ loops'[l].hand = NoJob
         /\ loops'[l].then = "wait" /\ loops'[l].now = loops[l].now
         /\ loops'[l].dirty = loops[l].dirty
         /\ UNCHANGED <<pending, auth, revived>>
<1> DEFINE x == [loops[l] EXCEPT !.pc = "drain", !.jobs = loops[l].hand, !.hand = NoJob,
                                 !.then = "wait"]
<1>1. /\ x \in LoopType /\ x.pc = "drain" /\ x.jobs = loops[l].hand /\ x.hand = NoJob
      /\ x.then = "wait" /\ x.now = loops[l].now /\ x.dirty = loops[l].dirty
  BY NoneTypes, Looks, LoopAt DEF LoopType, LoopPc
<1>2. loops' = Put(loops, l, x)
  BY DEF SendJob, Put
<1> HIDE DEF x
<1>3. loops' \in Dispatchers /\ Others(l) /\ loops'[l] = x
  BY <1>1, <1>2, Looks, LoopSet DEF Others
<1>4. OnlyLoops /\ UNCHANGED revived /\ loops[l].pc = "send"
  BY DEF SendJob, At
<1>5. TypeOK'
  BY <1>3, <1>4, OnlyLoopsTypes
<1> QED
  BY <1>1, <1>3, <1>4, <1>5 DEF OnlyLoops

LEMMA GiveBackStep ==
  ASSUME TypeOK, NEW l \in Loop, GiveBackJob(l)
  PROVE  /\ TypeOK' /\ OthersMarked(l)
         /\ loops[l].pc = "send"
         /\ loops'[l].pc = loops[l].then /\ loops'[l].then = "wait"
         /\ loops'[l].hand = NoJob /\ loops'[l].jobs = loops[l].jobs
         /\ loops[l].then = "drain" => loops'[l].now = loops[l].now
         /\ \/ pending.job # loops[l].hand /\ UNCHANGED <<pending, auth, revived>>
            \/ /\ pending.job = loops[l].hand /\ pending'.job = NoJob /\ ~pending'.running
               /\ l = active => loops'[l].dirty /\ loops'[l].wake
               /\ auth' = auth \/ auth' = [auth EXCEPT !.after = loops[l].now + Interval]
               /\ \A k \in Loop : k = active => loops'[k].dirty /\ loops'[k].wake
         /\ loops[l].dirty => loops'[l].dirty
         /\ loops[l].wake => loops'[l].wake
<1> DEFINE at == loops[l].now + Interval
           ls == Upserted(loops, l, at)
<1>1. at \in Nat /\ loops[l].hand \in JobType /\ loops \in Dispatchers
  BY Constants, Looks, LoopAt
<1>2. /\ loops[l].pc = "send"
      /\ FinishRefreshJob(loops[l].hand, at, ls)
      /\ UNCHANGED <<clock, epochs, active, refreshers, editor, history>>
  BY DEF GiveBackJob, At
<1> HIDE DEF at
<1>3. /\ ls \in Dispatchers /\ Ended(loops[l], ls[l])
      /\ \A k \in Loop : k # l => ls[k] = loops[k]
  BY <1>1, UpsertedType
<1> HIDE DEF ls
<1>4. /\ pending' \in PendingType /\ auth' \in AuthType /\ loops' \in Dispatchers
      /\ auth' = auth \/ Write([auth EXCEPT !.after = at])
      /\ pending.job # loops[l].hand => loops' = ls /\ UNCHANGED <<pending, auth, revived>>
      /\ pending.job = loops[l].hand => /\ pending'.job = NoJob /\ ~pending'.running
                                        /\ loops' = Marked(ls)
  BY <1>1, <1>2, <1>3, FinishFacts
<1>5. TypeOK'
  BY <1>2, <1>4 DEF TypeOK, CredentialTypes, MachineTypes, In, history
<1>6. \A k \in Loop : /\ SameBut(loops'[k], ls[k])
                      /\ ls[k].dirty => loops'[k].dirty
                      /\ ls[k].wake => loops'[k].wake
                      /\ pending.job = loops[l].hand /\ k = active
                           => loops'[k].dirty /\ loops'[k].wake
  BY <1>3, <1>4, TellFacts DEF SameBut
<1>7. OthersMarked(l)
  BY <1>3, <1>6 DEF OthersMarked
<1>8. /\ loops'[l].pc = loops[l].then /\ loops'[l].then = "wait"
      /\ loops'[l].hand = NoJob /\ loops'[l].jobs = loops[l].jobs
      /\ loops[l].then = "drain" => loops'[l].now = loops[l].now
      /\ loops[l].dirty => loops'[l].dirty
      /\ loops[l].wake => loops'[l].wake
  BY <1>3, <1>6 DEF Ended, SameBut
<1>9. auth' = auth \/ auth' = [auth EXCEPT !.after = at]
  BY <1>4 DEF Write
<1> QED
  BY <1>2, <1>4, <1>5, <1>6, <1>7, <1>8, <1>9 DEF at


LEMMA RemoveStep ==
  ASSUME TypeOK, NEW l \in Loop, Remove(l)
  PROVE  /\ TypeOK' /\ Others(l)
         /\ loops[l].pc = "remove"
         /\ loops'[l].pc = loops[l].then /\ loops'[l].then = "wait"
         /\ loops'[l].hand = NoJob /\ loops'[l].jobs = loops[l].jobs
         /\ loops[l].then = "drain" => loops'[l].now = loops[l].now
         /\ UNCHANGED <<pending, auth>>
         /\ TakenOut(l)
<1> DEFINE ls == Removed(loops, l)
<1>1. /\ ls \in Dispatchers
      /\ ls[l] = [loops[l] EXCEPT !.next = 0, !.dirty = FALSE]
      /\ \A k \in Loop : k # l => ls[k] = loops[k]
  BY Looks, RemovedType
<1>2. loops' = Back(ls, l) /\ OnlyLoops /\ loops[l].pc = "remove" /\ TakenOut(l)
  BY DEF Remove, At
<1>3. /\ ls[l].pc = loops[l].pc /\ ls[l].then = loops[l].then /\ ls[l].now = loops[l].now
      /\ ls[l].jobs = loops[l].jobs
  BY <1>1, Looks, LoopAt DEF LoopType
<1> HIDE DEF ls
<1>4. /\ loops' \in Dispatchers /\ Ended(ls[l], loops'[l])
      /\ \A k \in Loop : k # l => loops'[k] = ls[k]
  BY <1>1, <1>2, BackType
<1>5. TypeOK'
  BY <1>2, <1>4, OnlyLoopsTypes
<1> QED
  BY <1>1, <1>2, <1>3, <1>4, <1>5 DEF Ended, Others, OnlyLoops

LEMMA LoopEndsStep ==
  ASSUME TypeOK, NEW l \in Loop, LoopEnds(l)
  PROVE  /\ TypeOK' /\ Others(l)
         /\ loops[l].pc = "wait" /\ l \in ended
         /\ loops'[l].jobs = loops[l].jobs /\ loops'[l].then = loops[l].then
         /\ \/ /\ pending.job.loop = l /\ ~pending.running
               /\ loops'[l].pc = "release" /\ loops'[l].hand = pending.job
            \/ /\ ~(pending.job.loop = l /\ ~pending.running)
               /\ loops'[l].pc = "end" /\ loops'[l].hand = loops[l].hand
         /\ UNCHANGED <<pending, auth, revived>>
<1> DEFINE x == [loops[l] EXCEPT !.pc = "release", !.hand = pending.job]
           y == [loops[l] EXCEPT !.pc = "end"]
<1>1. pending.job \in JobType /\ loops[l] \in LoopType
  BY Looks, LoopAt DEF PendingType
<1>2. /\ x \in LoopType /\ x.pc = "release" /\ x.hand = pending.job
      /\ x.jobs = loops[l].jobs /\ x.then = loops[l].then
  BY <1>1 DEF LoopType, LoopPc
<1>3. /\ y \in LoopType /\ y.pc = "end" /\ y.hand = loops[l].hand
      /\ y.jobs = loops[l].jobs /\ y.then = loops[l].then
  BY <1>1 DEF LoopType, LoopPc
<1>4. /\ \/ pending.job.loop = l /\ ~pending.running /\ loops' = Put(loops, l, x)
         \/ ~(pending.job.loop = l /\ ~pending.running) /\ loops' = Put(loops, l, y)
      /\ OnlyLoops /\ UNCHANGED revived /\ loops[l].pc = "wait" /\ l \in ended
  BY DEF LoopEnds, Put, Goto, At
<1> HIDE DEF x, y
<1>5. /\ loops' \in Dispatchers /\ Others(l)
      /\ \/ pending.job.loop = l /\ ~pending.running /\ loops'[l] = x
         \/ ~(pending.job.loop = l /\ ~pending.running) /\ loops'[l] = y
  BY <1>2, <1>3, <1>4, Looks, LoopSet DEF Others
<1>6. TypeOK'
  BY <1>4, <1>5, OnlyLoopsTypes
<1> QED
  BY <1>2, <1>3, <1>4, <1>5, <1>6 DEF OnlyLoops

LEMMA ReleaseStep ==
  ASSUME TypeOK, NEW l \in Loop, ReleaseQueuedJob(l)
  PROVE  /\ TypeOK' /\ OthersMarked(l)
         /\ loops[l].pc = "release" /\ loops'[l].pc = "end"
         /\ loops'[l].hand = NoJob /\ loops'[l].jobs = loops[l].jobs
         /\ loops'[l].then = loops[l].then
         /\ \/ /\ pending.job # loops[l].hand \/ pending.running
               /\ UNCHANGED <<pending, auth, revived>>
            \/ /\ pending.job = loops[l].hand /\ pending'.job = NoJob /\ ~pending'.running
               /\ auth' = auth \/ auth' = [auth EXCEPT !.after = 0]
               /\ \A k \in Loop : k = active => loops'[k].dirty /\ loops'[k].wake
<1> DEFINE x == [loops[l] EXCEPT !.pc = "end", !.hand = NoJob]
           ls == [loops EXCEPT ![l].pc = "end", ![l].hand = NoJob]
<1>1. x \in LoopType /\ x.pc = "end" /\ x.hand = NoJob /\ x.jobs = loops[l].jobs
      /\ x.then = loops[l].then
  BY NoneTypes, Looks, LoopAt DEF LoopType, LoopPc
<1>2. ls = Put(loops, l, x)
  BY DEF Put
<1>3. /\ loops[l].pc = "release"
      /\ \/ pending.running /\ loops' = ls /\ UNCHANGED <<pending, auth, revived>>
         \/ FinishRefreshJob(loops[l].hand, 0, ls)
      /\ UNCHANGED <<clock, epochs, active, refreshers, editor, history>>
  BY DEF ReleaseQueuedJob, At
<1> HIDE DEF ls, x
<1>4. /\ ls \in Dispatchers /\ ls[l] = x /\ \A k \in Loop : k # l => ls[k] = loops[k]
      /\ loops[l].hand \in JobType
  <2>1. loops \in Dispatchers
    BY Looks
  <2>2. loops[l].hand \in JobType
    BY <2>1, LoopAt
  <2> QED
    BY <1>1, <1>2, <2>1, <2>2, LoopSet
<1>5. CASE pending.running /\ loops' = ls /\ UNCHANGED <<pending, auth, revived>>
  <2>1. TypeOK'
    BY <1>3, <1>4, <1>5 DEF TypeOK, CredentialTypes, MachineTypes, In, history
  <2>2. OthersMarked(l)
    BY <1>4, <1>5 DEF OthersMarked, SameBut
  <2> QED
    BY <1>1, <1>3, <1>4, <1>5, <2>1, <2>2
<1>6. CASE FinishRefreshJob(loops[l].hand, 0, ls)
  <2>1. /\ pending' \in PendingType /\ auth' \in AuthType /\ loops' \in Dispatchers
        /\ auth' = auth \/ Write([auth EXCEPT !.after = 0])
        /\ pending.job # loops[l].hand => loops' = ls /\ UNCHANGED <<pending, auth, revived>>
        /\ pending.job = loops[l].hand => /\ pending'.job = NoJob /\ ~pending'.running
                                          /\ loops' = Marked(ls)
    BY <1>4, <1>6, FinishFacts
  <2>2. TypeOK'
    BY <1>3, <2>1 DEF TypeOK, CredentialTypes, MachineTypes, In, history
  <2>3. \A k \in Loop : /\ SameBut(loops'[k], ls[k])
                        /\ ls[k].dirty => loops'[k].dirty
                        /\ ls[k].wake => loops'[k].wake
                        /\ pending.job = loops[l].hand /\ k = active
                             => loops'[k].dirty /\ loops'[k].wake
    BY <1>4, <2>1, TellFacts DEF SameBut
  <2>4. OthersMarked(l)
    BY <1>4, <2>3 DEF OthersMarked
  <2>5. /\ loops'[l].pc = "end" /\ loops'[l].hand = NoJob /\ loops'[l].jobs = loops[l].jobs
        /\ loops'[l].then = loops[l].then
    BY <1>1, <1>4, <2>3 DEF SameBut
  <2> QED
    BY <1>3, <2>1, <2>2, <2>3, <2>4, <2>5 DEF Write
<1> QED
  BY <1>3, <1>5, <1>6

LEMMA DispatcherTypes ==
  ASSUME TypeOK, NEW l \in Loop, Dispatcher(l)
  PROVE  TypeOK'
  BY RebuildStep, ApplyDirtyStep, HandleDueStep, MarkStep, LookAgainStep, SendStep,
     GiveBackStep, RemoveStep, LoopEndsStep, ReleaseStep
  DEF Dispatcher

-----------------------------------------------------------------------------
(* What a refresh does to the refreshers.                                  *)

PutR(rs, r, x) == [rs EXCEPT ![r] = x]
OthersR(r) == \A q \in Refresher : q # r => refreshers'[q] = refreshers[q]

LEMMA RefresherSet ==
  ASSUME NEW rs \in Refreshers, NEW r \in Refresher, NEW x \in RefresherType
  PROVE  /\ PutR(rs, r, x) \in Refreshers
         /\ PutR(rs, r, x)[r] = x
         /\ \A q \in Refresher : q # r => PutR(rs, r, x)[q] = rs[q]
  BY DEF Refreshers, PutR

LEMMA RefresherAt ==
  ASSUME TypeOK, NEW r \in Refresher
  PROVE  /\ refreshers \in Refreshers /\ refreshers[r] \in RefresherType
         /\ refreshers[r].pc \in RefresherPc /\ refreshers[r].job \in JobType
         /\ refreshers[r].base \in AuthType /\ refreshers[r].got \in AuthType
         /\ refreshers[r].failed \in Nat
  BY DEF TypeOK, MachineTypes, Refreshers, RefresherType

LEMMA GoStep ==
  ASSUME TypeOK, NEW r \in Refresher, NEW pc \in RefresherPc, Go(r, pc)
  PROVE  /\ refreshers' \in Refreshers /\ OthersR(r)
         /\ refreshers'[r].pc = pc /\ refreshers'[r].job = refreshers[r].job
         /\ refreshers'[r].base = refreshers[r].base
<1> DEFINE x == [refreshers[r] EXCEPT !.pc = pc]
<1>1. x \in RefresherType /\ x.pc = pc /\ x.job = refreshers[r].job
      /\ x.base = refreshers[r].base
  BY RefresherAt DEF RefresherType
<1>2. refreshers' = PutR(refreshers, r, x)
  BY DEF Go, PutR
<1> HIDE DEF x
<1>3. refreshers \in Refreshers
  BY RefresherAt
<1>4. /\ refreshers' \in Refreshers /\ refreshers'[r] = x
      /\ \A q \in Refresher : q # r => refreshers'[q] = refreshers[q]
  BY <1>1, <1>2, <1>3, RefresherSet
<1> QED
  BY <1>1, <1>4 DEF OthersR

LEMMA ReturnStep ==
  ASSUME TypeOK, NEW r \in Refresher, Return(r)
  PROVE  /\ refreshers' \in Refreshers /\ OthersR(r)
         /\ refreshers'[r].pc = After(r) /\ refreshers'[r].job = refreshers[r].job
         /\ holder' = 0
<1> DEFINE x == [IdleRefresher EXCEPT !.pc = After(r), !.job = refreshers[r].job]
<1>1. x \in RefresherType /\ x.pc = After(r) /\ x.job = refreshers[r].job
  BY NoneTypes, RefresherAt DEF RefresherType, RefresherPc, After
<1>2. refreshers' = PutR(refreshers, r, x) /\ holder' = 0
  BY DEF Return, PutR
<1> HIDE DEF x
<1> QED
  BY <1>1, <1>2, RefresherAt, RefresherSet DEF OthersR


LEMMA WorkerTakesStep ==
  ASSUME TypeOK, NEW l \in Loop, WorkerTakes(l)
  PROVE  /\ TypeOK' /\ Others(l) /\ OthersR(l)
         /\ refreshers[l].pc = "idle" /\ refreshers'[l].pc = "begin"
         /\ loops[l].jobs # NoJob /\ refreshers'[l].job = loops[l].jobs
         /\ loops'[l].pc = loops[l].pc /\ loops'[l].hand = loops[l].hand
         /\ loops'[l].now = loops[l].now /\ loops'[l].next = loops[l].next
         /\ loops'[l].then = loops[l].then /\ loops'[l].dirty = loops[l].dirty
         /\ loops'[l].wake = loops[l].wake /\ loops'[l].jobs = NoJob
         /\ UNCHANGED <<auth, pending, revived>>
<1> DEFINE x == [refreshers[l] EXCEPT !.pc = "begin", !.job = loops[l].jobs]
           y == [loops[l] EXCEPT !.jobs = NoJob]
<1>1. /\ In(l, "idle") /\ loops[l].jobs # NoJob
      /\ refreshers' = PutR(refreshers, l, x) /\ loops' = Put(loops, l, y)
      /\ OnlyRefresher /\ UNCHANGED <<events, auth, pending, holder, history, revived>>
  BY DEF WorkerTakes, Put, PutR
<1>2. l \in Refresher /\ loops \in Dispatchers /\ loops[l] \in LoopType
      /\ loops[l].jobs \in JobType
  BY Constants, Looks, LoopAt
<1>3. x \in RefresherType /\ x.pc = "begin" /\ x.job = loops[l].jobs
  BY <1>2, RefresherAt DEF RefresherType, RefresherPc
<1>4. /\ y \in LoopType /\ y.jobs = NoJob
      /\ y.pc = loops[l].pc /\ y.hand = loops[l].hand /\ y.now = loops[l].now
      /\ y.next = loops[l].next /\ y.then = loops[l].then /\ y.dirty = loops[l].dirty
      /\ y.wake = loops[l].wake
  BY <1>2, NoneTypes DEF LoopType
<1> HIDE DEF x, y
<1>5. /\ loops' \in Dispatchers /\ Others(l) /\ loops'[l] = y
      /\ refreshers' \in Refreshers /\ OthersR(l) /\ refreshers'[l] = x
  BY <1>1, <1>2, <1>3, <1>4, LoopSet, RefresherAt, RefresherSet DEF Others, OthersR
<1>6. TypeOK'
  BY <1>1, <1>3, <1>5 DEF TypeOK, CredentialTypes, MachineTypes, In, OnlyRefresher, history, OthersR
<1> QED
  BY <1>1, <1>3, <1>4, <1>5, <1>6 DEF In

LEMMA WorkerExitsStep ==
  ASSUME TypeOK, NEW l \in Loop, WorkerExits(l)
  PROVE  /\ TypeOK' /\ OthersR(l)
         /\ refreshers[l].pc = "idle" /\ refreshers'[l].pc = "done"
         /\ refreshers'[l].job = refreshers[l].job
         /\ UNCHANGED <<auth, pending, loops, revived>>
<1>1. /\ In(l, "idle") /\ Go(l, "done")
      /\ OnlyRefresher /\ UNCHANGED <<events, auth, pending, loops, holder, history, revived>>
  BY DEF WorkerExits
<1>2. /\ refreshers' \in Refreshers /\ OthersR(l)
      /\ refreshers'[l].pc = "done" /\ refreshers'[l].job = refreshers[l].job
  BY <1>1, GoStep, Constants DEF RefresherPc
<1>3. TypeOK'
  BY <1>1, <1>2 DEF TypeOK, CredentialTypes, MachineTypes, In, OnlyRefresher, history, OthersR
<1> QED
  BY <1>1, <1>2, <1>3 DEF In

LEMMA BeginStep ==
  ASSUME TypeOK, NEW l \in Loop, BeginRefreshJob(l)
  PROVE  /\ TypeOK' /\ OthersR(l)
         /\ refreshers[l].pc = "begin"
         /\ refreshers'[l].job = refreshers[l].job
         /\ refreshers'[l].pc \in {"lock", "finish"}
         /\ pending'.job = pending.job
         /\ pending'.running => pending.running \/ pending.job = refreshers[l].job
         /\ UNCHANGED <<auth, loops, revived>>
<1>1. /\ In(l, "begin")
      /\ \/ /\ pending.job = refreshers[l].job
            /\ pending' = [pending EXCEPT !.running = TRUE] /\ Go(l, "lock")
         \/ Go(l, "finish") /\ UNCHANGED pending
      /\ OnlyRefresher /\ UNCHANGED <<events, auth, loops, holder, history, revived>>
  BY DEF BeginRefreshJob
<1>2. /\ refreshers' \in Refreshers /\ OthersR(l)
      /\ refreshers'[l].pc \in {"lock", "finish"} /\ refreshers'[l].job = refreshers[l].job
  BY <1>1, GoStep, Constants DEF RefresherPc
<1>3. /\ pending' \in PendingType /\ pending'.job = pending.job
      /\ pending'.running => pending.running \/ pending.job = refreshers[l].job
  BY <1>1, Looks DEF PendingType
<1>4. TypeOK'
  BY <1>1, <1>2, <1>3 DEF TypeOK, CredentialTypes, MachineTypes, In, OnlyRefresher, history, OthersR
<1> QED
  BY <1>1, <1>2, <1>3, <1>4 DEF In

LEMMA CallerStartsStep ==
  ASSUME TypeOK, NEW c \in Callers, CallerStarts(c)
  PROVE  /\ TypeOK' /\ OthersR(c) /\ c \in Refresher
         /\ refreshers[c].pc = "idle" /\ refreshers'[c].pc = "lock"
         /\ UNCHANGED <<auth, pending, loops, revived>>
<1>1. PICK failed \in {0, auth.token} :
        refreshers' = PutR(refreshers, c, [refreshers[c] EXCEPT !.pc = "lock", !.failed = failed])
  BY DEF CallerStarts, PutR
<1> DEFINE x == [refreshers[c] EXCEPT !.pc = "lock", !.failed = failed]
<1>2. c \in Refresher
  BY DEF Refresher
<1>3. failed \in Nat
  BY DEF AuthType, TypeOK, CredentialTypes
<1>4. x \in RefresherType /\ x.pc = "lock"
  BY <1>2, <1>3, RefresherAt DEF RefresherType, RefresherPc
<1>5. refreshers' = PutR(refreshers, c, x)
  BY <1>1
<1> HIDE DEF x
<1>6. refreshers' \in Refreshers /\ OthersR(c) /\ refreshers'[c] = x
  BY <1>2, <1>4, <1>5, RefresherAt, RefresherSet DEF OthersR
<1>7. In(c, "idle") /\ OnlyRefresher /\ UNCHANGED <<auth, pending, loops, holder, history, revived>>
  BY DEF CallerStarts
<1>8. TypeOK'
  BY <1>4, <1>6, <1>7 DEF TypeOK, CredentialTypes, MachineTypes, In, OnlyRefresher, history, OthersR
<1> QED
  BY <1>2, <1>4, <1>6, <1>7, <1>8 DEF In

LEMMA ReadStep ==
  ASSUME TypeOK, NEW r \in Refresher, ReadForRefresh(r)
  PROVE  /\ TypeOK' /\ OthersR(r)
         /\ refreshers[r].pc = "lock" /\ holder = 0
         /\ refreshers'[r].job = refreshers[r].job
         /\ \/ refreshers'[r].pc = After(r) /\ holder' = 0
            \/ /\ refreshers'[r].pc = "call" /\ holder' = r
               /\ refreshers'[r].base = auth /\ Present(auth)
         /\ UNCHANGED <<auth, pending, loops, revived>>
<1> DEFINE x == [refreshers[r] EXCEPT !.pc = "call", !.base = auth]
<1>1. /\ In(r, "lock") /\ holder = 0
      /\ \/ Return(r)
         \/ Present(auth) /\ refreshers' = PutR(refreshers, r, x) /\ holder' = r
      /\ OnlyRefresher /\ UNCHANGED <<events, auth, pending, loops, history, revived>>
  BY DEF ReadForRefresh, PutR
<1>2. /\ x \in RefresherType /\ x.pc = "call" /\ x.base = auth
      /\ x.job = refreshers[r].job
  BY RefresherAt DEF RefresherType, RefresherPc, TypeOK, CredentialTypes
<1> HIDE DEF x
<1>3. /\ refreshers' \in Refreshers /\ OthersR(r)
      /\ refreshers'[r].job = refreshers[r].job
      /\ \/ refreshers'[r].pc = After(r) /\ holder' = 0
         \/ /\ refreshers'[r].pc = "call" /\ refreshers'[r].base = auth
            /\ Present(auth) /\ holder' = r
  BY <1>1, <1>2, RefresherAt, RefresherSet, ReturnStep DEF OthersR
<1>4. TypeOK'
  BY <1>1, <1>3 DEF TypeOK, CredentialTypes, MachineTypes, In, OnlyRefresher, history, OthersR, After
<1> QED
  BY <1>1, <1>3, <1>4 DEF In


LEMMA RotatesStep ==
  ASSUME TypeOK, NEW r \in Refresher, ProviderRotates(r)
  PROVE  /\ TypeOK' /\ OthersR(r)
         /\ refreshers[r].pc = "call" /\ refreshers'[r].pc = "merge"
         /\ refreshers'[r].job = refreshers[r].job
         /\ refreshers'[r].base = refreshers[r].base
         /\ LET e == refreshers[r].base.epoch
            IN /\ e \in 1..MaxEpoch
               /\ newest' = [newest EXCEPT ![e] = newest[e] + 1]
               /\ refreshers'[r].got.token = newest[e] + 1
         /\ UNCHANGED <<auth, pending, loops, revived, holder, putBack>>
<1> DEFINE base == refreshers[r].base
           token == newest[base.epoch] + 1
<1>1. PICK life \in {Lead, Life} :
        LET expires == clock + life
        IN refreshers' = [refreshers EXCEPT ![r].pc = "merge",
              ![r].got = [base EXCEPT !.token = token, !.expires = expires, !.err = "none",
                            !.blocked = FALSE,
                            !.after = IF expires - Lead <= clock
                                      THEN clock + Ineffective ELSE 0]]
  BY DEF ProviderRotates
<1> DEFINE expires == clock + life
           after == IF expires - Lead <= clock THEN clock + Ineffective ELSE 0
           got == [base EXCEPT !.token = token, !.expires = expires, !.err = "none",
                     !.blocked = FALSE, !.after = after]
           x == [refreshers[r] EXCEPT !.pc = "merge", !.got = got]
<1>2. refreshers' = PutR(refreshers, r, x)
  BY <1>1 DEF PutR
<1>3. /\ In(r, "call") /\ newest' = [newest EXCEPT ![base.epoch] = token]
      /\ OnlyRefresher
      /\ UNCHANGED <<events, auth, pending, loops, holder, edited, quota, putBack, revived>>
  BY DEF ProviderRotates
<1>4. base \in AuthType /\ base.epoch \in 1..MaxEpoch
  <2>1. base \in AuthType /\ Present(base)
    BY <1>3, RefresherAt DEF TypeOK, MachineTypes
  <2> QED
    BY <2>1, Constants DEF AuthType, Present
<1>5. token \in Nat /\ expires \in Nat /\ after \in Nat
  BY <1>4, Constants DEF TypeOK, CredentialTypes
<1> HIDE DEF base, token, expires, after
<1>6. got \in AuthType /\ got.token = token
  BY <1>4, <1>5 DEF AuthType, Err
<1> HIDE DEF got
<1>7. x \in RefresherType /\ x.pc = "merge" /\ x.got = got /\ x.job = refreshers[r].job
      /\ x.base = base
  <2>1. refreshers[r] \in RefresherType
    BY RefresherAt
  <2>2. "merge" \in RefresherPc
    BY DEF RefresherPc
  <2> QED
    BY <1>6, <2>1, <2>2 DEF RefresherType, base
<1> HIDE DEF x
<1>8. refreshers' \in Refreshers /\ OthersR(r) /\ refreshers'[r] = x
  <2>1. refreshers \in Refreshers
    BY RefresherAt
  <2> QED
    BY <1>2, <1>7, <2>1, RefresherSet DEF OthersR
<1>9. newest' \in [1..MaxEpoch -> Nat]
  BY <1>3, <1>5 DEF TypeOK, CredentialTypes
<1>10. TypeOK'
  BY <1>3, <1>7, <1>8, <1>9 DEF TypeOK, CredentialTypes, MachineTypes, In, OnlyRefresher, OthersR
<1> QED
  BY <1>3, <1>4, <1>6, <1>7, <1>8, <1>10 DEF In, base, token

LEMMA MergeStep ==
  ASSUME TypeOK, NEW r \in Refresher, UpdateRefreshedAuth(r)
  PROVE  /\ TypeOK' /\ OthersR(r)
         /\ refreshers[r].pc = "merge" /\ refreshers'[r].pc = After(r)
         /\ refreshers'[r].job = refreshers[r].job /\ holder' = 0
         /\ \/ /\ auth.epoch # refreshers[r].base.epoch
               /\ UNCHANGED <<auth, loops, revived>>
            \/ /\ auth.epoch = refreshers[r].base.epoch
               /\ Write(Merged(refreshers[r].base, auth, refreshers[r].got))
               /\ loops' = Marked(loops)
         /\ UNCHANGED <<pending, history>>
<1>1. /\ In(r, "merge")
      /\ \/ /\ auth.epoch # refreshers[r].base.epoch
            /\ UNCHANGED <<auth, loops, revived>>
         \/ /\ auth.epoch = refreshers[r].base.epoch
            /\ Write(Merged(refreshers[r].base, auth, refreshers[r].got))
            /\ loops' = Marked(loops)
      /\ Return(r)
      /\ OnlyRefresher /\ UNCHANGED <<events, pending, history>>
  BY DEF UpdateRefreshedAuth, Tell
<1>2. /\ refreshers' \in Refreshers /\ OthersR(r)
      /\ refreshers'[r].pc = After(r) /\ refreshers'[r].job = refreshers[r].job
      /\ holder' = 0
  BY <1>1, ReturnStep
<1>3. Merged(refreshers[r].base, auth, refreshers[r].got) \in AuthType
  BY RefresherAt, MergedType DEF TypeOK, CredentialTypes
<1>4. auth' \in AuthType
  BY <1>1, <1>3 DEF Write, TypeOK, CredentialTypes
<1>5. loops' \in Dispatchers
  BY <1>1, MarkedType DEF TypeOK, MachineTypes
<1>6. TypeOK'
  BY <1>1, <1>2, <1>4, <1>5 DEF TypeOK, CredentialTypes, MachineTypes, In, OnlyRefresher, history,
        OthersR, After
<1> QED
  BY <1>1, <1>2, <1>6 DEF In

LEMMA FailsStep ==
  ASSUME TypeOK, NEW r \in Refresher, RefreshFails(r)
  PROVE  /\ TypeOK' /\ OthersR(r)
         /\ refreshers[r].pc = "call"
         /\ refreshers'[r].job = refreshers[r].job
         /\ \/ refreshers'[r].pc = After(r) /\ holder' = 0
            \/ refreshers'[r].pc = "unschedule" /\ holder' = holder
         /\ \/ UNCHANGED <<auth, loops, revived>>
            \/ \E error \in Errors :
                 /\ Write(Failed(auth, error))
                 /\ Failed(auth, error).after # 0 => loops' = Marked(loops)
                 /\ Failed(auth, error).after = 0 => loops' = loops
         /\ UNCHANGED <<pending, history>>
<1>1. PICK error \in Errors :
        /\ In(r, "call")
        /\ \/ Return(r) /\ UNCHANGED <<auth, loops, revived>>
           \/ /\ Write(Failed(auth, error))
              /\ IF Failed(auth, error).after # 0 THEN loops' = Marked(loops) ELSE UNCHANGED loops
              /\ \/ Go(r, "unschedule") /\ UNCHANGED holder
                 \/ Return(r)
        /\ OnlyRefresher /\ UNCHANGED <<events, pending, history>>
  BY DEF RefreshFails, Tell
<1>2. /\ refreshers' \in Refreshers /\ OthersR(r)
      /\ refreshers'[r].job = refreshers[r].job
      /\ \/ refreshers'[r].pc = After(r) /\ holder' = 0
         \/ refreshers'[r].pc = "unschedule" /\ holder' = holder
  BY <1>1, ReturnStep, GoStep DEF RefresherPc
<1>3. Failed(auth, error) \in AuthType
  BY FailedType DEF TypeOK, CredentialTypes
<1>4. auth' \in AuthType /\ loops' \in Dispatchers
  BY <1>1, <1>3, MarkedType DEF Write, TypeOK, CredentialTypes, MachineTypes
<1>5. TypeOK'
  BY <1>1, <1>2, <1>4 DEF TypeOK, CredentialTypes, MachineTypes, In, OnlyRefresher, history,
        OthersR, After
<1> QED
  BY <1>1, <1>2, <1>5 DEF In

LEMMA CancelledStep ==
  ASSUME TypeOK, NEW l \in Loop, RefreshCancelled(l)
  PROVE  /\ TypeOK' /\ OthersR(l)
         /\ refreshers[l].pc = "call" /\ refreshers'[l].pc = After(l) /\ holder' = 0
         /\ refreshers'[l].job = refreshers[l].job
         /\ UNCHANGED <<auth, pending, loops, revived>>
<1>1. /\ In(l, "call") /\ Return(l)
      /\ OnlyRefresher /\ UNCHANGED <<events, auth, pending, loops, history, revived>>
  BY DEF RefreshCancelled
<1>2. /\ refreshers' \in Refreshers /\ OthersR(l)
      /\ refreshers'[l].pc = After(l) /\ refreshers'[l].job = refreshers[l].job
      /\ holder' = 0
  BY <1>1, ReturnStep, Constants
<1>3. TypeOK'
  BY <1>1, <1>2 DEF TypeOK, CredentialTypes, MachineTypes, In, OnlyRefresher, history,
        OthersR, After
<1> QED
  BY <1>1, <1>2, <1>3 DEF In

LEMMA UnscheduleStep ==
  ASSUME TypeOK, NEW r \in Refresher, Unschedule(r)
  PROVE  /\ TypeOK' /\ OthersR(r)
         /\ refreshers[r].pc = "unschedule" /\ refreshers'[r].pc = After(r) /\ holder' = 0
         /\ refreshers'[r].job = refreshers[r].job
         /\ \A k \in Loop : /\ k # active => loops'[k] = loops[k]
                            /\ loops'[k].pc = loops[k].pc /\ loops'[k].jobs = loops[k].jobs
                            /\ loops'[k].hand = loops[k].hand
                            /\ loops'[k].then = loops[k].then /\ loops'[k].now = loops[k].now
         /\ TakenOut(active)
         /\ UNCHANGED <<auth, pending>>
<1>1. /\ In(r, "unschedule") /\ Return(r) /\ TakenOut(active)
      /\ loops' = IF active = 0 THEN loops ELSE Removed(loops, active)
      /\ OnlyRefresher /\ UNCHANGED <<events, auth, pending, history>>
  BY DEF Unschedule
<1>2. /\ refreshers' \in Refreshers /\ OthersR(r)
      /\ refreshers'[r].pc = After(r) /\ refreshers'[r].job = refreshers[r].job
      /\ holder' = 0
  BY <1>1, ReturnStep
<1>3. /\ loops' \in Dispatchers
      /\ \A k \in Loop : /\ k # active => loops'[k] = loops[k]
                         /\ loops'[k].pc = loops[k].pc /\ loops'[k].jobs = loops[k].jobs
                         /\ loops'[k].hand = loops[k].hand
                         /\ loops'[k].then = loops[k].then /\ loops'[k].now = loops[k].now
  <2>1. CASE active = 0
    BY <1>1, <2>1 DEF TypeOK, MachineTypes
  <2>2. CASE active # 0
    <3>1. active \in Loop /\ loops \in Dispatchers /\ loops[active] \in LoopType
      BY <2>2, Constants, LoopAt DEF TypeOK, MachineTypes, Loop
    <3> DEFINE x == [loops[active] EXCEPT !.next = 0, !.dirty = FALSE]
    <3>2. /\ x.pc = loops[active].pc /\ x.jobs = loops[active].jobs
          /\ x.hand = loops[active].hand
          /\ x.then = loops[active].then /\ x.now = loops[active].now
      BY <3>1 DEF LoopType
    <3>3. /\ loops' \in Dispatchers /\ loops'[active] = x
          /\ \A k \in Loop : k # active => loops'[k] = loops[k]
      <4>1. loops' = Removed(loops, active)
        BY <1>1, <2>2
      <4> HIDE DEF x
      <4>2. /\ Removed(loops, active) \in Dispatchers
            /\ \A k \in Loop : k # active => Removed(loops, active)[k] = loops[k]
        BY <3>1, RemovedType
      <4>3. Removed(loops, active)[active] = x
        BY <3>1, RemovedType DEF x
      <4> QED
        BY <4>1, <4>2, <4>3
    <3> HIDE DEF x
    <3> QED
      BY <3>1, <3>2, <3>3
  <2> QED
    BY <2>1, <2>2
<1>4. TypeOK'
  BY <1>1, <1>2, <1>3 DEF TypeOK, CredentialTypes, MachineTypes, In, OnlyRefresher, history,
        OthersR, After
<1> QED
  BY <1>1, <1>2, <1>3, <1>4 DEF In

LEMMA FinishesStep ==
  ASSUME TypeOK, NEW l \in Loop, WorkerFinishes(l)
  PROVE  /\ TypeOK' /\ OthersR(l)
         /\ refreshers[l].pc = "finish"
         /\ refreshers'[l].pc = "idle" /\ refreshers'[l].job = NoJob
         /\ \A k \in Loop : SameBut(loops'[k], loops[k])
         /\ \/ /\ pending.job # refreshers[l].job
               /\ UNCHANGED <<pending, auth, revived, loops>>
            \/ /\ pending.job = refreshers[l].job /\ pending'.job = NoJob /\ ~pending'.running
               /\ auth' = auth \/ auth' = [auth EXCEPT !.after = 0]
               /\ loops' = Marked(loops)
         /\ UNCHANGED holder
<1>1. /\ In(l, "finish") /\ FinishRefreshJob(refreshers[l].job, 0, loops)
      /\ refreshers' = PutR(refreshers, l, IdleRefresher)
      /\ OnlyRefresher /\ UNCHANGED <<events, holder, history>>
  BY DEF WorkerFinishes, PutR
<1>2. l \in Refresher /\ loops \in Dispatchers /\ refreshers[l].job \in JobType
  BY Constants, Looks, RefresherAt
<1>3. /\ refreshers' \in Refreshers /\ OthersR(l) /\ refreshers'[l] = IdleRefresher
  <2>1. refreshers \in Refreshers /\ IdleRefresher \in RefresherType
    BY <1>2, NoneTypes, RefresherAt
  <2>2. /\ refreshers' \in Refreshers /\ refreshers'[l] = IdleRefresher
        /\ \A q \in Refresher : q # l => refreshers'[q] = refreshers[q]
    BY <1>1, <1>2, <2>1, RefresherSet
  <2> QED
    BY <2>2 DEF OthersR
<1>4. /\ pending' \in PendingType /\ auth' \in AuthType /\ loops' \in Dispatchers
      /\ auth' = auth \/ Write([auth EXCEPT !.after = 0])
      /\ pending.job # refreshers[l].job => loops' = loops /\ UNCHANGED <<pending, auth, revived>>
      /\ pending.job = refreshers[l].job => /\ pending'.job = NoJob /\ ~pending'.running
                                            /\ loops' = Marked(loops)
  BY <1>1, <1>2, FinishFacts
<1>5. IdleRefresher.pc = "idle" /\ IdleRefresher.job = NoJob
  BY DEF IdleRefresher
<1>6. TypeOK'
  BY <1>1, <1>3, <1>4, <1>5 DEF TypeOK, CredentialTypes, MachineTypes, In, OnlyRefresher, history,
        OthersR
<1>7. \A k \in Loop : SameBut(loops'[k], loops[k])
  BY <1>2, <1>4, TellFacts DEF SameBut
<1> QED
  BY <1>1, <1>3, <1>4, <1>5, <1>6, <1>7 DEF In, Write


-----------------------------------------------------------------------------
(* Everything else.                                                        *)

LEMMA StartStep ==
  ASSUME TypeOK, StartAutoRefresh
  PROVE  /\ TypeOK'
         /\ \E l \in Loop :
              /\ active = 0 /\ active' = l /\ l \notin ended /\ Others(l)
              /\ loops'[l].pc = "rebuild"
              /\ loops'[l].jobs = loops[l].jobs /\ loops'[l].hand = loops[l].hand
              /\ loops'[l].then = loops[l].then
         /\ UNCHANGED <<auth, pending, refreshers, ended, revived, holder>>
<1>1. PICK l \in Loop :
        /\ active = 0 /\ ended = 1..(l - 1) /\ active' = l
        /\ loops' = Put(loops, l, [loops[l] EXCEPT !.pc = "rebuild"])
        /\ UNCHANGED <<clock, auth, epochs, pending, ended, refreshers, holder, editor,
                       events, history, revived>>
  BY DEF StartAutoRefresh, Put
<1> DEFINE x == [loops[l] EXCEPT !.pc = "rebuild"]
<1>2. x \in LoopType /\ x.pc = "rebuild" /\ x.jobs = loops[l].jobs
      /\ x.hand = loops[l].hand /\ x.then = loops[l].then
  BY Looks, LoopAt DEF LoopType, LoopPc
<1>3. loops' = Put(loops, l, x)
  BY <1>1
<1> HIDE DEF x
<1>4. loops' \in Dispatchers /\ Others(l) /\ loops'[l] = x
  BY <1>2, <1>3, Looks, LoopSet DEF Others
<1>5. TypeOK'
  BY <1>1, <1>4, Constants DEF TypeOK, CredentialTypes, MachineTypes, In, history
<1>6. l \notin ended
  BY <1>1, Constants
<1> QED
  BY <1>1, <1>2, <1>4, <1>5, <1>6

LEMMA StopStep ==
  ASSUME TypeOK, StopAutoRefresh
  PROVE  TypeOK'
  BY Constants DEF StopAutoRefresh, TypeOK, CredentialTypes, MachineTypes, In, history

LEMMA GetStep ==
  ASSUME TypeOK, GetByID
  PROVE  TypeOK'
  BY DEF GetByID, OnlyCredential, TypeOK, CredentialTypes, MachineTypes, In, history

LEMMA ForgetStep ==
  ASSUME TypeOK, Forget
  PROVE  TypeOK'
  BY NoneTypes DEF Forget, OnlyCredential, TypeOK, CredentialTypes, MachineTypes, In, history

LEMMA TickStep ==
  ASSUME TypeOK, Tick
  PROVE  TypeOK'
  BY DEF Tick, machine, TypeOK, CredentialTypes, MachineTypes, In, history

\* What Update writes.
Edited(off) ==
  LET new == [editor EXCEPT !.edit = @ + 1, !.off = off]
  IN IF Present(auth) /\ ~auth.off /\ ~off /\ clock < auth.limit
     THEN [new EXCEPT !.blocked = auth.blocked, !.retry = auth.retry, !.limit = auth.limit]
     ELSE new

LEMMA EditedType ==
  ASSUME TypeOK, NEW off \in BOOLEAN
  PROVE  /\ Edited(off) \in AuthType
         /\ Edited(off).epoch = editor.epoch /\ Edited(off).token = editor.token
         /\ Edited(off).edit = editor.edit + 1 /\ Edited(off).off = off
         /\ LET keeps == Present(auth) /\ ~auth.off /\ ~off /\ clock < auth.limit
            IN /\ Edited(off).blocked = (IF keeps THEN auth.blocked ELSE editor.blocked)
               /\ Edited(off).retry = (IF keeps THEN auth.retry ELSE editor.retry)
               /\ Edited(off).limit = (IF keeps THEN auth.limit ELSE editor.limit)
<1>1. auth \in AuthType /\ editor \in AuthType
  BY DEF TypeOK, CredentialTypes
<1> DEFINE new == [editor EXCEPT !.edit = @ + 1, !.off = off]
           n == editor.edit + 1
<1>0. n \in Nat /\ new = [editor EXCEPT !.edit = n, !.off = off]
  BY <1>1 DEF AuthType
<1> HIDE DEF n, new
<1>2. /\ new \in AuthType /\ new.epoch = editor.epoch /\ new.token = editor.token
      /\ new.edit = n /\ new.off = off /\ new.blocked = editor.blocked
      /\ new.retry = editor.retry /\ new.limit = editor.limit
  BY <1>0, <1>1 DEF AuthType
<1>3. Edited(off) = IF Present(auth) /\ ~auth.off /\ ~off /\ clock < auth.limit
                    THEN [new EXCEPT !.blocked = auth.blocked, !.retry = auth.retry,
                                     !.limit = auth.limit]
                    ELSE new
  BY DEF Edited, new
<1> QED
  BY <1>1, <1>2, <1>3 DEF AuthType, n

LEMMA UpdateStep ==
  ASSUME TypeOK, Update
  PROVE  /\ TypeOK'
         /\ editor # NoAuth /\ editor' = NoAuth
         /\ UNCHANGED <<pending, active, ended, refreshers, holder, clock, epochs, newest>>
         /\ \/ editor.epoch < epochs /\ UNCHANGED <<auth, loops, revived, edited, quota, putBack>>
            \/ /\ ~(editor.epoch < epochs)
               /\ loops' = Marked(loops)
               /\ \E off \in BOOLEAN :
                    LET keeps == Present(auth) /\ ~auth.off /\ ~off /\ clock < auth.limit
                    IN /\ Write(Edited(off)) /\ auth' = Edited(off)
                       /\ edited' = Edited(off).edit
                       /\ quota' = IF keeps THEN quota ELSE 0
                       /\ putBack' = (putBack \/ Edited(off).token # auth.token)
<1>1. PICK off \in BOOLEAN :
        LET keeps == Present(auth) /\ ~auth.off /\ ~off /\ clock < auth.limit
            new == [editor EXCEPT !.edit = @ + 1, !.off = off]
        IN /\ editor # NoAuth /\ editor' = NoAuth
           /\ \/ editor.epoch < epochs /\ UNCHANGED <<auth, loops, revived, edited, quota, putBack>>
              \/ /\ ~(editor.epoch < epochs)
                 /\ Write(Edited(off)) /\ Tell
                 /\ edited' = new.edit
                 /\ quota' = IF keeps THEN quota ELSE 0
                 /\ putBack' = (putBack \/ new.token # auth.token)
           /\ OnlyCredential /\ UNCHANGED <<epochs, events, newest>>
  BY DEF Update, Edited
<1> DEFINE new == [editor EXCEPT !.edit = @ + 1, !.off = off]
<1>2. new.edit = Edited(off).edit /\ new.token = Edited(off).token
  BY EditedType DEF TypeOK, CredentialTypes, AuthType
<1> HIDE DEF new
<1>3. Edited(off) \in AuthType
  BY EditedType
<1>4. auth' \in AuthType /\ loops' \in Dispatchers /\ quota' \in Nat
  BY <1>1, <1>3, MarkedType DEF Write, Tell, TypeOK, CredentialTypes, MachineTypes
<1>5. TypeOK'
  BY <1>1, <1>4, NoneTypes DEF TypeOK, CredentialTypes, MachineTypes, In, OnlyCredential
<1>6. CASE editor.epoch < epochs /\ UNCHANGED <<auth, loops, revived, edited, quota, putBack>>
  BY <1>1, <1>5, <1>6 DEF OnlyCredential
<1>7. CASE ~(editor.epoch < epochs)
  <2>1. /\ Write(Edited(off)) /\ Tell
        /\ edited' = Edited(off).edit
        /\ quota' = IF Present(auth) /\ ~auth.off /\ ~off /\ clock < auth.limit
                    THEN quota ELSE 0
        /\ putBack' = (putBack \/ Edited(off).token # auth.token)
    BY <1>1, <1>2, <1>7 DEF new
  <2>2. auth' = Edited(off) /\ loops' = Marked(loops)
    BY <2>1 DEF Write, Tell
  <2> QED
    BY <1>1, <1>5, <1>7, <2>1, <2>2 DEF OnlyCredential
<1> QED
  BY <1>1, <1>6, <1>7

\* A new registration of the credential.
Registered(epoch, expires) ==
  [NoAuth EXCEPT !.epoch = epoch, !.token = 1, !.expires = expires]

LEMMA RegisterStep ==
  ASSUME TypeOK, Register
  PROVE  /\ TypeOK' /\ ~Present(auth) /\ epochs < MaxEpoch
         /\ epochs' = epochs + 1
         /\ auth' = Registered(epochs + 1, clock + Life)
         /\ Write(Registered(epochs + 1, clock + Life))
         /\ loops' = Marked(loops)
         /\ newest' = [newest EXCEPT ![epochs + 1] = 1]
         /\ edited' = 0 /\ quota' = 0 /\ putBack' = FALSE
         /\ UNCHANGED <<pending, active, ended, refreshers, holder, clock, editor>>
         /\ auth'.epoch = epochs + 1 /\ auth'.token = 1 /\ auth'.edit = 0
         /\ auth'.limit = 0 /\ auth'.retry = 0
<1>1. /\ ~Present(auth) /\ epochs < MaxEpoch
      /\ epochs' = epochs + 1
      /\ Write(Registered(epochs + 1, clock + Life))
      /\ loops' = Marked(loops)
      /\ newest' = [newest EXCEPT ![epochs + 1] = 1]
      /\ edited' = 0 /\ quota' = 0 /\ putBack' = FALSE
      /\ OnlyCredential /\ UNCHANGED <<editor, events>>
  BY DEF Register, Registered, Tell
<1> DEFINE epoch == epochs + 1
           expires == clock + Life
<1>2. epoch \in 1..MaxEpoch /\ expires \in Nat
  BY <1>1, Constants DEF TypeOK, CredentialTypes
<1> HIDE DEF epoch, expires
<1>3. /\ Registered(epoch, expires) \in AuthType
      /\ Registered(epoch, expires).epoch = epoch /\ Registered(epoch, expires).token = 1
      /\ Registered(epoch, expires).edit = 0
      /\ Registered(epoch, expires).limit = 0 /\ Registered(epoch, expires).retry = 0
  <2>1. NoAuth \in AuthType /\ NoAuth.edit = 0 /\ NoAuth.limit = 0 /\ NoAuth.retry = 0
    BY NoneTypes DEF NoAuth
  <2>2. epoch \in 0..MaxEpoch
    BY <1>2, Constants
  <2> QED
    BY <1>2, <2>1, <2>2 DEF Registered, AuthType
<1>4. auth' = Registered(epoch, expires)
  BY <1>1 DEF Write, epoch, expires
<1>5. loops' \in Dispatchers
  BY <1>1, MarkedType DEF TypeOK, MachineTypes
<1>6. newest' \in [1..MaxEpoch -> Nat]
  BY <1>1 DEF TypeOK, CredentialTypes
<1>7. TypeOK'
  BY <1>1, <1>2, <1>3, <1>4, <1>5, <1>6
  DEF TypeOK, CredentialTypes, MachineTypes, In, OnlyCredential, epoch
<1> QED
  BY <1>1, <1>3, <1>4, <1>7 DEF OnlyCredential, epoch, expires

\* A result changes the error and the cooldowns of the credential only.
LEMMA ResultStep ==
  ASSUME TypeOK, MarkResult
  PROVE  /\ TypeOK' /\ Present(auth)
         /\ auth'.epoch = auth.epoch /\ auth'.token = auth.token
         /\ auth'.expires = auth.expires /\ auth'.after = auth.after
         /\ auth'.off = auth.off /\ auth'.edit = auth.edit
         /\ \/ UNCHANGED <<auth, revived>>
            \/ Write(auth')
         /\ UNCHANGED <<clock, epochs, pending, active, ended, loops, refreshers, holder,
                        editor, newest, edited, putBack>>
         /\ LET until == clock + Cooldown
            IN \/ /\ auth'.blocked /\ auth'.retry = until /\ auth'.limit = until
                  /\ quota' = IF auth.off THEN 0 ELSE until
               \/ /\ auth'.blocked /\ auth'.retry = until /\ auth'.limit = auth.limit
                  /\ UNCHANGED quota
               \/ clock < auth.limit /\ UNCHANGED <<auth, quota>>
               \/ /\ ~(clock < auth.limit) /\ auth'.retry = 0 /\ auth'.limit = 0
                  /\ UNCHANGED quota
<1>1. /\ auth \in AuthType /\ clock \in Nat /\ quota \in Nat
      /\ clock + Cooldown \in Nat
  BY Constants DEF TypeOK, CredentialTypes
<1>2. /\ Present(auth)
      /\ MarkQuota \/ MarkUnauthorized \/ MarkSuccess
      /\ OnlyCredential /\ UNCHANGED <<epochs, loops, editor, newest, edited, putBack>>
  BY DEF MarkResult
<1> DEFINE until == clock + Cooldown
<1> HIDE DEF until
<1>3. until \in Nat
  BY <1>1 DEF until
<1> DEFINE Keeps ==
             /\ auth'.epoch = auth.epoch /\ auth'.token = auth.token
             /\ auth'.expires = auth.expires /\ auth'.after = auth.after
             /\ auth'.off = auth.off /\ auth'.edit = auth.edit
           Changes ==
             \/ /\ auth'.blocked /\ auth'.retry = until /\ auth'.limit = until
                /\ quota' = IF auth.off THEN 0 ELSE until
             \/ /\ auth'.blocked /\ auth'.retry = until /\ auth'.limit = auth.limit
                /\ UNCHANGED quota
             \/ clock < auth.limit /\ UNCHANGED <<auth, quota>>
             \/ /\ ~(clock < auth.limit) /\ auth'.retry = 0 /\ auth'.limit = 0
                /\ UNCHANGED quota
           Writes == UNCHANGED <<auth, revived>> \/ Write(auth')
           Shape == auth' \in AuthType /\ quota' \in Nat /\ Keeps /\ Changes /\ Writes
<1>4. ASSUME MarkQuota PROVE Shape
  <2> DEFINE a == [auth EXCEPT !.err = "quota", !.blocked = TRUE, !.retry = until, !.limit = until]
  <2>1. /\ a \in AuthType /\ a.epoch = auth.epoch /\ a.token = auth.token
        /\ a.expires = auth.expires /\ a.after = auth.after /\ a.off = auth.off
        /\ a.edit = auth.edit /\ a.blocked /\ a.retry = until /\ a.limit = until
    BY <1>1, <1>3 DEF AuthType, Err
  <2>2. Write(a) /\ quota' = IF auth.off THEN 0 ELSE until
    BY <1>4 DEF MarkQuota, until
  <2> HIDE DEF a
  <2>3. auth' = a /\ Write(auth')
    BY <2>2 DEF Write
  <2>4. Keeps
    BY <2>1, <2>3
  <2>5. Changes
    BY <2>1, <2>2, <2>3
  <2>6. auth' \in AuthType /\ quota' \in Nat
    BY <1>3, <2>1, <2>2, <2>3
  <2>7. Writes
    BY <2>3
  <2> HIDE DEF Keeps, Changes, Writes
  <2> QED
    BY <2>4, <2>5, <2>6, <2>7
<1>5. ASSUME MarkUnauthorized PROVE Shape
  <2> DEFINE a == [auth EXCEPT !.err = "unauthorized", !.blocked = TRUE, !.retry = until]
  <2>1. /\ a \in AuthType /\ a.epoch = auth.epoch /\ a.token = auth.token
        /\ a.expires = auth.expires /\ a.after = auth.after /\ a.off = auth.off
        /\ a.edit = auth.edit /\ a.blocked /\ a.retry = until /\ a.limit = auth.limit
    BY <1>1, <1>3 DEF AuthType, Err
  <2>2. Write(a) /\ UNCHANGED quota
    BY <1>5 DEF MarkUnauthorized, until
  <2> HIDE DEF a
  <2>3. auth' = a /\ Write(auth')
    BY <2>2 DEF Write
  <2>4. Keeps
    BY <2>1, <2>3
  <2>5. Changes
    BY <2>1, <2>2, <2>3
  <2>6. auth' \in AuthType /\ quota' \in Nat
    BY <1>1, <2>1, <2>2, <2>3
  <2>7. Writes
    BY <2>3
  <2> HIDE DEF Keeps, Changes, Writes
  <2> QED
    BY <2>4, <2>5, <2>6, <2>7
<1>6. ASSUME MarkSuccess PROVE Shape
  <2> DEFINE a == [auth EXCEPT !.err = "none", !.blocked = FALSE, !.retry = 0, !.limit = 0]
  <2>1. /\ a \in AuthType /\ a.epoch = auth.epoch /\ a.token = auth.token
        /\ a.expires = auth.expires /\ a.after = auth.after /\ a.off = auth.off
        /\ a.edit = auth.edit /\ a.retry = 0 /\ a.limit = 0
    BY <1>1 DEF AuthType, Err
  <2>2. /\ UNCHANGED quota
        /\ \/ clock < auth.limit /\ UNCHANGED <<auth, revived>>
           \/ ~(clock < auth.limit) /\ Write(a)
    BY <1>6 DEF MarkSuccess
  <2> HIDE DEF a
  <2>3. \/ clock < auth.limit /\ UNCHANGED <<auth, revived>>
        \/ ~(clock < auth.limit) /\ auth' = a /\ Write(auth')
    BY <2>2 DEF Write
  <2>4. Keeps
    BY <2>1, <2>3
  <2>5. Changes
    BY <2>1, <2>2, <2>3
  <2>6. auth' \in AuthType /\ quota' \in Nat
    BY <1>1, <2>1, <2>2, <2>3
  <2>7. Writes
    BY <2>3
  <2> HIDE DEF Keeps, Changes, Writes
  <2> QED
    BY <2>4, <2>5, <2>6, <2>7
<1> HIDE DEF Keeps, Changes, Writes, Shape
<1>7. Shape
  BY <1>2, <1>4, <1>5, <1>6
<1>8. TypeOK'
  BY <1>2, <1>7 DEF TypeOK, CredentialTypes, MachineTypes, In, OnlyCredential, Shape
<1> QED
  BY <1>2, <1>7, <1>8 DEF OnlyCredential, until, Shape, Keeps, Changes, Writes


-----------------------------------------------------------------------------
(* The types hold in every state.                                          *)

LEMMA TypesInit == Init => TypeOK
<1> SUFFICES ASSUME Init PROVE TypeOK
  OBVIOUS
<1>1. auth \in AuthType
  <2>1. PICK life \in {Lead, Life} :
          auth = [NoAuth EXCEPT !.epoch = 1, !.token = 1, !.expires = 1 + life]
    BY DEF Init
  <2> DEFINE expires == 1 + life
  <2>2. expires \in Nat /\ 1 \in 0..MaxEpoch
    BY Constants
  <2> HIDE DEF expires
  <2>3. auth = [NoAuth EXCEPT !.epoch = 1, !.token = 1, !.expires = expires]
    BY <2>1 DEF expires
  <2> QED
    BY <2>2, <2>3, NoneTypes DEF AuthType
<1>2. CredentialTypes
  <2>1. clock = 1 /\ epochs = 1 /\ editor = NoAuth /\ quota = 0
        /\ newest = [e \in 1..MaxEpoch |-> 1]
    BY DEF Init
  <2> QED
    BY <1>1, <2>1, NoneTypes, Constants DEF CredentialTypes
<1>3. MachineTypes
  <2>1. /\ pending = [job |-> NoJob, running |-> FALSE] /\ active = 0
        /\ loops = [l \in Loop |-> IdleLoop]
        /\ refreshers = [r \in Refresher |-> IdleRefresher]
    BY DEF Init
  <2>2. IdleRefresher.pc = "idle"
    BY DEF IdleRefresher
  <2> QED
    BY <2>1, <2>2, NoneTypes, Constants
    DEF MachineTypes, PendingType, Dispatchers, Refreshers, In
<1> QED
  BY <1>2, <1>3 DEF TypeOK

LEMMA TypesStep == TypeOK /\ [Next]_vars => TypeOK'
<1> SUFFICES ASSUME TypeOK, [Next]_vars PROVE TypeOK'
  OBVIOUS
<1>1. CASE UNCHANGED vars
  BY <1>1 DEF vars, machine, TypeOK, CredentialTypes, MachineTypes, In, history
<1>2. CASE StartAutoRefresh \/ StopAutoRefresh
  BY <1>2, StartStep, StopStep
<1>3. ASSUME NEW l \in Loop, Dispatcher(l)
      PROVE  TypeOK'
  BY <1>3, DispatcherTypes
<1>4. ASSUME NEW l \in Loop, Worker(l)
      PROVE  TypeOK'
  BY <1>4, WorkerTakesStep, WorkerExitsStep, BeginStep, CancelledStep, FinishesStep DEF Worker
<1>5. ASSUME NEW c \in Callers, CallerStarts(c)
      PROVE  TypeOK'
  BY <1>5, CallerStartsStep
<1>6. ASSUME NEW r \in Refresher, Refresh(r)
      PROVE  TypeOK'
  BY <1>6, ReadStep, RotatesStep, MergeStep, FailsStep, UnscheduleStep DEF Refresh
<1>7. CASE GetByID \/ Update \/ Register \/ Forget \/ MarkResult \/ Tick
  BY <1>7, GetStep, UpdateStep, RegisterStep, ForgetStep, ResultStep, TickStep
<1> QED
  BY <1>1, <1>2, <1>3, <1>4, <1>5, <1>6, <1>7 DEF Next

\* The state keeps its types.
THEOREM TypesCorrect == Spec => []TypeOK
  BY TypesInit, TypesStep, PTL DEF Spec


-----------------------------------------------------------------------------
(* The dispatchers and the jobs of the workers change no more of the       *)
(* credential than its next refresh.                                       *)

Calm ==
  /\ auth'.epoch = auth.epoch /\ auth'.token = auth.token /\ auth'.off = auth.off
  /\ auth'.edit = auth.edit /\ auth'.blocked = auth.blocked /\ auth'.retry = auth.retry
  /\ auth'.limit = auth.limit
  /\ UNCHANGED <<clock, epochs, editor, history>>

LEMMA LaterIsCalm ==
  ASSUME TypeOK, NEW n \in Nat,
         auth' = auth \/ auth' = [auth EXCEPT !.after = n],
         UNCHANGED <<clock, epochs, editor, history>>
  PROVE  Calm
  BY DEF TypeOK, CredentialTypes, AuthType, Calm

LEMMA DispatcherIsCalm ==
  ASSUME TypeOK, NEW l \in Loop, Dispatcher(l)
  PROVE  Calm /\ UNCHANGED <<refreshers, holder>>
<1>0. /\ loops[l].now + Interval \in Nat /\ loops[l].hand.until \in Nat
  BY Looks, LoopAt, Constants DEF JobType
<1>1. CASE Rebuild(l) \/ ApplyDirty(l) \/ HandleDueAuth(l) \/ LookAgain(l) \/ SendJob(l)
           \/ Remove(l) \/ LoopEnds(l)
  BY <1>1 DEF Rebuild, ApplyDirty, HandleDueAuth, LookAgain, SendJob, Remove, LoopEnds,
     OnlyLoops, Calm
<1>2. CASE MarkRefreshPending(l)
  <2>1. auth' = auth \/ auth' = [auth EXCEPT !.after = loops[l].hand.until]
    BY <1>2, MarkStep DEF Write
  <2> QED
    BY <1>0, <1>2, <2>1, LaterIsCalm DEF MarkRefreshPending
<1>3. CASE GiveBackJob(l)
  <2>1. auth' = auth \/ auth' = [auth EXCEPT !.after = loops[l].now + Interval]
    BY <1>3, GiveBackStep
  <2> QED
    BY <1>0, <1>3, <2>1, LaterIsCalm DEF GiveBackJob
<1>4. CASE ReleaseQueuedJob(l)
  <2>1. auth' = auth \/ auth' = [auth EXCEPT !.after = 0]
    BY <1>4, ReleaseStep
  <2> QED
    BY <1>4, <2>1, LaterIsCalm DEF ReleaseQueuedJob
<1> QED
  BY <1>1, <1>2, <1>3, <1>4 DEF Dispatcher

LEMMA WorkerIsCalm ==
  ASSUME TypeOK, NEW l \in Loop, Worker(l)
  PROVE  Calm
<1>1. CASE WorkerTakes(l) \/ WorkerExits(l) \/ BeginRefreshJob(l) \/ RefreshCancelled(l)
  BY <1>1 DEF WorkerTakes, WorkerExits, BeginRefreshJob, RefreshCancelled, OnlyRefresher, Calm
<1>2. CASE WorkerFinishes(l)
  <2>1. auth' = auth \/ auth' = [auth EXCEPT !.after = 0]
    BY <1>2, FinishesStep
  <2> QED
    BY <1>2, <2>1, LaterIsCalm DEF WorkerFinishes, OnlyRefresher
<1> QED
  BY <1>1, <1>2 DEF Worker

LEMMA RestIsCalm ==
  ASSUME TypeOK,
         \/ UNCHANGED vars
         \/ StartAutoRefresh \/ StopAutoRefresh
         \/ \E c \in Callers : CallerStarts(c)
         \/ \E r \in Refresher : ReadForRefresh(r) \/ Unschedule(r)
  PROVE  Calm
  BY DEF vars, StartAutoRefresh, StopAutoRefresh, CallerStarts, ReadForRefresh, Unschedule,
     OnlyRefresher, Calm

\* What a merge and a failure leave alone.
LEMMA MergedKeeps ==
  ASSUME NEW b \in AuthType, NEW a \in AuthType, NEW u \in AuthType
  PROVE  LET m == Merged(b, a, u)
         IN /\ m.epoch = a.epoch /\ m.token = u.token /\ m.off = a.off /\ m.edit = a.edit
            /\ m.retry = a.retry /\ m.limit = a.limit
            /\ a.blocked /\ clock < a.retry => m.blocked
  BY DEF Merged, AuthType

LEMMA FailedKeeps ==
  ASSUME NEW a \in AuthType, NEW error \in Errors
  PROVE  LET f == Failed(a, error)
         IN /\ f.epoch = a.epoch /\ f.token = a.token /\ f.off = a.off /\ f.edit = a.edit
            /\ f.retry = a.retry /\ f.limit = a.limit /\ f.expires = a.expires
            /\ a.blocked => f.blocked
  BY DEF Failed, AuthType

-----------------------------------------------------------------------------
(* Nothing that happens beside a refresh is lost.                          *)

\* A quota's cooldown ends with the credential's, and is no longer than Cooldown.
LimitBounded(a) == a.limit <= a.retry /\ a.limit <= clock + Cooldown

KeptInv == LimitBounded(auth) /\ LimitBounded(editor) /\ ChangesKept

LEMMA KeptInit == Init => KeptInv
<1> SUFFICES ASSUME Init PROVE KeptInv
  OBVIOUS
<1>1. /\ NoAuth.limit = 0 /\ NoAuth.retry = 0
      /\ auth.limit = 0 /\ auth.retry = 0 /\ auth.edit = 0
      /\ editor = NoAuth /\ edited = 0 /\ quota = 0 /\ clock = 1
  BY DEF Init, NoAuth
<1> QED
  BY <1>1, Constants DEF KeptInv, LimitBounded, ChangesKept

LEMMA CalmKeeps ==
  ASSUME TypeOK, KeptInv, Calm
  PROVE  KeptInv'
  BY DEF Calm, KeptInv, LimitBounded, ChangesKept, Present, history

LEMMA KeptStep == TypeOK /\ KeptInv /\ [Next]_vars => KeptInv'
<1> SUFFICES ASSUME TypeOK, KeptInv, [Next]_vars PROVE KeptInv'
  OBVIOUS
<1>0. /\ auth \in AuthType /\ editor \in AuthType /\ clock \in Nat /\ quota \in Nat
      /\ Cooldown \in Nat
  BY Constants DEF TypeOK, CredentialTypes
<1>1. CASE Calm
  BY <1>1, CalmKeeps
<1>2. ASSUME NEW r \in Refresher, ProviderRotates(r)
      PROVE  KeptInv'
  BY <1>2 DEF ProviderRotates, OnlyRefresher, KeptInv, LimitBounded, ChangesKept
<1>3. ASSUME NEW r \in Refresher, UpdateRefreshedAuth(r)
      PROVE  KeptInv'
  <2>1. UNCHANGED <<clock, epochs, editor, history>>
    BY <1>3 DEF UpdateRefreshedAuth, OnlyRefresher
  <2>2. CASE UNCHANGED auth
    BY <2>1, <2>2 DEF KeptInv, LimitBounded, ChangesKept, Present, history
  <2>3. CASE auth' = Merged(refreshers[r].base, auth, refreshers[r].got)
    <3>1. /\ auth'.epoch = auth.epoch /\ auth'.off = auth.off /\ auth'.edit = auth.edit
          /\ auth'.retry = auth.retry /\ auth'.limit = auth.limit
          /\ auth.blocked /\ clock < auth.retry => auth'.blocked
      BY <1>0, <2>3, MergedKeeps, RefresherAt
    <3> QED
      BY <1>0, <2>1, <3>1 DEF KeptInv, LimitBounded, ChangesKept, Present, history, AuthType
  <2> QED
    BY <1>3, <2>2, <2>3, MergeStep DEF Write
<1>4. ASSUME NEW r \in Refresher, RefreshFails(r)
      PROVE  KeptInv'
  <2>1. UNCHANGED <<clock, epochs, editor, history>>
    BY <1>4 DEF RefreshFails, OnlyRefresher
  <2>2. CASE UNCHANGED auth
    BY <2>1, <2>2 DEF KeptInv, LimitBounded, ChangesKept, Present, history
  <2>3. ASSUME NEW error \in Errors, auth' = Failed(auth, error)
        PROVE  KeptInv'
    <3>1. /\ auth'.epoch = auth.epoch /\ auth'.off = auth.off /\ auth'.edit = auth.edit
          /\ auth'.retry = auth.retry /\ auth'.limit = auth.limit
          /\ auth.blocked => auth'.blocked
      BY <1>0, <2>3, FailedKeeps
    <3> QED
      BY <1>0, <2>1, <3>1 DEF KeptInv, LimitBounded, ChangesKept, Present, history
  <2> QED
    BY <1>4, <2>2, <2>3, FailsStep DEF Write
<1>5. CASE GetByID
  BY <1>5 DEF GetByID, OnlyCredential, KeptInv, LimitBounded, ChangesKept, history
<1>6. CASE Update
  <2>1. NoAuth.limit = 0 /\ NoAuth.retry = 0
    BY DEF NoAuth
  <2>2. editor' = NoAuth /\ UNCHANGED clock
    BY <1>6, UpdateStep
  <2>3. LimitBounded(editor)'
    BY <1>0, <2>1, <2>2 DEF LimitBounded
  <2>4. CASE UNCHANGED <<auth, edited, quota>>
    BY <2>2, <2>3, <2>4 DEF KeptInv, LimitBounded, ChangesKept
  <2>5. ASSUME NEW off \in BOOLEAN, auth' = Edited(off), edited' = Edited(off).edit,
               quota' = IF Present(auth) /\ ~auth.off /\ ~off /\ clock < auth.limit
                        THEN quota ELSE 0
        PROVE  KeptInv'
    <3>1. CASE Present(auth) /\ ~auth.off /\ ~off /\ clock < auth.limit
      BY <1>0, <2>2, <2>3, <2>5, <3>1, EditedType DEF KeptInv, LimitBounded, ChangesKept
    <3>2. CASE ~(Present(auth) /\ ~auth.off /\ ~off /\ clock < auth.limit)
      BY <1>0, <2>2, <2>3, <2>5, <3>2, EditedType DEF KeptInv, LimitBounded, ChangesKept
    <3> QED
      BY <3>1, <3>2
  <2> QED
    BY <1>6, <2>4, <2>5, UpdateStep
<1>7. CASE Register
  BY <1>0, <1>7, RegisterStep DEF KeptInv, LimitBounded, ChangesKept
<1>8. CASE Forget
  <2>1. /\ NoAuth.limit = 0 /\ NoAuth.retry = 0 /\ ~Present(NoAuth)
        /\ auth' = NoAuth /\ UNCHANGED <<clock, editor>>
    BY <1>8 DEF NoAuth, Present, Forget, OnlyCredential
  <2> QED
    BY <1>0, <2>1 DEF KeptInv, LimitBounded, ChangesKept
<1>9. CASE MarkResult
  BY <1>0, <1>9, ResultStep DEF KeptInv, LimitBounded, ChangesKept, AuthType
<1>10. CASE Tick
  <2>1. clock' = clock + 1 /\ UNCHANGED <<auth, editor, edited, quota>>
    BY <1>10 DEF Tick, history
  <2> QED
    BY <1>0, <2>1 DEF KeptInv, LimitBounded, ChangesKept, AuthType
<1> QED
  BY <1>1, <1>2, <1>3, <1>4, <1>5, <1>6, <1>7, <1>8, <1>9, <1>10,
     DispatcherIsCalm, WorkerIsCalm, RestIsCalm
  DEF Next, Refresh

\* An edit or a live quota that comes while a refresh is on its way is still there
\* after it, whatever the refresh brings (updateInternal, MergeRefreshedAuth).
THEOREM EditsAndQuotasStay == Spec => []ChangesKept
<1>1. Init => TypeOK /\ KeptInv
  BY TypesInit, KeptInit
<1>2. (TypeOK /\ KeptInv) /\ [Next]_vars => (TypeOK /\ KeptInv)'
  BY TypesStep, KeptStep
<1>3. KeptInv => ChangesKept
  BY DEF KeptInv
<1> QED
  BY <1>1, <1>2, <1>3, PTL DEF Spec


-----------------------------------------------------------------------------
(* Refreshes of a credential come one after the other.                     *)

Locked == {"call", "merge", "unschedule"}

\* Only the holder of the refresh lock is beyond it.
OneRefresh == \A r \in Refresher : refreshers[r].pc \in Locked => holder = r

\* What a refresh and an edit have read is of a registration there has been.
RegistrationsKnown ==
  /\ Present(auth) => auth.epoch = epochs /\ auth.token >= 1
  /\ ~Present(auth) => auth.token = 0
  /\ editor # NoAuth => Present(editor) /\ editor.epoch <= epochs /\ editor.token >= 1
  /\ \A r \in Refresher : refreshers[r].pc \in {"call", "merge"} =>
       refreshers[r].base.epoch \in 1..epochs

\* The provider has handed out no token after the one in hand.
HandsNewest ==
  /\ \A e \in 1..MaxEpoch : newest[e] >= 1
  /\ \A r \in Refresher : In(r, "merge") =>
       refreshers[r].got.token = newest[refreshers[r].base.epoch]

TokenInv == OneRefresh /\ RegistrationsKnown /\ HandsNewest /\ NewestToken

LEMMA TokenInit == Init => TokenInv
<1> SUFFICES ASSUME Init PROVE TokenInv
  OBVIOUS
<1>1. /\ auth.epoch = 1 /\ auth.token = 1 /\ epochs = 1 /\ editor = NoAuth
      /\ newest = [e \in 1..MaxEpoch |-> 1]
      /\ refreshers = [r \in Refresher |-> IdleRefresher]
      /\ IdleRefresher.pc = "idle"
  BY DEF Init, NoAuth, IdleRefresher
<1>2. OneRefresh
  BY <1>1 DEF OneRefresh, Locked
<1>3. RegistrationsKnown
  BY <1>1 DEF RegistrationsKnown, Present
<1>4. HandsNewest /\ NewestToken
  BY <1>1, Constants DEF HandsNewest, NewestToken, In
<1> QED
  BY <1>2, <1>3, <1>4 DEF TokenInv

\* A calm step of a refresher that stays outside the lock.
LEMMA OutsideKeeps ==
  ASSUME TypeOK, TokenInv, Calm, NEW r \in Refresher, OthersR(r), holder' = holder,
         refreshers[r].pc \notin Locked, refreshers'[r].pc \notin Locked
  PROVE  TokenInv'
<1>1. OneRefresh'
  BY DEF TokenInv, OneRefresh, OthersR
<1>2. RegistrationsKnown'
  BY DEF TokenInv, RegistrationsKnown, OthersR, Calm, Present, Locked
<1>3. HandsNewest'
  BY DEF TokenInv, HandsNewest, OthersR, Calm, In, Locked, history
<1>4. NewestToken'
  BY DEF TokenInv, NewestToken, OthersR, Calm, In, Locked, history, Present
<1> QED
  BY <1>1, <1>2, <1>3, <1>4 DEF TokenInv

LEMMA StillKeeps ==
  ASSUME TypeOK, TokenInv, Calm, UNCHANGED <<refreshers, holder>>
  PROVE  TokenInv'
  BY DEF TokenInv, OneRefresh, RegistrationsKnown, HandsNewest, NewestToken, Calm, In,
     Present, history

\* A calm step with which the holder of the lock goes on without a token in hand, or
\* returns.
LEMMA LeavesKeeps ==
  ASSUME TypeOK, TokenInv, Calm, NEW r \in Refresher, OthersR(r),
         refreshers[r].pc \in {"call", "unschedule"},
         \/ holder' = 0 /\ refreshers'[r].pc \notin Locked
         \/ holder' = holder /\ refreshers'[r].pc = "unschedule"
  PROVE  TokenInv'
<1>1. OneRefresh'
  BY DEF TokenInv, OneRefresh, OthersR, Locked
<1>2. RegistrationsKnown'
  BY DEF TokenInv, RegistrationsKnown, OthersR, Calm, Present, Locked
<1>3. HandsNewest'
  BY DEF TokenInv, HandsNewest, OthersR, Calm, In, Locked, history
<1>4. NewestToken'
  BY DEF TokenInv, NewestToken, OthersR, Calm, In, Locked, history, Present
<1> QED
  BY <1>1, <1>2, <1>3, <1>4 DEF TokenInv

LEMMA TokenStep == TypeOK /\ TokenInv /\ [Next]_vars => TokenInv'
<1> SUFFICES ASSUME TypeOK, TokenInv, [Next]_vars PROVE TokenInv'
  OBVIOUS
<1>0. /\ auth \in AuthType /\ editor \in AuthType /\ epochs \in 1..MaxEpoch
      /\ newest \in [1..MaxEpoch -> Nat]
      /\ \A r \in Refresher : After(r) \notin Locked
  BY DEF TypeOK, CredentialTypes, After, Locked
<1>1. CASE UNCHANGED vars \/ StartAutoRefresh \/ StopAutoRefresh
  BY <1>1, RestIsCalm, StillKeeps DEF vars, machine, StartAutoRefresh, StopAutoRefresh
<1>2. ASSUME NEW l \in Loop, Dispatcher(l)
      PROVE  TokenInv'
  BY <1>2, DispatcherIsCalm, StillKeeps
<1>3. ASSUME NEW l \in Loop, Worker(l)
      PROVE  TokenInv'
  <2>1. Calm /\ l \in Refresher
    BY <1>3, WorkerIsCalm, Constants
  <2>2. CASE WorkerTakes(l)
    BY <2>1, <2>2, WorkerTakesStep, OutsideKeeps DEF Locked, WorkerTakes
  <2>3. CASE WorkerExits(l)
    BY <2>1, <2>3, WorkerExitsStep, OutsideKeeps DEF Locked, WorkerExits
  <2>4. CASE BeginRefreshJob(l)
    BY <2>1, <2>4, BeginStep, OutsideKeeps DEF Locked, BeginRefreshJob
  <2>5. CASE RefreshCancelled(l)
    BY <1>0, <2>1, <2>5, CancelledStep, LeavesKeeps
  <2>6. CASE WorkerFinishes(l)
    BY <2>1, <2>6, FinishesStep, OutsideKeeps DEF Locked
  <2> QED
    BY <1>3, <2>2, <2>3, <2>4, <2>5, <2>6 DEF Worker
<1>4. ASSUME NEW c \in Callers, CallerStarts(c)
      PROVE  TokenInv'
  BY <1>4, CallerStartsStep, RestIsCalm, OutsideKeeps DEF Locked, CallerStarts
<1>5. ASSUME NEW r \in Refresher, ReadForRefresh(r)
      PROVE  TokenInv'
  <2>1. Calm
    BY <1>5, RestIsCalm
  <2>2. CASE refreshers'[r].pc = After(r)
    BY <1>0, <1>5, <2>1, <2>2, ReadStep, OutsideKeeps DEF Locked
  <2>3. CASE refreshers'[r].pc # After(r)
    <3>1. /\ OthersR(r) /\ holder = 0 /\ holder' = r
          /\ refreshers'[r].pc = "call" /\ refreshers'[r].base = auth /\ Present(auth)
          /\ refreshers[r].pc = "lock"
      BY <1>5, <2>3, ReadStep
    <3>2. OneRefresh'
      BY <3>1, Constants DEF TokenInv, OneRefresh, OthersR
    <3>3. auth.epoch \in 1..epochs
      BY <1>0, <3>1 DEF TokenInv, RegistrationsKnown
    <3>4. RegistrationsKnown'
      BY <2>1, <3>1, <3>3 DEF TokenInv, RegistrationsKnown, OthersR, Calm, Present
    <3>5. HandsNewest'
      BY <2>1, <3>1 DEF TokenInv, HandsNewest, OthersR, Calm, In, history
    <3>6. NewestToken'
      BY <2>1, <3>1 DEF TokenInv, NewestToken, OthersR, Calm, In, Present, history
    <3> QED
      BY <3>2, <3>4, <3>5, <3>6 DEF TokenInv
  <2> QED
    BY <2>2, <2>3
<1>6. ASSUME NEW r \in Refresher, ProviderRotates(r)
      PROVE  TokenInv'
  <2> DEFINE e == refreshers[r].base.epoch
  <2>1. /\ OthersR(r) /\ refreshers[r].pc = "call" /\ refreshers'[r].pc = "merge"
        /\ refreshers'[r].base.epoch = e /\ e \in 1..MaxEpoch
        /\ newest' = [newest EXCEPT ![e] = newest[e] + 1]
        /\ refreshers'[r].got.token = newest[e] + 1
        /\ UNCHANGED <<auth, holder, putBack, epochs, editor>>
    BY <1>6, RotatesStep DEF ProviderRotates, OnlyRefresher
  <2>2. holder = r /\ e \in 1..epochs
    BY <2>1 DEF TokenInv, OneRefresh, RegistrationsKnown, Locked
  <2> HIDE DEF e
  <2>3. newest'[e] = newest[e] + 1 /\ \A d \in 1..MaxEpoch : d # e => newest'[d] = newest[d]
    BY <1>0, <2>1
  <2>4. OneRefresh'
    BY <2>1, <2>2 DEF TokenInv, OneRefresh, OthersR
  <2>5. RegistrationsKnown'
    BY <2>1, <2>2 DEF TokenInv, RegistrationsKnown, OthersR
  <2>6. \A q \in Refresher : q # r => ~In(q, "merge")
    BY <2>2 DEF TokenInv, OneRefresh, Locked, In
  <2>7. HandsNewest'
    BY <1>0, <2>1, <2>3, <2>6 DEF TokenInv, HandsNewest, OthersR, In
  <2>8. NewestToken'
    <3>1. CASE auth.epoch = e
      BY <2>1, <3>1 DEF NewestToken, In
    <3>2. CASE auth.epoch # e
      <4>1. Present(auth) => newest'[auth.epoch] = newest[auth.epoch]
        BY <1>0, <2>3, <3>2 DEF AuthType, Present
      <4> QED
        BY <2>1, <2>6, <3>2, <4>1 DEF TokenInv, NewestToken, In
    <3> QED
      BY <3>1, <3>2
  <2> QED
    BY <2>4, <2>5, <2>7, <2>8 DEF TokenInv
<1>7. ASSUME NEW r \in Refresher, UpdateRefreshedAuth(r)
      PROVE  TokenInv'
  <2>1. /\ OthersR(r) /\ refreshers[r].pc = "merge" /\ refreshers'[r].pc = After(r)
        /\ holder' = 0
        /\ UNCHANGED <<history, epochs, editor, clock>>
    BY <1>7, MergeStep DEF UpdateRefreshedAuth, OnlyRefresher
  <2>2. /\ holder = r /\ refreshers[r].base.epoch \in 1..epochs
        /\ refreshers[r].got.token = newest[refreshers[r].base.epoch]
    BY <2>1 DEF TokenInv, OneRefresh, RegistrationsKnown, HandsNewest, Locked, In
  <2>3. OneRefresh'
    BY <1>0, <2>1, <2>2 DEF TokenInv, OneRefresh, OthersR
  <2>4. HandsNewest'
    BY <1>0, <2>1 DEF TokenInv, HandsNewest, OthersR, In, Locked, history
  <2>5. \A q \in Refresher : ~In(q, "merge")'
    BY <1>0, <2>1, <2>2 DEF TokenInv, OneRefresh, Locked, In, OthersR
  <2>6. CASE auth.epoch # refreshers[r].base.epoch /\ UNCHANGED auth
    <3>1. RegistrationsKnown'
      BY <1>0, <2>1, <2>6 DEF TokenInv, RegistrationsKnown, OthersR, Locked
    <3>2. \A q \in Refresher : ~(In(q, "merge") /\ refreshers[q].base.epoch = auth.epoch)
      BY <2>2, <2>6 DEF TokenInv, OneRefresh, Locked, In
    <3>3. NewestToken'
      BY <2>1, <2>6, <3>2 DEF TokenInv, NewestToken, history
    <3> QED
      BY <2>3, <2>4, <3>1, <3>3 DEF TokenInv
  <2>7. CASE /\ auth.epoch = refreshers[r].base.epoch
             /\ auth' = Merged(refreshers[r].base, auth, refreshers[r].got)
    <3>1. auth'.epoch = auth.epoch /\ auth'.token = refreshers[r].got.token
      BY <1>0, <2>7, MergedKeeps, RefresherAt
    <3>2. newest[auth.epoch] >= 1 /\ Present(auth) /\ auth'.token = newest[auth.epoch]
      <4>1. auth.epoch \in 1..epochs /\ auth.epoch \in 1..MaxEpoch
        BY <1>0, <2>2, <2>7, Constants
      <4>2. newest[auth.epoch] >= 1
        BY <4>1 DEF TokenInv, HandsNewest
      <4>3. auth'.token = newest[auth.epoch]
        BY <2>2, <2>7, <3>1
      <4> QED
        BY <1>0, <4>1, <4>2, <4>3 DEF Present
    <3>3. RegistrationsKnown'
      BY <1>0, <2>1, <3>1, <3>2 DEF TokenInv, RegistrationsKnown, OthersR, Locked, Present
    <3>4. NewestToken'
      BY <2>1, <3>1, <3>2 DEF NewestToken, history
    <3> QED
      BY <2>3, <2>4, <3>3, <3>4 DEF TokenInv
  <2> QED
    BY <1>7, <2>6, <2>7, MergeStep DEF Write
<1>8. ASSUME NEW r \in Refresher, RefreshFails(r)
      PROVE  TokenInv'
  <2>1. /\ OthersR(r) /\ refreshers[r].pc = "call"
        /\ \/ refreshers'[r].pc = After(r) /\ holder' = 0
           \/ refreshers'[r].pc = "unschedule" /\ holder' = holder
        /\ UNCHANGED <<history, epochs, editor, clock>>
    BY <1>8, FailsStep DEF RefreshFails, OnlyRefresher
  <2>2. auth'.epoch = auth.epoch /\ auth'.token = auth.token
    BY <1>0, <1>8, FailsStep, FailedKeeps DEF Write
  <2>3. OneRefresh'
    BY <1>0, <2>1 DEF TokenInv, OneRefresh, OthersR, Locked
  <2>4. RegistrationsKnown'
    BY <1>0, <2>1, <2>2 DEF TokenInv, RegistrationsKnown, OthersR, Present, Locked
  <2>5. HandsNewest'
    BY <1>0, <2>1 DEF TokenInv, HandsNewest, OthersR, In, Locked, history
  <2>6. NewestToken'
    BY <1>0, <2>1, <2>2 DEF TokenInv, NewestToken, OthersR, In, Locked, history, Present
  <2> QED
    BY <2>3, <2>4, <2>5, <2>6 DEF TokenInv
<1>9. ASSUME NEW r \in Refresher, Unschedule(r)
      PROVE  TokenInv'
  BY <1>0, <1>9, UnscheduleStep, RestIsCalm, LeavesKeeps
<1>10. CASE GetByID
  <2>1. editor' = auth /\ Present(auth) /\ UNCHANGED <<auth, epochs, history, refreshers, holder>>
    BY <1>10 DEF GetByID, OnlyCredential
  <2> QED
    BY <1>0, <2>1 DEF TokenInv, OneRefresh, RegistrationsKnown, HandsNewest, NewestToken, In,
       Present, history
<1>11. CASE Update
  <2>1. /\ editor # NoAuth /\ editor' = NoAuth
        /\ UNCHANGED <<refreshers, holder, epochs, newest>>
    BY <1>11, UpdateStep
  <2>2. OneRefresh' /\ HandsNewest'
    BY <2>1 DEF TokenInv, OneRefresh, HandsNewest, In
  <2>3. CASE UNCHANGED <<auth, putBack>>
    BY <2>1, <2>2, <2>3 DEF TokenInv, RegistrationsKnown, NewestToken, In, Present
  <2>4. ASSUME NEW off \in BOOLEAN, ~(editor.epoch < epochs), auth' = Edited(off),
               putBack' = (putBack \/ Edited(off).token # auth.token)
        PROVE  TokenInv'
    <3>1. auth'.epoch = editor.epoch /\ auth'.token = editor.token
      BY <2>4, EditedType
    <3>2. editor.epoch = epochs /\ editor.token >= 1 /\ Present(editor)
      BY <1>0, <2>1, <2>4 DEF TokenInv, RegistrationsKnown, AuthType
    <3>3. RegistrationsKnown'
      BY <1>0, <2>1, <3>1, <3>2 DEF TokenInv, RegistrationsKnown, Present
    <3>4. NewestToken'
      <4>1. ~putBack' => ~putBack /\ auth'.token = auth.token
        BY <2>4
      <4>2. ~putBack' => Present(auth) /\ auth.epoch = auth'.epoch
        BY <1>0, <3>1, <3>2, <4>1 DEF TokenInv, RegistrationsKnown, AuthType
      <4> QED
        BY <2>1, <4>1, <4>2 DEF TokenInv, NewestToken, In
    <3> QED
      BY <2>2, <3>3, <3>4 DEF TokenInv
  <2> QED
    BY <1>11, <2>3, <2>4, UpdateStep
<1>12. CASE Register
  <2>1. /\ ~Present(auth) /\ epochs < MaxEpoch /\ epochs' = epochs + 1
        /\ auth'.epoch = epochs + 1 /\ auth'.token = 1
        /\ newest' = [newest EXCEPT ![epochs + 1] = 1]
        /\ UNCHANGED <<refreshers, holder, editor>>
    BY <1>12, RegisterStep
  <2>2. /\ newest'[epochs + 1] = 1
        /\ \A e \in 1..epochs : newest'[e] = newest[e]
        /\ \A e \in 1..MaxEpoch : newest'[e] >= 1
    <3> DEFINE n == epochs + 1
    <3>1. n \in 1..MaxEpoch /\ n \notin 1..epochs /\ \A e \in 1..epochs : e \in 1..MaxEpoch
      BY <1>0, <2>1, Constants
    <3>2. newest' = [newest EXCEPT ![n] = 1]
      BY <2>1
    <3> HIDE DEF n
    <3>3. newest'[n] = 1 /\ \A e \in 1..MaxEpoch : e # n => newest'[e] = newest[e]
      BY <1>0, <3>1, <3>2
    <3>4. \A e \in 1..MaxEpoch : newest[e] >= 1
      BY DEF TokenInv, HandsNewest
    <3>5. newest'[epochs + 1] = 1
      BY <3>3 DEF n
    <3>6. \A e \in 1..epochs : newest'[e] = newest[e]
      BY <3>1, <3>3
    <3>7. \A e \in 1..MaxEpoch : newest'[e] >= 1
      BY <3>3, <3>4
    <3> QED
      BY <3>5, <3>6, <3>7
  <2>3. OneRefresh'
    BY <2>1 DEF TokenInv, OneRefresh
  <2>4. RegistrationsKnown'
    <3>1. epochs \in Nat /\ epochs' \in Nat /\ epochs <= epochs'
      BY <1>0, <2>1
    <3>2. auth'.epoch = epochs' /\ auth'.token = 1 /\ Present(auth')
      BY <2>1, <3>1 DEF Present
    <3>3. editor' # NoAuth => /\ Present(editor') /\ editor'.epoch <= epochs
                              /\ editor'.token >= 1
      BY <2>1 DEF TokenInv, RegistrationsKnown, Present
    <3>4. editor.epoch \in Nat
      BY <1>0 DEF AuthType
    <3>5. \A r \in Refresher : refreshers'[r].pc \in {"call", "merge"} =>
                              refreshers'[r].base.epoch \in 1..epochs
      BY <2>1 DEF TokenInv, RegistrationsKnown
    <3> QED
      BY <2>1, <3>1, <3>2, <3>3, <3>4, <3>5 DEF RegistrationsKnown, Present
  <2>5. HandsNewest'
    <3>1. ASSUME NEW r \in Refresher, In(r, "merge")'
          PROVE  refreshers'[r].got.token = newest'[refreshers'[r].base.epoch]
      <4>1. refreshers[r].pc = "merge" /\ refreshers[r].base.epoch \in 1..epochs
        BY <2>1, <3>1 DEF In, TokenInv, RegistrationsKnown
      <4> QED
        BY <2>1, <2>2, <4>1 DEF TokenInv, HandsNewest, In
    <3> QED
      BY <2>2, <3>1 DEF HandsNewest
  <2>6. NewestToken'
    BY <2>1, <2>2 DEF NewestToken
  <2> QED
    BY <2>3, <2>4, <2>5, <2>6 DEF TokenInv
<1>13. CASE Forget
  <2>1. /\ auth' = NoAuth /\ ~Present(NoAuth) /\ NoAuth.token = 0
        /\ UNCHANGED <<epochs, history, refreshers, holder, editor>>
    BY <1>13 DEF Forget, OnlyCredential, NoAuth, Present
  <2> QED
    BY <2>1 DEF TokenInv, OneRefresh, RegistrationsKnown, HandsNewest, NewestToken, In, history
<1>14. CASE MarkResult
  <2>1. /\ auth'.epoch = auth.epoch /\ auth'.token = auth.token
        /\ UNCHANGED <<epochs, newest, putBack, refreshers, holder, editor>>
    BY <1>14, ResultStep
  <2> QED
    BY <2>1 DEF TokenInv, OneRefresh, RegistrationsKnown, HandsNewest, NewestToken, In, Present
<1>15. CASE Tick
  <2>1. UNCHANGED <<auth, epochs, history, refreshers, holder, editor>>
    BY <1>15 DEF Tick, machine
  <2> QED
    BY <2>1 DEF TokenInv, OneRefresh, RegistrationsKnown, HandsNewest, NewestToken, In,
       Present, history
<1> QED
  BY <1>1, <1>2, <1>3, <1>4, <1>5, <1>6, <1>7, <1>8, <1>9, <1>10, <1>11, <1>12, <1>13, <1>14,
     <1>15 DEF Next, Refresh

\* The refresh lock and the comparison of registrations are enough: between refreshes
\* the credential has the newest token the provider handed out for its registration
\* (UpdateRefreshedAuth), unless an edit put an older copy back.
THEOREM TokenIsNewest == Spec => []NewestToken
<1>1. Init => TypeOK /\ TokenInv
  BY TypesInit, TokenInit
<1>2. (TypeOK /\ TokenInv) /\ [Next]_vars => (TypeOK /\ TokenInv)'
  BY TypesStep, TokenStep
<1>3. TokenInv => NewestToken
  BY DEF TokenInv
<1> QED
  BY <1>1, <1>2, <1>3, PTL DEF Spec


-----------------------------------------------------------------------------
(* The dispatchers that run are the active one and those that were stopped. *)

\* Where the dispatchers go back to.
LEMMA ThenPlaces ==
  ASSUME TypeOK, NEW l \in Loop
  PROVE  loops[l].then \in {"wait", "drain"}
  BY LoopAt DEF TypeOK, MachineTypes

Lives ==
  /\ active \notin ended /\ ended \subseteq Loop
  /\ \A l \in Loop :
       /\ loops[l].pc # "off" => l = active \/ l \in ended
       /\ loops[l].pc \in {"release", "end"} => l \in ended
       /\ l = active => loops[l].pc # "off"

LEMMA LivesInit == Init => Lives
<1> SUFFICES ASSUME Init PROVE Lives
  OBVIOUS
<1>1. active = 0 /\ ended = {} /\ \A l \in Loop : loops[l].pc = "off" /\ l # 0
  BY Constants DEF Init, IdleLoop
<1> QED
  BY <1>1 DEF Lives

\* A step of dispatcher l goes from one of its places to another.
LEMMA DispatcherPlaces ==
  ASSUME TypeOK, NEW l \in Loop, Dispatcher(l)
  PROVE  /\ \A k \in Loop : k # l => loops'[k].pc = loops[k].pc
         /\ loops[l].pc # "off" /\ loops'[l].pc # "off"
         /\ loops'[l].pc \in {"release", "end"} =>
              l \in ended \/ loops[l].pc = "release"
         /\ UNCHANGED <<active, ended>>
<1>1. /\ \A k \in Loop : k # l => loops'[k].pc = loops[k].pc
      /\ loops[l].pc # "off" /\ loops'[l].pc # "off"
      /\ loops'[l].pc \in {"release", "end"} => l \in ended \/ loops[l].pc = "release"
  <2>1. CASE Rebuild(l)
    BY <2>1, RebuildStep DEF Others
  <2>2. CASE ApplyDirty(l)
    BY <2>2, ApplyDirtyStep, ThenPlaces DEF Others
  <2>3. CASE HandleDueAuth(l)
    BY <2>3, HandleDueStep DEF Others
  <2>4. CASE MarkRefreshPending(l)
    BY <2>4, MarkStep DEF OthersMarked, SameBut
  <2>5. CASE LookAgain(l)
    BY <2>5, LookAgainStep, ThenPlaces DEF Others
  <2>6. CASE SendJob(l)
    BY <2>6, SendStep DEF Others
  <2>7. CASE GiveBackJob(l)
    BY <2>7, GiveBackStep, ThenPlaces DEF OthersMarked, SameBut
  <2>8. CASE Remove(l)
    BY <2>8, RemoveStep, ThenPlaces DEF Others
  <2>9. CASE LoopEnds(l)
    BY <2>9, LoopEndsStep DEF Others
  <2>10. CASE ReleaseQueuedJob(l)
    BY <2>10, ReleaseStep DEF OthersMarked, SameBut
  <2> QED
    BY <2>1, <2>2, <2>3, <2>4, <2>5, <2>6, <2>7, <2>8, <2>9, <2>10 DEF Dispatcher
<1>2. UNCHANGED <<active, ended>>
  BY DEF Dispatcher, Rebuild, ApplyDirty, HandleDueAuth, MarkRefreshPending, LookAgain, SendJob,
     GiveBackJob, Remove, LoopEnds, ReleaseQueuedJob, OnlyLoops
<1> QED
  BY <1>1, <1>2

\* Nobody else moves a dispatcher.
LEMMA OthersLeavePlaces ==
  ASSUME TypeOK,
         \/ \E l \in Loop : Worker(l)
         \/ \E c \in Callers : CallerStarts(c)
         \/ \E r \in Refresher : Refresh(r)
         \/ GetByID \/ Update \/ Register \/ Forget \/ MarkResult \/ Tick
         \/ UNCHANGED vars
  PROVE  /\ \A k \in Loop : loops'[k].pc = loops[k].pc
         /\ UNCHANGED <<active, ended>>
<1>0. loops \in Dispatchers
  BY DEF TypeOK, MachineTypes
<1>1. /\ \/ UNCHANGED loops
         \/ loops' = Marked(loops)
         \/ \E l \in Loop : WorkerTakes(l)
         \/ \E r \in Refresher : Unschedule(r)
      /\ UNCHANGED <<active, ended>>
  <2>1. ASSUME NEW l \in Loop, Worker(l)
        PROVE  <1>1!:
    BY <2>1, FinishesStep DEF Worker, WorkerTakes, WorkerExits, BeginRefreshJob, RefreshCancelled,
       WorkerFinishes, OnlyRefresher
  <2>2. ASSUME NEW r \in Refresher, Refresh(r)
        PROVE  <1>1!:
    BY <2>2, FailsStep, MergeStep DEF Refresh, ReadForRefresh, ProviderRotates,
       UpdateRefreshedAuth, RefreshFails, Unschedule, OnlyRefresher
  <2> QED
    BY <2>1, <2>2, UpdateStep, RegisterStep
    DEF CallerStarts, GetByID, Forget, MarkResult, Tick, vars, machine, OnlyRefresher,
        OnlyCredential
<1> QED
  BY <1>0, <1>1, TellFacts, WorkerTakesStep, UnscheduleStep DEF Others, SameBut

LEMMA LivesStep == TypeOK /\ Lives /\ [Next]_vars => Lives'
<1> SUFFICES ASSUME TypeOK, Lives, [Next]_vars PROVE Lives'
  OBVIOUS
<1>1. CASE StartAutoRefresh
  <2>1. PICK l \in Loop : /\ active = 0 /\ active' = l /\ l \notin ended /\ Others(l)
                          /\ loops'[l].pc = "rebuild"
    BY <1>1, StartStep
  <2>2. UNCHANGED ended
    BY <1>1, StartStep
  <2> QED
    BY <2>1, <2>2, Constants DEF Lives, Others
<1>2. CASE StopAutoRefresh
  <2>1. /\ active # 0 /\ active' = 0 /\ ended' = ended \cup {active}
        /\ UNCHANGED loops
    BY <1>2 DEF StopAutoRefresh
  <2>2. active \in Loop /\ \A l \in Loop : l # 0
    BY <2>1, Constants DEF TypeOK, MachineTypes, Loop
  <2> QED
    BY <2>1, <2>2 DEF Lives
<1>3. ASSUME NEW l \in Loop, Dispatcher(l)
      PROVE  Lives'
  BY <1>3, DispatcherPlaces DEF Lives
<1> QED
  BY <1>1, <1>2, <1>3, OthersLeavePlaces DEF Lives, Next

-----------------------------------------------------------------------------
(* A job that is marked as pending is held by its loop or by its worker.   *)

\* A loop, its queue and its worker have jobs of the loop only.
OwnJobs ==
  \A l \in Loop :
    /\ refreshers[l].pc \in {"idle", "done"} => refreshers[l].job = NoJob
    /\ refreshers[l].pc = "begin" => refreshers[l].job # NoJob
    /\ refreshers[l].job # NoJob => refreshers[l].job.loop = l
    /\ loops[l].jobs # NoJob => loops[l].jobs.loop = l
    /\ loops[l].pc \in {"mark", "send", "release"} => loops[l].hand.loop = l

\* The job in hand is the one that is pending, if that is the loop's.
InHand ==
  \A l \in Loop :
    loops[l].pc \in {"send", "release"} /\ pending.job.loop = l => pending.job = loops[l].hand

\* A job that runs is with its worker.
Runs ==
  pending.running => /\ pending.job.loop \in Loop
                     /\ refreshers[pending.job.loop].job = pending.job

HeldBy(l) ==
  \/ loops[l].pc \in {"send", "release"} /\ loops[l].hand = pending.job
  \/ loops[l].jobs = pending.job /\ loops[l].pc # "end"
  \/ refreshers[l].job = pending.job
HeldByItsLoop ==
  pending.job # NoJob => pending.job.loop \in Loop /\ HeldBy(pending.job.loop)

JobInv == OwnJobs /\ InHand /\ Runs /\ HeldByItsLoop

LEMMA JobInit == Init => JobInv
<1> SUFFICES ASSUME Init PROVE JobInv
  OBVIOUS
<1>1. /\ pending = [job |-> NoJob, running |-> FALSE]
      /\ loops = [l \in Loop |-> IdleLoop]
      /\ refreshers = [r \in Refresher |-> IdleRefresher]
      /\ IdleLoop.pc = "off" /\ IdleLoop.jobs = NoJob
      /\ IdleRefresher.pc = "idle" /\ IdleRefresher.job = NoJob
  BY DEF Init, IdleLoop, IdleRefresher
<1> QED
  BY <1>1, Constants DEF JobInv, OwnJobs, InHand, Runs, HeldByItsLoop

LEMMA JobsImplyHeld == JobInv => NoPhantomJob
  BY DEF JobInv, HeldByItsLoop, HeldBy, NoPhantomJob, Held, At

NoJobLoop == NoJob.loop = 0
LEMMA NoLoop == NoJobLoop /\ \A l \in Loop : l # 0
  BY Constants DEF NoJob, NoJobLoop

\* The workers and what they have in hand stay.
WorkersSame ==
  \A l \in Loop :
    /\ refreshers'[l].job = refreshers[l].job
    /\ refreshers'[l].pc \in {"idle", "done"} => refreshers[l].pc \in {"idle", "done"}
    /\ refreshers'[l].pc = "begin" => refreshers[l].pc = "begin"

LoopsSame ==
  \A l \in Loop : /\ loops'[l].pc = loops[l].pc /\ loops'[l].hand = loops[l].hand
                  /\ loops'[l].jobs = loops[l].jobs

LEMMA SameJobs ==
  ASSUME JobInv, WorkersSame, LoopsSame, pending' = pending
  PROVE  JobInv'
<1>1. OwnJobs'
  BY DEF JobInv, OwnJobs, WorkersSame, LoopsSame
<1>2. InHand'
  BY DEF JobInv, InHand, LoopsSame
<1>3. Runs' /\ HeldByItsLoop'
  BY DEF JobInv, Runs, HeldByItsLoop, HeldBy, WorkersSame, LoopsSame
<1> QED
  BY <1>1, <1>2, <1>3 DEF JobInv

\* Once no job is pending, only OwnJobs is left to say.
LEMMA NothingPending ==
  ASSUME pending'.job = NoJob, ~pending'.running, OwnJobs'
  PROVE  JobInv'
  BY NoLoop DEF JobInv, InHand, Runs, HeldByItsLoop, NoJobLoop

LEMMA StillWorkers ==
  ASSUME UNCHANGED refreshers
  PROVE  WorkersSame
  BY DEF WorkersSame

LEMMA MarkedLoopsSame ==
  ASSUME TypeOK, loops' = loops \/ loops' = Marked(loops)
  PROVE  LoopsSame
<1>1. loops \in Dispatchers
  BY DEF TypeOK, MachineTypes
<1> QED
  BY <1>1, TellFacts DEF LoopsSame, SameBut

\* A step of dispatcher l that leaves the pending job alone.
LEMMA LoopKeepsJobs ==
  ASSUME TypeOK, JobInv, NEW l \in Loop, Others(l),
         UNCHANGED <<pending, refreshers>>,
         loops'[l].jobs = loops[l].jobs,
         loops[l].pc \notin {"send", "release"},
         loops'[l].pc \notin {"send", "release", "end"},
         loops'[l].pc = "mark" => loops'[l].hand.loop = l
  PROVE  JobInv'
<1>1. OwnJobs'
  BY DEF JobInv, OwnJobs, Others
<1>2. InHand'
  BY DEF JobInv, InHand, Others
<1>3. Runs'
  BY DEF JobInv, Runs
<1>4. HeldByItsLoop'
  BY DEF JobInv, HeldByItsLoop, HeldBy, Others
<1> QED
  BY <1>1, <1>2, <1>3, <1>4 DEF JobInv

LEMMA DispatcherJobs ==
  ASSUME TypeOK, JobInv, NEW l \in Loop, Dispatcher(l)
  PROVE  JobInv'
<1>0. UNCHANGED refreshers
  BY DispatcherIsCalm
<1>1. CASE Rebuild(l)
  BY <1>0, <1>1, RebuildStep, LoopKeepsJobs DEF Rebuild, OnlyLoops
<1>2. CASE ApplyDirty(l)
  BY <1>0, <1>2, ApplyDirtyStep, ThenPlaces, LoopKeepsJobs DEF ApplyDirty, OnlyLoops
<1>3. CASE HandleDueAuth(l)
  BY <1>0, <1>3, HandleDueStep, LoopKeepsJobs DEF HandleDueAuth, OnlyLoops
<1>4. CASE MarkRefreshPending(l)
  <2>1. /\ OthersMarked(l) /\ loops[l].pc = "mark"
        /\ loops'[l].jobs = loops[l].jobs /\ loops'[l].hand = loops[l].hand
    BY <1>4, MarkStep
  <2>2. CASE /\ pending.job = NoJob
             /\ pending' = [job |-> loops[l].hand, running |-> FALSE]
             /\ loops'[l].pc = "send"
    <3>1. loops[l].hand.loop = l
      BY <2>1 DEF JobInv, OwnJobs
    <3>2. OwnJobs'
      BY <1>0, <2>1, <2>2, <3>1 DEF JobInv, OwnJobs, OthersMarked, SameBut
    <3>3. InHand'
      BY <2>1, <2>2, <3>1 DEF InHand, OthersMarked, SameBut
    <3>4. Runs'
      BY <2>2 DEF Runs
    <3>5. HeldByItsLoop'
      BY <2>1, <2>2, <3>1 DEF HeldByItsLoop, HeldBy
    <3> QED
      BY <3>2, <3>3, <3>4, <3>5 DEF JobInv
  <2>3. CASE UNCHANGED pending /\ loops'[l].pc = "again" /\ Others(l)
    BY <1>0, <2>1, <2>3, LoopKeepsJobs
  <2> QED
    BY <1>4, <2>2, <2>3, MarkStep
<1>5. CASE LookAgain(l)
  BY <1>0, <1>5, LookAgainStep, ThenPlaces, LoopKeepsJobs DEF LookAgain, OnlyLoops
<1>6. CASE SendJob(l)
  <2>1. /\ Others(l) /\ loops[l].pc = "send" /\ loops'[l].pc = "drain"
        /\ loops'[l].jobs = loops[l].hand /\ UNCHANGED pending
    BY <1>6, SendStep
  <2>2. OwnJobs'
    BY <1>0, <2>1 DEF JobInv, OwnJobs, Others
  <2>3. InHand' /\ Runs'
    BY <1>0, <2>1 DEF JobInv, InHand, Runs, Others
  <2>4. HeldByItsLoop'
    BY <1>0, <2>1 DEF JobInv, HeldByItsLoop, HeldBy, InHand, Others
  <2> QED
    BY <2>2, <2>3, <2>4 DEF JobInv
<1>7. CASE GiveBackJob(l)
  <2>1. /\ OthersMarked(l) /\ loops[l].pc = "send"
        /\ loops'[l].pc \in {"wait", "drain"}
        /\ loops'[l].hand = NoJob /\ loops'[l].jobs = loops[l].jobs
    BY <1>7, GiveBackStep, ThenPlaces
  <2>2. OwnJobs'
    BY <1>0, <2>1 DEF JobInv, OwnJobs, OthersMarked, SameBut
  <2>3. CASE pending.job # loops[l].hand /\ UNCHANGED pending
    <3>1. pending.job.loop # l
      BY <2>1, <2>3 DEF JobInv, InHand
    <3>2. InHand' /\ Runs'
      BY <1>0, <2>1, <2>3 DEF JobInv, InHand, Runs, OthersMarked, SameBut
    <3>3. HeldByItsLoop'
      BY <1>0, <2>3, <2>1, <3>1 DEF JobInv, HeldByItsLoop, HeldBy, OthersMarked, SameBut
    <3> QED
      BY <2>2, <3>2, <3>3 DEF JobInv
  <2>4. CASE pending'.job = NoJob /\ ~pending'.running
    BY <2>2, <2>4, NothingPending
  <2> QED
    BY <1>7, <2>3, <2>4, GiveBackStep
<1>8. CASE Remove(l)
  BY <1>0, <1>8, RemoveStep, ThenPlaces, LoopKeepsJobs
<1>9. CASE LoopEnds(l)
  <2>1. /\ Others(l) /\ loops[l].pc = "wait" /\ loops'[l].jobs = loops[l].jobs
        /\ UNCHANGED pending
        /\ \/ /\ pending.job.loop = l
              /\ loops'[l].pc = "release" /\ loops'[l].hand = pending.job
           \/ /\ pending.job.loop = l => pending.running
              /\ loops'[l].pc = "end"
    BY <1>9, LoopEndsStep
  <2>2. OwnJobs'
    BY <1>0, <2>1 DEF JobInv, OwnJobs, Others
  <2>3. InHand' /\ Runs'
    BY <1>0, <2>1 DEF JobInv, InHand, Runs, Others
  <2>4. HeldByItsLoop'
    BY <1>0, <2>1 DEF JobInv, HeldByItsLoop, HeldBy, Runs, Others
  <2> QED
    BY <2>2, <2>3, <2>4 DEF JobInv
<1>10. CASE ReleaseQueuedJob(l)
  <2>1. /\ OthersMarked(l) /\ loops[l].pc = "release" /\ loops'[l].pc = "end"
        /\ loops'[l].jobs = loops[l].jobs
    BY <1>10, ReleaseStep
  <2>2. OwnJobs'
    BY <1>0, <2>1 DEF JobInv, OwnJobs, OthersMarked, SameBut
  <2>3. CASE (pending.job # loops[l].hand \/ pending.running) /\ UNCHANGED pending
    <3>1. pending.job.loop = l => pending.running
      BY <2>1, <2>3 DEF JobInv, InHand
    <3>2. InHand' /\ Runs'
      BY <1>0, <2>1, <2>3 DEF JobInv, InHand, Runs, OthersMarked, SameBut
    <3>3. HeldByItsLoop'
      BY <1>0, <2>3, <2>1, <3>1 DEF JobInv, HeldByItsLoop, HeldBy, Runs, OthersMarked, SameBut
    <3> QED
      BY <2>2, <3>2, <3>3 DEF JobInv
  <2>4. CASE pending'.job = NoJob /\ ~pending'.running
    BY <2>2, <2>4, NothingPending
  <2> QED
    BY <1>10, <2>3, <2>4, ReleaseStep
<1> QED
  BY <1>1, <1>2, <1>3, <1>4, <1>5, <1>6, <1>7, <1>8, <1>9, <1>10 DEF Dispatcher

LEMMA WorkerJobs ==
  ASSUME TypeOK, JobInv, NEW l \in Loop, Worker(l)
  PROVE  JobInv'
<1>0. After(l) = "finish" /\ l \in Refresher /\ \A k \in Loop : k \in Refresher
  BY Constants DEF After
<1>1. CASE WorkerTakes(l)
  <2>1. /\ Others(l) /\ OthersR(l)
        /\ refreshers[l].pc = "idle" /\ refreshers'[l].pc = "begin"
        /\ loops[l].jobs # NoJob /\ refreshers'[l].job = loops[l].jobs
        /\ loops'[l].pc = loops[l].pc /\ loops'[l].hand = loops[l].hand
        /\ loops'[l].jobs = NoJob /\ UNCHANGED pending
    BY <1>1, WorkerTakesStep
  <2>2. OwnJobs'
    BY <1>0, <2>1 DEF JobInv, OwnJobs, Others, OthersR
  <2>3. InHand'
    BY <1>0, <2>1 DEF JobInv, InHand, Others
  <2>4. Runs'
    <3>1. pending.running => pending.job # NoJob
      BY NoLoop DEF JobInv, Runs, NoJobLoop
    <3> QED
      BY <1>0, <2>1, <3>1 DEF JobInv, Runs, OwnJobs, OthersR
  <2>5. HeldByItsLoop'
    BY <1>0, <2>1 DEF JobInv, HeldByItsLoop, HeldBy, OwnJobs, Others, OthersR
  <2> QED
    BY <2>2, <2>3, <2>4, <2>5 DEF JobInv
<1>2. CASE WorkerExits(l)
  <2>1. WorkersSame /\ LoopsSame /\ UNCHANGED pending
    BY <1>0, <1>2, WorkerExitsStep DEF WorkersSame, LoopsSame, OthersR
  <2> QED
    BY <2>1, SameJobs
<1>3. CASE BeginRefreshJob(l)
  <2>1. /\ OthersR(l) /\ refreshers[l].pc = "begin"
        /\ refreshers'[l].job = refreshers[l].job
        /\ refreshers'[l].pc \in {"lock", "finish"}
        /\ pending'.job = pending.job
        /\ pending'.running => pending.running \/ pending.job = refreshers[l].job
        /\ UNCHANGED loops
    BY <1>3, BeginStep
  <2>2. refreshers[l].job # NoJob /\ refreshers[l].job.loop = l
    BY <2>1 DEF JobInv, OwnJobs
  <2>3. OwnJobs'
    BY <1>0, <2>1, <2>2 DEF JobInv, OwnJobs, OthersR
  <2>4. InHand' /\ Runs'
    BY <1>0, <2>1, <2>2 DEF JobInv, InHand, Runs, OthersR
  <2>5. HeldByItsLoop'
    BY <1>0, <2>1 DEF JobInv, HeldByItsLoop, HeldBy, OthersR
  <2> QED
    BY <2>3, <2>4, <2>5 DEF JobInv
<1>4. CASE RefreshCancelled(l)
  <2>1. WorkersSame /\ LoopsSame /\ UNCHANGED pending
    BY <1>0, <1>4, CancelledStep DEF WorkersSame, LoopsSame, OthersR
  <2> QED
    BY <2>1, SameJobs
<1>5. CASE WorkerFinishes(l)
  <2>1. /\ OthersR(l)
        /\ refreshers'[l].pc = "idle" /\ refreshers'[l].job = NoJob
        /\ \A k \in Loop : SameBut(loops'[k], loops[k])
    BY <1>5, FinishesStep
  <2>2. OwnJobs'
    BY <1>0, <2>1 DEF JobInv, OwnJobs, OthersR, SameBut
  <2>3. CASE pending.job # refreshers[l].job /\ UNCHANGED pending
    <3>1. InHand'
      BY <2>1, <2>3 DEF JobInv, InHand, SameBut
    <3>2. Runs'
      BY <1>0, <2>1, <2>3 DEF JobInv, Runs, OthersR
    <3>3. HeldByItsLoop'
      BY <1>0, <2>1, <2>3 DEF JobInv, HeldByItsLoop, HeldBy, OthersR, SameBut
    <3> QED
      BY <2>2, <3>1, <3>2, <3>3 DEF JobInv
  <2>4. CASE pending'.job = NoJob /\ ~pending'.running
    BY <2>2, <2>4, NothingPending
  <2> QED
    BY <1>5, <2>3, <2>4, FinishesStep
<1> QED
  BY <1>1, <1>2, <1>3, <1>4, <1>5 DEF Worker

LEMMA JobStep == TypeOK /\ Lives /\ JobInv /\ [Next]_vars => JobInv'
<1> SUFFICES ASSUME TypeOK, Lives, JobInv, [Next]_vars PROVE JobInv'
  OBVIOUS
<1>0. /\ \A l \in Loop : l \in Refresher /\ After(l) = "finish" /\ l \notin Callers
      /\ \A c \in Callers : After(c) = "done" /\ c \in Refresher /\ c \notin Loop
  BY Constants DEF After, Refresher
<1>1. CASE StartAutoRefresh
  <2>1. PICK l \in Loop : /\ active = 0 /\ l \notin ended /\ Others(l)
                          /\ loops'[l].pc = "rebuild"
                          /\ loops'[l].jobs = loops[l].jobs /\ loops'[l].hand = loops[l].hand
    BY <1>1, StartStep
  <2>2. UNCHANGED <<pending, refreshers>>
    BY <1>1, StartStep
  <2>3. loops[l].pc = "off"
    BY <2>1, Constants DEF Lives
  <2> QED
    BY <2>1, <2>2, <2>3, LoopKeepsJobs
<1>2. CASE UNCHANGED vars \/ StopAutoRefresh \/ GetByID \/ Forget \/ MarkResult \/ Tick
  <2>1. UNCHANGED <<pending, refreshers, loops>>
    BY <1>2 DEF vars, machine, StopAutoRefresh, GetByID, Forget, MarkResult, OnlyCredential, Tick
  <2> QED
    BY <2>1, SameJobs DEF WorkersSame, LoopsSame
<1>3. ASSUME NEW l \in Loop, Dispatcher(l)
      PROVE  JobInv'
  BY <1>3, DispatcherJobs
<1>4. ASSUME NEW l \in Loop, Worker(l)
      PROVE  JobInv'
  BY <1>4, WorkerJobs
<1>5. ASSUME NEW c \in Callers, CallerStarts(c)
      PROVE  JobInv'
  <2>1. WorkersSame /\ LoopsSame /\ UNCHANGED pending
    BY <1>0, <1>5, CallerStartsStep DEF WorkersSame, LoopsSame, OthersR
  <2> QED
    BY <2>1, SameJobs
<1>6. ASSUME NEW r \in Refresher, Refresh(r)
      PROVE  JobInv'
  <2>1. /\ OthersR(r) /\ refreshers'[r].job = refreshers[r].job /\ UNCHANGED pending
        /\ r \in Loop => refreshers'[r].pc \notin {"idle", "done", "begin"}
    BY <1>0, <1>6, ReadStep, RotatesStep, MergeStep, FailsStep, UnscheduleStep DEF Refresh
  <2>2. LoopsSame
    <3>1. CASE Unschedule(r)
      BY <3>1, UnscheduleStep DEF LoopsSame
    <3>2. CASE ReadForRefresh(r) \/ ProviderRotates(r) \/ UpdateRefreshedAuth(r)
               \/ RefreshFails(r)
      BY <3>2, ReadStep, RotatesStep, MergeStep, FailsStep, MarkedLoopsSame
    <3> QED
      BY <1>6, <3>1, <3>2 DEF Refresh
  <2>3. WorkersSame
    BY <1>0, <2>1 DEF WorkersSame, OthersR
  <2> QED
    BY <2>1, <2>2, <2>3, SameJobs
<1>7. CASE Update \/ Register
  <2>1. /\ loops' = loops \/ loops' = Marked(loops)
        /\ UNCHANGED <<pending, refreshers>>
    BY <1>7, UpdateStep, RegisterStep
  <2> QED
    BY <2>1, MarkedLoopsSame, StillWorkers, SameJobs
<1> QED
  BY <1>1, <1>2, <1>3, <1>4, <1>5, <1>6, <1>7 DEF Next

\* The job that keeps the credential from being marked again is with somebody who
\* finishes it: its worker, the loop, or the queue of a loop that has not ended
\* (handleDueAuth, releaseQueuedJobs, finishRefreshJob).
THEOREM JobsAreHeld == Spec => []NoPhantomJob
<1>1. Init => TypeOK /\ Lives /\ JobInv
  BY TypesInit, LivesInit, JobInit
<1>2. (TypeOK /\ Lives /\ JobInv) /\ [Next]_vars => (TypeOK /\ Lives /\ JobInv)'
  BY TypesStep, LivesStep, JobStep
<1>3. JobInv => NoPhantomJob
  BY JobsImplyHeld
<1> QED
  BY <1>1, <1>2, <1>3, PTL DEF Spec


-----------------------------------------------------------------------------
(* The active loop looks at the credential in time.                        *)

\* Where a dispatcher is in its round, and the time the round began.
Rounds ==
  \A l \in Loop :
    /\ loops[l].pc \in {"off", "rebuild", "wait", "drain"} => loops[l].then = "wait"
    /\ loops[l].pc \in {"mark", "again", "send"} => loops[l].then = "drain"
    /\ loops[l].pc \in {"mark", "again", "send", "drain"} => loops[l].now \in 1..clock
    /\ loops[l].pc = "remove" /\ loops[l].then = "drain" => loops[l].now \in 1..clock

Bound == Latest(clock, NextCheck(auth, clock)) + Interval
Wanted == Refreshable(auth) /\ pending.job = NoJob /\ ~revived

\* The mark outlasts the round over the queue, and the round over the marks sets the
\* next look.
SeenBy(l) ==
  /\ loops[l].pc = "wait" => (loops[l].dirty /\ loops[l].wake) \/ loops[l].next \in 1..Bound
  /\ loops[l].pc = "drain" => loops[l].dirty \/ loops[l].next \in 1..Bound
  /\ loops[l].pc = "send" => loops[l].dirty
Seen == \A l \in Loop : l = active /\ Wanted => SeenBy(l)

WatchInv == Rounds /\ Seen

LEMMA WatchInit == Init => WatchInv
<1> SUFFICES ASSUME Init PROVE WatchInv
  OBVIOUS
<1>1. /\ active = 0 /\ \A l \in Loop : l # 0
      /\ \A l \in Loop : loops[l].pc = "off" /\ loops[l].then = "wait"
  BY Constants DEF Init, IdleLoop
<1> QED
  BY <1>1 DEF WatchInv, Rounds, Seen

LEMMA SeenImplyWatched == WatchInv => Watched
  BY DEF WatchInv, Seen, SeenBy, Wanted, Bound, Watched, Waiting, At, Scheduled

LEMMA WriteRevives ==
  ASSUME NEW a, Write(a), ~revived'
  PROVE  ~revived /\ (Refreshable(a) => Refreshable(auth)) /\ auth' = a
  BY Zenon DEF Write

LEMMA TakenOutRevives ==
  ASSUME NEW l, TakenOut(l), ~revived'
  PROVE  ~revived /\ (l = active => ~Refreshable(auth))
  BY Zenon DEF TakenOut

\* The bound is a time, and time does not bring it forward.
LEMMA BoundTime ==
  ASSUME TypeOK
  PROVE  /\ NextCheck(auth, clock) \in 1..Bound /\ Bound \in Nat
         /\ \A now \in 1..clock :
              /\ NextCheck(auth, now) \in 1..Bound
              /\ now + Interval \in 1..Bound
<1>0. /\ auth \in AuthType /\ clock \in Nat \ {0} /\ Interval \in Nat \ {0} /\ Lead \in Nat
      /\ NextCheck(auth, clock) \in Nat /\ NextCheck(auth, clock) >= clock
  BY CheckType, Constants DEF TypeOK, CredentialTypes
<1>1. Bound \in Nat /\ Bound >= NextCheck(auth, clock) + Interval /\ Bound >= clock + Interval
  BY <1>0 DEF Bound, Latest
<1>2. ASSUME NEW now \in 1..clock
      PROVE  NextCheck(auth, now) \in Nat /\ NextCheck(auth, now) >= now
             /\ NextCheck(auth, now) <= NextCheck(auth, clock)
  <2>1. auth.after \in Nat /\ Due(auth) \in Int
    BY <1>0 DEF AuthType, Due
  <2> QED
    BY <1>0, <2>1 DEF NextCheck, Latest
<1> QED
  BY <1>0, <1>1, <1>2

LEMMA BoundGrows ==
  ASSUME TypeOK, clock' = clock + 1, UNCHANGED auth
  PROVE  1..Bound \subseteq 1..Bound'
<1>0. /\ auth \in AuthType /\ clock \in Nat \ {0} /\ Interval \in Nat \ {0} /\ Lead \in Nat
  BY Constants DEF TypeOK, CredentialTypes
<1>1. auth.after \in Nat /\ Due(auth) \in Int
  BY <1>0 DEF AuthType, Due
<1>2. NextCheck(auth, clock) <= NextCheck(auth, clock + 1)
      /\ NextCheck(auth, clock) \in Int /\ NextCheck(auth, clock + 1) \in Int
  BY <1>0, <1>1 DEF NextCheck, Latest
<1>3. Latest(clock, NextCheck(auth, clock)) <= Latest(clock + 1, NextCheck(auth, clock + 1))
      /\ Latest(clock, NextCheck(auth, clock)) \in Int
      /\ Latest(clock + 1, NextCheck(auth, clock + 1)) \in Int
  BY <1>0, <1>2 DEF Latest
<1>4. Bound' = Latest(clock + 1, NextCheck(auth, clock + 1)) + Interval
  BY DEF Bound
<1> QED
  BY <1>0, <1>3, <1>4 DEF Bound

\* The bound only depends on when the token expires and on when it may be refreshed.
LEMMA SameBound ==
  ASSUME UNCHANGED clock, auth'.expires = auth.expires, auth'.after = auth.after
  PROVE  Bound' = Bound
<1>1. NextCheck(auth', clock') = NextCheck(auth, clock)
  BY DEF NextCheck, Due
<1>2. Bound' = Latest(clock', NextCheck(auth', clock')) + Interval
  BY DEF Bound
<1> QED
  BY <1>1, <1>2 DEF Bound

\* What a step leaves of a dispatcher it may only mark.
Stays(l) ==
  /\ loops'[l].pc = loops[l].pc /\ loops'[l].then = loops[l].then
  /\ loops'[l].now = loops[l].now /\ loops'[l].next = loops[l].next
  /\ loops[l].dirty => loops'[l].dirty
  /\ loops[l].wake => loops'[l].wake
Woken == \A l \in Loop : l = active => loops'[l].dirty /\ loops'[l].wake

\* Another dispatcher than the active one may be the cause, or none.
LEMMA WokenKeeps ==
  ASSUME TypeOK, WatchInv, UNCHANGED <<clock, active>>,
         \A l \in Loop : l = active => Stays(l),
         Rounds', Woken
  PROVE  WatchInv'
<1>1. SeenBy(active)' \/ active \notin Loop
  BY DEF SeenBy, Woken
<1> QED
  BY <1>1 DEF WatchInv, Seen

LEMMA QuietKeeps ==
  ASSUME TypeOK, WatchInv, UNCHANGED active,
         \A l \in Loop : l = active => Stays(l),
         Rounds', Wanted' => Wanted, 1..Bound \subseteq 1..Bound'
  PROVE  WatchInv'
<1>1. ASSUME NEW l \in Loop, l = active, Wanted'
      PROVE  SeenBy(l)'
  <2>1. SeenBy(l) /\ Stays(l)
    BY <1>1 DEF WatchInv, Seen
  <2> QED
    BY <2>1 DEF SeenBy, Stays
<1>2. Seen'
  BY <1>1 DEF Seen
<1> QED
  BY <1>2 DEF WatchInv

LEMMA UnwantedKeeps ==
  ASSUME Rounds', ~Wanted'
  PROVE  WatchInv'
  BY DEF WatchInv, Seen

LEMMA StayRounds ==
  ASSUME WatchInv, \A l \in Loop : Stays(l), UNCHANGED clock
  PROVE  Rounds'
  BY DEF WatchInv, Rounds, Stays

LEMMA MarkedStays ==
  ASSUME TypeOK, loops' = Marked(loops)
  PROVE  (\A l \in Loop : Stays(l)) /\ Woken
<1>1. loops \in Dispatchers
  BY DEF TypeOK, MachineTypes
<1> QED
  BY <1>1, TellFacts DEF Stays, Woken, SameBut

LEMMA SameStays ==
  ASSUME UNCHANGED loops
  PROVE  \A l \in Loop : Stays(l)
  BY DEF Stays


\* The round of dispatcher l goes on, the others are at most marked.
LEMMA RoundGoesOn ==
  ASSUME TypeOK, WatchInv, UNCHANGED clock, NEW l \in Loop,
         \A k \in Loop : k # l => Stays(k),
         loops'[l].pc \in {"off", "rebuild", "wait", "drain"} => loops'[l].then = "wait",
         loops'[l].pc \in {"mark", "again", "send"} => loops'[l].then = "drain",
         \/ loops'[l].pc \in {"mark", "again", "send", "drain"}
         \/ loops'[l].pc = "remove" /\ loops'[l].then = "drain"
         => loops'[l].now \in 1..clock
  PROVE  Rounds'
  BY DEF WatchInv, Rounds, Stays

LEMMA OthersStay ==
  ASSUME NEW l \in Loop, Others(l) \/ OthersMarked(l)
  PROVE  \A k \in Loop : k # l => Stays(k)
  BY DEF Others, OthersMarked, Stays, SameBut

LEMMA RebuildWatch ==
  ASSUME TypeOK, WatchInv, NEW l \in Loop, Rebuild(l)
  PROVE  WatchInv'
<1>1. /\ Others(l) /\ loops[l].pc = "rebuild" /\ loops'[l].pc = "wait"
      /\ loops'[l].next = IF Refreshable(auth) THEN NextCheck(auth, clock) ELSE 0
      /\ loops'[l].then = loops[l].then
      /\ l # active /\ ~revived' => ~revived
      /\ UNCHANGED <<auth, pending, clock, active>>
  BY RebuildStep DEF Rebuild, OnlyLoops
<1>2. Rounds'
  <2>1. loops[l].then = "wait"
    BY <1>1 DEF WatchInv, Rounds
  <2> QED
    BY <1>1, <2>1, OthersStay, RoundGoesOn
<1>3. Bound' = Bound
  BY <1>1, SameBound
<1>4. CASE l = active
  <2>1. Wanted' => loops'[l].next \in 1..Bound'
    BY <1>1, <1>3, BoundTime DEF Wanted
  <2>2. Seen'
    BY <1>1, <1>4, <2>1 DEF Seen, SeenBy
  <2> QED
    BY <1>2, <2>2 DEF WatchInv
<1>5. CASE l # active
  <2>1. Wanted' => Wanted
    BY <1>1, <1>5 DEF Wanted
  <2> QED
    BY <1>1, <1>2, <1>3, <1>5, <2>1, OthersStay, QuietKeeps
<1> QED
  BY <1>4, <1>5

LEMMA ApplyDirtyWatch ==
  ASSUME TypeOK, WatchInv, NEW l \in Loop, ApplyDirty(l)
  PROVE  WatchInv'
<1>1. /\ Others(l)
      /\ \/ loops[l].pc = "wait" /\ loops[l].wake
         \/ loops[l].pc = "drain"
      /\ l # active /\ ~revived' => ~revived
      /\ UNCHANGED <<auth, pending, clock, active>>
  BY ApplyDirtyStep DEF ApplyDirty, OnlyLoops
<1>2. loops[l].then = "wait"
  BY <1>1 DEF WatchInv, Rounds
<1>3. \/ loops'[l].pc = "wait" /\ loops'[l].then = "wait"
      \/ loops'[l].pc = "remove" /\ loops'[l].then = "wait"
  BY <1>2, ApplyDirtyStep
<1>4. Rounds'
  BY <1>1, <1>3, OthersStay, RoundGoesOn
<1>5. Bound' = Bound
  BY <1>1, SameBound
<1>6. CASE l = active
  <2>1. CASE ~Refreshable(auth)
    BY <1>1, <1>4, <2>1, UnwantedKeeps DEF Wanted
  <2>2. CASE Refreshable(auth) /\ loops[l].dirty
    <3> DEFINE now == IF loops[l].pc = "wait" /\ loops[l].wake THEN clock ELSE loops[l].now
    <3>1. loops'[l].pc = "wait" /\ loops'[l].next = NextCheck(auth, now)
      BY <1>2, <2>2, ApplyDirtyStep
    <3>2. now \in 1..clock
      <4>1. clock \in 1..clock
        BY DEF TypeOK, CredentialTypes
      <4>2. loops[l].pc = "drain" => loops[l].now \in 1..clock
        BY DEF WatchInv, Rounds
      <4> QED
        BY <1>1, <4>1, <4>2
    <3> HIDE DEF now
    <3>3. loops'[l].next \in 1..Bound'
      BY <1>5, <3>1, <3>2, BoundTime
    <3>4. Seen'
      BY <1>1, <1>6, <3>1, <3>3 DEF Seen, SeenBy
    <3> QED
      BY <1>4, <3>4 DEF WatchInv
  <2>3. CASE Refreshable(auth) /\ ~loops[l].dirty
    <3>1. loops'[l].pc = "wait" /\ loops'[l].next = loops[l].next /\ UNCHANGED revived
      BY <1>2, <2>3, ApplyDirtyStep
    <3>2. Wanted' => Wanted
      BY <1>1, <3>1 DEF Wanted
    <3>3. Wanted' => loops'[l].next \in 1..Bound'
      BY <1>1, <1>5, <1>6, <2>3, <3>1, <3>2 DEF WatchInv, Seen, SeenBy
    <3>4. Seen'
      BY <1>1, <1>6, <3>1, <3>3 DEF Seen, SeenBy
    <3> QED
      BY <1>4, <3>4 DEF WatchInv
  <2> QED
    BY <2>1, <2>2, <2>3
<1>7. CASE l # active
  <2>1. Wanted' => Wanted
    BY <1>1, <1>7 DEF Wanted
  <2> QED
    BY <1>1, <1>4, <1>5, <1>7, <2>1, OthersStay, QuietKeeps
<1> QED
  BY <1>6, <1>7

LEMMA HandleDueWatch ==
  ASSUME TypeOK, WatchInv, NEW l \in Loop, HandleDueAuth(l)
  PROVE  WatchInv'
<1>1. /\ Others(l) /\ loops'[l].now = clock
      /\ l # active /\ ~revived' => ~revived
      /\ \/ ~Refreshable(auth) /\ loops'[l].pc = "drain" /\ loops'[l].then = "wait"
         \/ loops'[l].pc = "mark" /\ loops'[l].then = "drain"
         \/ /\ loops'[l].pc = "drain" /\ loops'[l].then = "wait"
            /\ loops'[l].next = NextCheck(auth, clock)
         \/ loops'[l].pc = "remove" /\ loops'[l].then = "drain"
      /\ UNCHANGED <<auth, pending, clock, active>>
  BY HandleDueStep DEF HandleDueAuth, OnlyLoops
<1>2. clock \in 1..clock
  BY DEF TypeOK, CredentialTypes
<1>3. Rounds'
  BY <1>1, <1>2, OthersStay, RoundGoesOn
<1>4. Bound' = Bound
  BY <1>1, SameBound
<1>5. CASE l = active
  <2>1. Wanted' => SeenBy(l)'
    BY <1>1, <1>4, BoundTime DEF SeenBy, Wanted
  <2>2. Seen'
    BY <1>1, <1>5, <2>1 DEF Seen
  <2> QED
    BY <1>3, <2>2 DEF WatchInv
<1>6. CASE l # active
  <2>1. Wanted' => Wanted
    BY <1>1, <1>6 DEF Wanted
  <2> QED
    BY <1>1, <1>3, <1>4, <1>6, <2>1, OthersStay, QuietKeeps
<1> QED
  BY <1>5, <1>6

LEMMA MarkWatch ==
  ASSUME TypeOK, WatchInv, JobInv, NEW l \in Loop, MarkRefreshPending(l)
  PROVE  WatchInv'
<1>1. /\ OthersMarked(l) /\ loops[l].pc = "mark"
      /\ loops'[l].then = loops[l].then /\ loops'[l].now = loops[l].now
      /\ loops'[l].pc \in {"send", "again"}
      /\ UNCHANGED <<clock, active>>
  BY MarkStep DEF MarkRefreshPending
<1>2. loops[l].then = "drain" /\ loops[l].now \in 1..clock
  BY <1>1 DEF WatchInv, Rounds
<1>3. Rounds'
  BY <1>1, <1>2, OthersStay, RoundGoesOn
<1>4. CASE pending' = [job |-> loops[l].hand, running |-> FALSE]
  <2>1. loops[l].hand # NoJob
    BY <1>1, NoLoop DEF JobInv, OwnJobs, NoJobLoop
  <2> QED
    BY <1>3, <1>4, <2>1, UnwantedKeeps DEF Wanted
<1>5. CASE UNCHANGED <<pending, auth, revived>> /\ loops'[l].pc = "again"
  <2>1. Bound' = Bound /\ (Wanted' => Wanted)
    BY <1>1, <1>5, SameBound DEF Wanted
  <2>2. CASE l = active
    <3>1. Seen'
      BY <1>1, <1>5, <2>2 DEF Seen, SeenBy
    <3> QED
      BY <1>3, <3>1 DEF WatchInv
  <2>3. CASE l # active
    BY <1>1, <1>3, <2>1, <2>3, OthersStay, QuietKeeps
  <2> QED
    BY <2>2, <2>3
<1> QED
  BY <1>4, <1>5, MarkStep

LEMMA LookAgainWatch ==
  ASSUME TypeOK, WatchInv, NEW l \in Loop, LookAgain(l)
  PROVE  WatchInv'
<1> DEFINE next == NextCheck(auth, loops[l].now)
<1>1. /\ Others(l) /\ loops[l].pc = "again"
      /\ l # active /\ ~revived' => ~revived
      /\ UNCHANGED <<auth, pending, clock, active>>
  BY LookAgainStep DEF LookAgain, OnlyLoops
<1>2. loops[l].then = "drain" /\ loops[l].now \in 1..clock
  BY <1>1 DEF WatchInv, Rounds
<1>3. /\ loops'[l].now = loops[l].now
      /\ \/ /\ loops'[l].pc = "drain" /\ loops'[l].then = "wait"
            /\ loops'[l].next = IF next > loops[l].now THEN next ELSE loops[l].now + Interval
         \/ ~Refreshable(auth) /\ loops'[l].pc = "remove" /\ loops'[l].then = "drain"
  BY <1>2, LookAgainStep
<1>4. Rounds'
  BY <1>1, <1>2, <1>3, OthersStay, RoundGoesOn
<1>5. Bound' = Bound
  BY <1>1, SameBound
<1>6. next \in 1..Bound /\ loops[l].now + Interval \in 1..Bound
  BY <1>2, BoundTime
<1> HIDE DEF next
<1>7. CASE l = active
  <2>1. SeenBy(l)'
    BY <1>3, <1>5, <1>6 DEF SeenBy
  <2>2. Seen'
    BY <1>1, <1>7, <2>1 DEF Seen
  <2> QED
    BY <1>4, <2>2 DEF WatchInv
<1>8. CASE l # active
  <2>1. Wanted' => Wanted
    BY <1>1, <1>8 DEF Wanted
  <2> QED
    BY <1>1, <1>4, <1>5, <1>8, <2>1, OthersStay, QuietKeeps
<1> QED
  BY <1>7, <1>8

LEMMA SendWatch ==
  ASSUME TypeOK, WatchInv, NEW l \in Loop, SendJob(l)
  PROVE  WatchInv'
<1>1. /\ Others(l) /\ loops[l].pc = "send" /\ loops'[l].pc = "drain"
      /\ loops'[l].then = "wait" /\ loops'[l].now = loops[l].now
      /\ loops'[l].dirty = loops[l].dirty
      /\ UNCHANGED <<auth, pending, clock, active, revived>>
  BY SendStep DEF SendJob, OnlyLoops
<1>2. loops[l].now \in 1..clock
  BY <1>1 DEF WatchInv, Rounds
<1>3. Rounds'
  BY <1>1, <1>2, OthersStay, RoundGoesOn
<1>4. Bound' = Bound /\ (Wanted' => Wanted)
  BY <1>1, SameBound DEF Wanted
<1>5. CASE l = active
  <2>1. Seen'
    BY <1>1, <1>4, <1>5 DEF WatchInv, Seen, SeenBy
  <2> QED
    BY <1>3, <2>1 DEF WatchInv
<1>6. CASE l # active
  BY <1>1, <1>3, <1>4, <1>6, OthersStay, QuietKeeps
<1> QED
  BY <1>5, <1>6

LEMMA GiveBackWatch ==
  ASSUME TypeOK, WatchInv, NEW l \in Loop, GiveBackJob(l)
  PROVE  WatchInv'
<1>1. /\ OthersMarked(l) /\ loops[l].pc = "send" /\ loops'[l].pc = loops[l].then
      /\ loops'[l].then = "wait"
      /\ loops[l].then = "drain" => loops'[l].now = loops[l].now
      /\ loops[l].dirty => loops'[l].dirty
      /\ UNCHANGED <<clock, active>>
  BY GiveBackStep DEF GiveBackJob
<1>2. loops[l].then = "drain" /\ loops[l].now \in 1..clock
  BY <1>1 DEF WatchInv, Rounds
<1>3. Rounds'
  BY <1>1, <1>2, OthersStay, RoundGoesOn
<1>4. CASE UNCHANGED <<pending, auth, revived>>
  <2>1. Bound' = Bound /\ (Wanted' => Wanted)
    BY <1>1, <1>4, SameBound DEF Wanted
  <2>2. CASE l = active
    <3>1. Seen'
      BY <1>1, <1>2, <2>1, <2>2 DEF WatchInv, Seen, SeenBy
    <3> QED
      BY <1>3, <3>1 DEF WatchInv
  <2>3. CASE l # active
    BY <1>1, <1>3, <2>1, <2>3, OthersStay, QuietKeeps
  <2> QED
    BY <2>2, <2>3
<1>5. CASE \A k \in Loop : k = active => loops'[k].dirty /\ loops'[k].wake
  <2>1. Seen'
    BY <1>1, <1>5 DEF Seen, SeenBy
  <2> QED
    BY <1>3, <2>1 DEF WatchInv
<1> QED
  BY <1>4, <1>5, GiveBackStep

LEMMA RemoveWatch ==
  ASSUME TypeOK, WatchInv, NEW l \in Loop, Remove(l)
  PROVE  WatchInv'
<1>1. /\ Others(l) /\ loops[l].pc = "remove" /\ loops'[l].pc = loops[l].then
      /\ loops'[l].then = "wait"
      /\ loops[l].then = "drain" => loops'[l].now = loops[l].now
      /\ TakenOut(l)
      /\ UNCHANGED <<auth, pending, clock, active>>
  BY RemoveStep DEF Remove, OnlyLoops
<1>2. /\ loops[l].then \in {"wait", "drain"}
      /\ loops[l].then = "drain" => loops[l].now \in 1..clock
  BY <1>1, ThenPlaces DEF WatchInv, Rounds
<1>3. Rounds'
  BY <1>1, <1>2, OthersStay, RoundGoesOn
<1>4. ~revived' => ~revived /\ (l = active => ~Refreshable(auth))
  BY <1>1, TakenOutRevives
<1>5. CASE l = active
  BY <1>1, <1>3, <1>4, <1>5, UnwantedKeeps DEF Wanted
<1>6. CASE l # active
  <2>1. Bound' = Bound /\ (Wanted' => Wanted)
    BY <1>1, <1>4, SameBound DEF Wanted
  <2> QED
    BY <1>1, <1>3, <1>6, <2>1, OthersStay, QuietKeeps
<1> QED
  BY <1>5, <1>6

LEMMA EndWatch ==
  ASSUME TypeOK, Lives, WatchInv, NEW l \in Loop, LoopEnds(l) \/ ReleaseQueuedJob(l)
  PROVE  WatchInv'
<1>1. /\ Others(l) \/ OthersMarked(l)
      /\ loops'[l].pc \in {"release", "end"}
      /\ l # active
      /\ UNCHANGED <<clock, active>>
  BY LoopEndsStep, ReleaseStep DEF LoopEnds, ReleaseQueuedJob, OnlyLoops, Lives
<1>2. Rounds'
  BY <1>1, OthersStay, RoundGoesOn
<1>3. CASE UNCHANGED <<pending, auth, revived>>
  <2>1. Bound' = Bound /\ (Wanted' => Wanted)
    BY <1>1, <1>3, SameBound DEF Wanted
  <2> QED
    BY <1>1, <1>2, <2>1, OthersStay, QuietKeeps
<1>4. CASE \A k \in Loop : k = active => loops'[k].dirty /\ loops'[k].wake
  <2>1. Seen'
    BY <1>1, <1>4 DEF Seen, SeenBy
  <2> QED
    BY <1>2, <2>1 DEF WatchInv
<1> QED
  BY <1>3, <1>4, LoopEndsStep, ReleaseStep


\* A failure that leaves no next time has made the credential terminal.
LEMMA FailedForGood ==
  ASSUME TypeOK, NEW error \in Errors, Failed(auth, error).after = 0
  PROVE  ~Refreshable(Failed(auth, error))
<1> DEFINE valid == auth.expires > clock
           terminal == IF auth.off THEN error = "grant" ELSE error = "unauthorized" /\ ~valid
<1>1. /\ auth \in AuthType /\ clock \in Nat \ {0} /\ Backoff \in Nat \ {0}
      /\ auth.expires \in Nat
  BY Constants DEF TypeOK, CredentialTypes, AuthType
<1>2. /\ Failed(auth, error).err = error /\ Failed(auth, error).off = auth.off
      /\ Failed(auth, error).blocked = (auth.off \/ ~valid \/ auth.blocked)
      /\ Failed(auth, error).after =
           IF terminal THEN 0
           ELSE IF valid /\ ~auth.off THEN Earliest(clock + Backoff, auth.expires)
           ELSE clock + Backoff
  BY <1>1 DEF Failed, AuthType
<1>3. terminal
  BY <1>1, <1>2 DEF Earliest
<1>4. Terminal(Failed(auth, error))
  BY <1>1, <1>2, <1>3 DEF Terminal
<1> QED
  BY <1>4 DEF Refreshable

LEMMA WorkerWatch ==
  ASSUME TypeOK, WatchInv, NEW l \in Loop, Worker(l)
  PROVE  WatchInv'
<1>1. UNCHANGED <<clock, active>>
  BY DEF Worker, WorkerTakes, WorkerExits, BeginRefreshJob, RefreshCancelled, WorkerFinishes,
     OnlyRefresher
<1>2. CASE WorkerTakes(l)
  <2>1. (\A k \in Loop : Stays(k)) /\ UNCHANGED <<auth, pending, revived>>
    BY <1>2, WorkerTakesStep DEF Stays, Others
  <2>2. Bound' = Bound /\ (Wanted' => Wanted)
    BY <1>1, <2>1, SameBound DEF Wanted
  <2> QED
    BY <1>1, <2>1, <2>2, StayRounds, QuietKeeps
<1>3. CASE WorkerExits(l) \/ BeginRefreshJob(l) \/ RefreshCancelled(l)
  <2>1. UNCHANGED <<auth, revived, loops>> /\ pending'.job = pending.job
    BY <1>3, WorkerExitsStep, BeginStep, CancelledStep
  <2>2. Bound' = Bound /\ (Wanted' => Wanted)
    BY <1>1, <2>1, SameBound DEF Wanted
  <2> QED
    BY <1>1, <2>1, <2>2, SameStays, StayRounds, QuietKeeps
<1>4. CASE WorkerFinishes(l)
  <2>1. CASE UNCHANGED <<pending, auth, revived, loops>>
    <3>1. Bound' = Bound /\ (Wanted' => Wanted)
      BY <1>1, <2>1, SameBound DEF Wanted
    <3> QED
      BY <1>1, <2>1, <3>1, SameStays, StayRounds, QuietKeeps
  <2>2. CASE loops' = Marked(loops)
    BY <1>1, <2>2, MarkedStays, StayRounds, WokenKeeps
  <2> QED
    BY <1>4, <2>1, <2>2, FinishesStep
<1> QED
  BY <1>2, <1>3, <1>4 DEF Worker

LEMMA RefreshWatch ==
  ASSUME TypeOK, WatchInv, NEW r \in Refresher, Refresh(r)
  PROVE  WatchInv'
<1>1. UNCHANGED <<clock, active>>
  BY DEF Refresh, ReadForRefresh, ProviderRotates, UpdateRefreshedAuth, RefreshFails, Unschedule,
     OnlyRefresher
<1>2. CASE loops' = Marked(loops)
  BY <1>1, <1>2, MarkedStays, StayRounds, WokenKeeps
<1>3. CASE UNCHANGED <<auth, loops, pending, revived>>
  <2>1. Bound' = Bound /\ (Wanted' => Wanted)
    BY <1>1, <1>3, SameBound DEF Wanted
  <2> QED
    BY <1>1, <1>3, <2>1, SameStays, StayRounds, QuietKeeps
<1>4. ASSUME NEW error \in Errors, Write(Failed(auth, error)), Failed(auth, error).after = 0,
             UNCHANGED loops
      PROVE  WatchInv'
  <2>1. auth' = Failed(auth, error) /\ ~Refreshable(Failed(auth, error))
    BY <1>4, FailedForGood DEF Write
  <2>2. ~Wanted'
    BY <2>1 DEF Wanted, Refreshable, Terminal, Present
  <2> QED
    BY <1>1, <1>4, <2>2, SameStays, StayRounds, UnwantedKeeps
<1>5. CASE Unschedule(r)
  <2>1. /\ \A k \in Loop : /\ k # active => loops'[k] = loops[k]
                           /\ loops'[k].pc = loops[k].pc
                           /\ loops'[k].then = loops[k].then /\ loops'[k].now = loops[k].now
        /\ TakenOut(active) /\ UNCHANGED auth
    BY <1>5, UnscheduleStep
  <2>2. ~Wanted'
    BY <2>1, TakenOutRevives DEF Wanted
  <2>3. Rounds'
    BY <1>1, <2>1 DEF WatchInv, Rounds
  <2> QED
    BY <2>2, <2>3, UnwantedKeeps
<1>6. CASE ReadForRefresh(r) \/ ProviderRotates(r)
  BY <1>3, <1>6, ReadStep, RotatesStep
<1>7. CASE UpdateRefreshedAuth(r)
  BY <1>2, <1>3, <1>7, MergeStep
<1>8. CASE RefreshFails(r)
  BY <1>2, <1>3, <1>4, <1>8, FailsStep
<1> QED
  BY <1>5, <1>6, <1>7, <1>8 DEF Refresh

LEMMA WatchStep == TypeOK /\ Lives /\ JobInv /\ WatchInv /\ [Next]_vars => WatchInv'
<1> SUFFICES ASSUME TypeOK, Lives, JobInv, WatchInv, [Next]_vars PROVE WatchInv'
  OBVIOUS
<1>1. CASE StartAutoRefresh
  <2>1. PICK l \in Loop :
          /\ active = 0 /\ active' = l /\ l \notin ended /\ Others(l)
          /\ loops'[l].pc = "rebuild" /\ loops'[l].then = loops[l].then
    BY <1>1, StartStep
  <2>2. loops[l].pc = "off"
    BY <2>1, Constants DEF Lives
  <2>3. loops[l].then = "wait" /\ UNCHANGED clock
    BY <1>1, <2>2 DEF WatchInv, Rounds, StartAutoRefresh
  <2>4. Rounds'
    BY <2>1, <2>3, OthersStay, RoundGoesOn
  <2>5. Seen'
    BY <2>1 DEF Seen, SeenBy
  <2> QED
    BY <2>4, <2>5 DEF WatchInv
<1>2. CASE StopAutoRefresh
  <2>1. active' = 0 /\ UNCHANGED <<loops, clock>>
    BY <1>2 DEF StopAutoRefresh
  <2>2. Seen'
    BY <2>1, Constants DEF Seen
  <2> QED
    BY <2>1, <2>2, SameStays, StayRounds DEF WatchInv
<1>3. ASSUME NEW l \in Loop, Dispatcher(l)
      PROVE  WatchInv'
  BY <1>3, RebuildWatch, ApplyDirtyWatch, HandleDueWatch, MarkWatch, LookAgainWatch, SendWatch,
     GiveBackWatch, RemoveWatch, EndWatch DEF Dispatcher
<1>4. ASSUME NEW l \in Loop, Worker(l)
      PROVE  WatchInv'
  BY <1>4, WorkerWatch
<1>5. ASSUME NEW r \in Refresher, Refresh(r)
      PROVE  WatchInv'
  BY <1>5, RefreshWatch
<1>6. CASE (\E c \in Callers : CallerStarts(c)) \/ GetByID \/ UNCHANGED vars
  <2>1. UNCHANGED <<clock, active, auth, loops, pending, revived>>
    BY <1>6 DEF CallerStarts, GetByID, OnlyRefresher, OnlyCredential, vars, machine
  <2>2. Bound' = Bound /\ (Wanted' => Wanted)
    BY <2>1, SameBound DEF Wanted
  <2> QED
    BY <2>1, <2>2, SameStays, StayRounds, QuietKeeps
<1>7. CASE Update \/ Register
  <2>1. UNCHANGED <<clock, active>>
    BY <1>7, UpdateStep, RegisterStep
  <2>2. CASE loops' = Marked(loops)
    BY <2>1, <2>2, MarkedStays, StayRounds, WokenKeeps
  <2>3. CASE UNCHANGED <<auth, loops, pending, revived>>
    <3>1. Bound' = Bound /\ (Wanted' => Wanted)
      BY <2>1, <2>3, SameBound DEF Wanted
    <3> QED
      BY <2>1, <2>3, <3>1, SameStays, StayRounds, QuietKeeps
  <2> QED
    BY <1>7, <2>2, <2>3, UpdateStep, RegisterStep
<1>8. CASE Forget
  <2>1. auth' = NoAuth /\ UNCHANGED <<clock, loops>> /\ ~Present(NoAuth)
    BY <1>8 DEF Forget, OnlyCredential, Present, NoAuth
  <2>2. ~Wanted'
    BY <2>1 DEF Wanted, Refreshable, Present
  <2> QED
    BY <2>1, <2>2, SameStays, StayRounds, UnwantedKeeps
<1>9. CASE MarkResult
  <2>1. /\ auth'.expires = auth.expires /\ auth'.after = auth.after
        /\ UNCHANGED <<auth, revived>> \/ Write(auth')
        /\ UNCHANGED <<clock, active, loops, pending>>
    BY <1>9, ResultStep
  <2>2. Wanted' => Wanted
    <3>1. CASE UNCHANGED <<auth, revived>>
      BY <2>1, <3>1 DEF Wanted
    <3>2. CASE Write(auth')
      <4>1. ~revived' => ~revived /\ (Refreshable(auth') => Refreshable(auth))
        BY <3>2, WriteRevives
      <4>2. Refreshable(auth)' => Refreshable(auth')
        BY DEF Refreshable, Terminal, Present
      <4> QED
        BY <2>1, <4>1, <4>2 DEF Wanted
    <3> QED
      BY <2>1, <3>1, <3>2
  <2>3. Bound' = Bound
    BY <2>1, SameBound
  <2> QED
    BY <2>1, <2>2, <2>3, SameStays, StayRounds, QuietKeeps
<1>10. CASE Tick
  <2>1. clock' = clock + 1 /\ UNCHANGED <<auth, active, loops, pending, revived>>
    BY <1>10 DEF Tick, machine
  <2>2. 1..Bound \subseteq 1..Bound'
    BY <2>1, BoundGrows
  <2>3. Rounds'
    <3>1. clock \in Nat /\ \A n \in 1..clock : n \in 1..clock'
      BY <2>1 DEF TypeOK, CredentialTypes
    <3> QED
      BY <2>1, <3>1 DEF WatchInv, Rounds
  <2>4. Wanted' => Wanted
    BY <2>1 DEF Wanted, Refreshable, Terminal, Present
  <2> QED
    BY <2>1, <2>2, <2>3, <2>4, SameStays, QuietKeeps
<1> QED
  BY <1>1, <1>2, <1>3, <1>4, <1>5, <1>6, <1>7, <1>8, <1>9, <1>10 DEF Next

\* Whatever moves the next refresh of the credential, the active loop is told of it or
\* has yet to look: it never sleeps past the refresh (queueReschedule, applyDirty).
THEOREM LoopLooksInTime == Spec => []Watched
<1> DEFINE Inv == TypeOK /\ Lives /\ JobInv /\ WatchInv
<1>1. Init => Inv
  BY TypesInit, LivesInit, JobInit, WatchInit
<1>2. Inv /\ [Next]_vars => Inv'
  BY TypesStep, LivesStep, JobStep, WatchStep
<1>3. Inv => Watched
  BY SeenImplyWatched
<1> QED
  BY <1>1, <1>2, <1>3, PTL DEF Spec

=============================================================================
