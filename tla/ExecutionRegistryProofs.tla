------------------------ MODULE ExecutionRegistryProofs ------------------------
(***************************************************************************)
(* Theorems about ExecutionRegistry, for every set of groups and callers   *)
(* and every bound.                                                        *)
(***************************************************************************)
EXTENDS ExecutionRegistry, FiniteSetTheorems, TLAPS

\* signalLocked changes no more than where a Drain is.
LEMMA WokenType ==
  ASSUME NEW dr \in [Drainers -> [pc : DrainPc, todo : SUBSET Id]]
  PROVE  Woken(dr) \in [Drainers -> [pc : DrainPc, todo : SUBSET Id]]
  BY DEF Woken, DrainPc

\* A call of Drain or Close that moves on keeps its type.
LEMMA MovesOn ==
  ASSUME NEW D, NEW P, NEW T, NEW f \in [D -> [pc : P, todo : T]], NEW d \in D, NEW pc \in P,
         NEW g, g = [f EXCEPT ![d].pc = pc]
  PROVE  g \in [D -> [pc : P, todo : T]]
  OBVIOUS

\* Every step keeps the types.
LEMMA TypeStep ==
  ASSUME TypeOK, [Next]_vars
  PROVE  TypeOK'
<1> USE RegistryAssumption DEF TypeOK, Id, Sink, SpecGroup, Phase, ScopePhase,
        DrainPc, ClosePc
<1> USE DEF tokenVars, barrierVars, sinkVars, closeVars
<1>1. CASE BeginDispatch
  BY <1>1 DEF BeginDispatch
<1>2. ASSUME NEW i \in Id, PendingEnd(i) PROVE TypeOK'
  BY <1>2 DEF PendingEnd, Woken
<1>3. ASSUME NEW i \in Id, NEW g \in SpecGroup, Install(i, g) PROVE TypeOK'
  <2>1. /\ phase' \in [Id -> Phase]
        /\ group' \in [Id -> SpecGroup]
    <3>1. CASE state = "accepting"
      <4>1. /\ phase' = [phase EXCEPT ![i] = "active"]
            /\ group' = [group EXCEPT ![i] = g]
        <5> HIDE DEF TypeOK
        <5> QED
          BY <1>3, <3>1 DEF Install
      <4> QED
        BY <4>1
    <3>2. CASE state # "accepting"
      BY <1>3, <3>2 DEF Install
    <3> QED
      BY <3>1, <3>2
  <2>2. drain' \in [Drainers -> [pc : DrainPc, todo : SUBSET Id]]
    <3>1. drain' = Woken(drain)
      BY <1>3 DEF Install
    <3> QED
      BY <3>1, WokenType
  <2>3. UNCHANGED <<state, next, resource, barrierVars, released, sinkVars,
                    closeVars>>
    BY <1>3 DEF Install
  <2> QED
    BY <2>1, <2>2, <2>3
<1>4. ASSUME NEW i \in Id, Bind(i) PROVE TypeOK'
  BY <1>4 DEF Bind
<1>5. ASSUME NEW i \in Id, ResourceClosed(i) PROVE TypeOK'
  BY <1>5 DEF ResourceClosed
<1>6. ASSUME NEW i \in Id, EndDeactivate(i) PROVE TypeOK'
  BY <1>6 DEF EndDeactivate
<1>7. ASSUME NEW i \in Id, EndStartClose(i) PROVE TypeOK'
  BY <1>7 DEF EndStartClose, StartResourceClose
<1>8. ASSUME NEW i \in Id, EndMarkReleased(i) PROVE TypeOK'
  <2>1. phase' \in [Id -> Phase]
    BY <1>8 DEF EndMarkReleased
  <2>2. /\ released' \in [Groups -> Nat]
        /\ call' \in [Id -> [sink : 0..MaxSink, seq : Nat]]
    <3>1. CASE group[i] \notin Groups
      BY <1>8, <3>1 DEF EndMarkReleased
    <3>2. CASE group[i] \in Groups
      <4>1. /\ released' = [released EXCEPT ![group[i]] = @ + 1]
            /\ call' = [call EXCEPT ![i] =
                          [sink |-> sink, seq |-> released[group[i]] + 1]]
        <5> HIDE DEF TypeOK
        <5> QED
          BY <1>8, <3>2 DEF EndMarkReleased
      <4>2. released[group[i]] \in Nat
        BY <3>2
      <4>3. released' \in [Groups -> Nat]
        BY <3>2, <4>1, <4>2
      <4>4. [sink |-> sink, seq |-> released[group[i]] + 1] \in [sink : 0..MaxSink, seq : Nat]
        BY <4>2
      <4>5. call \in [Id -> [sink : 0..MaxSink, seq : Nat]]
        OBVIOUS
      <4> HIDE DEF TypeOK, Id
      <4> QED
        BY <4>1, <4>3, <4>4, <4>5
    <3> QED
      BY <3>1, <3>2
  <2>3. UNCHANGED <<state, next, group, resource, barrierVars, sink, replay,
                    received, drain, close, closeStarted, closeDone>>
    BY <1>8 DEF EndMarkReleased
  <2> QED
    BY <2>1, <2>2, <2>3
<1>9. ASSUME NEW i \in Id, EndCallSink(i) PROVE TypeOK'
  BY <1>9 DEF EndCallSink, Deliver
<1>10. ASSUME NEW i \in Id, EndForget(i) PROVE TypeOK'
  BY <1>10 DEF EndForget, Woken
<1>11. CASE SetReleaseSink
  BY <1>11 DEF SetReleaseSink
<1>12. ASSUME NEW r \in replay, ReplayRelease(r) PROVE TypeOK'
  BY <1>12 DEF ReplayRelease, Deliver
<1>13. ASSUME NEW b \in 1..MaxBarrier, ObserveBarrier(b) PROVE TypeOK'
  <2>1. /\ observed' \in 0..MaxBarrier /\ cut' \in 0..MaxDispatch
        /\ cutOf' \in [1..MaxBarrier -> 0..MaxDispatch]
    BY <1>13 DEF ObserveBarrier
  <2>2. UNCHANGED <<state, tokenVars, resource, published, released, sinkVars, drain,
                    closeVars>>
    BY <1>13 DEF ObserveBarrier
  <2> QED
    BY <2>1, <2>2
<1>14. CASE FreezeInFlight
  BY <1>14 DEF FreezeInFlight
<1>15. ASSUME NEW d \in Drainers, DrainStart(d) PROVE TypeOK'
  <2>1. state' \in {"accepting", "draining", "closed"}
    BY <1>15 DEF DrainStart
  <2>2. drain' \in [Drainers -> [pc : DrainPc, todo : SUBSET Id]]
    <3>1. PICK pc \in DrainPc : drain' = [drain EXCEPT ![d].pc = pc]
      <4> HIDE DEF TypeOK
      <4> QED
        BY <1>15 DEF DrainStart, DrainTo
    <3>2. drain \in [Drainers -> [pc : DrainPc, todo : SUBSET Id]]
      OBVIOUS
    <3> HIDE DEF TypeOK, DrainPc, Id
    <3> QED
      BY <3>1, <3>2, MovesOn
  <2>3. UNCHANGED <<tokenVars, resource, barrierVars, released, sinkVars,
                    closeVars>>
    BY <1>15 DEF DrainStart
  <2> QED
    BY <2>1, <2>2, <2>3
<1>16. ASSUME NEW d \in Drainers, DrainSnapshot(d) PROVE TypeOK'
  BY <1>16 DEF DrainSnapshot, Scopes
<1>17. ASSUME NEW d \in Drainers, NEW i \in Id, DrainCancel(d, i) PROVE TypeOK'
  BY <1>17 DEF DrainCancel, StartResourceClose
<1>18. ASSUME NEW d \in Drainers, DrainCheck(d) PROVE TypeOK'
  <2>1. state' \in {"accepting", "draining", "closed"}
    BY <1>18 DEF DrainCheck
  <2>2. drain' \in [Drainers -> [pc : DrainPc, todo : SUBSET Id]]
    <3>1. PICK pc \in DrainPc : drain' = [drain EXCEPT ![d].pc = pc]
      <4> HIDE DEF TypeOK
      <4> QED
        BY <1>18 DEF DrainCheck, DrainTo
    <3>2. drain \in [Drainers -> [pc : DrainPc, todo : SUBSET Id]]
      OBVIOUS
    <3> HIDE DEF TypeOK, DrainPc, Id
    <3> QED
      BY <3>1, <3>2, MovesOn
  <2>3. UNCHANGED <<tokenVars, resource, barrierVars, released, sinkVars,
                    closeVars>>
    BY <1>18 DEF DrainCheck
  <2> QED
    BY <2>1, <2>2, <2>3
<1>19. ASSUME NEW d \in Drainers, DrainTimeout(d) PROVE TypeOK'
  <2>1. drain' \in [Drainers -> [pc : DrainPc, todo : SUBSET Id]]
    <3>1. drain' = [drain EXCEPT ![d].pc = "failed"]
      BY <1>19 DEF DrainTimeout, DrainTo
    <3>2. "failed" \in DrainPc /\ drain \in [Drainers -> [pc : DrainPc, todo : SUBSET Id]]
      OBVIOUS
    <3> HIDE DEF TypeOK, DrainPc, Id
    <3> QED
      BY <3>1, <3>2, MovesOn
  <2>2. UNCHANGED <<state, tokenVars, resource, barrierVars, released, sinkVars, closeVars>>
    BY <1>19 DEF DrainTimeout
  <2> QED
    BY <2>1, <2>2
<1>20. ASSUME NEW c \in Closers, CloseStart(c) PROVE TypeOK'
  <2>1. closeStarted' \in BOOLEAN
    BY <1>20 DEF CloseStart
  <2>2. close' \in [Closers -> [pc : ClosePc, todo : SUBSET Id]]
    <3>1. PICK pc \in ClosePc : close' = [close EXCEPT ![c].pc = pc]
      <4> HIDE DEF TypeOK
      <4> QED
        BY <1>20 DEF CloseStart, CloseTo
    <3>2. close \in [Closers -> [pc : ClosePc, todo : SUBSET Id]]
      OBVIOUS
    <3> HIDE DEF TypeOK, ClosePc, Id
    <3> QED
      BY <3>1, <3>2, MovesOn
  <2>3. UNCHANGED <<state, tokenVars, resource, barrierVars, released,
                    sinkVars, drain, closeDone>>
    BY <1>20 DEF CloseStart
  <2> QED
    BY <2>1, <2>2, <2>3
<1>21. ASSUME NEW c \in Closers, CloseSwap(c) PROVE TypeOK'
  <2>1. close' \in [Closers -> [pc : ClosePc, todo : SUBSET Id]]
    <3>1. close' = [close EXCEPT ![c].pc = "cas"]
      BY <1>21 DEF CloseSwap, CloseTo
    <3>2. "cas" \in ClosePc /\ close \in [Closers -> [pc : ClosePc, todo : SUBSET Id]]
      OBVIOUS
    <3> HIDE DEF TypeOK, ClosePc, Id
    <3> QED
      BY <3>1, <3>2, MovesOn
  <2>2. /\ state' = "closed"
        /\ UNCHANGED <<tokenVars, resource, barrierVars, released, sinkVars, drain,
                       closeStarted, closeDone>>
    BY <1>21 DEF CloseSwap
  <2> QED
    BY <2>1, <2>2
<1>22. ASSUME NEW c \in Closers, CloseSnapshot(c) PROVE TypeOK'
  BY <1>22 DEF CloseSnapshot, Scopes
<1>23. ASSUME NEW c \in Closers, NEW i \in Id, CloseResource(c, i) PROVE TypeOK'
  BY <1>23 DEF CloseResource, StartResourceClose
<1>24. ASSUME NEW c \in Closers, NEW i \in Id, CloseWaited(c, i) PROVE TypeOK'
  BY <1>24 DEF CloseWaited
<1>25. ASSUME NEW c \in Closers, CloseFinish(c) PROVE TypeOK'
  <2>1. close' \in [Closers -> [pc : ClosePc, todo : SUBSET Id]]
    <3>1. close' = [close EXCEPT ![c].pc = "done"]
      BY <1>25 DEF CloseFinish, CloseTo
    <3>2. "done" \in ClosePc /\ close \in [Closers -> [pc : ClosePc, todo : SUBSET Id]]
      OBVIOUS
    <3> HIDE DEF TypeOK, ClosePc, Id
    <3> QED
      BY <3>1, <3>2, MovesOn
  <2>2. /\ closeDone' = TRUE
        /\ UNCHANGED <<state, tokenVars, resource, barrierVars, released, sinkVars, drain,
                       closeStarted>>
    BY <1>25 DEF CloseFinish
  <2> QED
    BY <2>1, <2>2
<1>26. CASE UNCHANGED vars
  BY <1>26 DEF vars
<1> QED
  BY <1>1, <1>2, <1>3, <1>4, <1>5, <1>6, <1>7, <1>8, <1>9, <1>10, <1>11,
     <1>12, <1>13, <1>14, <1>15, <1>16, <1>17, <1>18, <1>19, <1>20, <1>21,
     <1>22, <1>23, <1>24, <1>25, <1>26
  DEF Next, EndStep, DrainStep, CloseStep

\* The registry keeps its state within its types.
THEOREM TypeCorrect == Spec => []TypeOK
<1> USE RegistryAssumption DEF TypeOK, Id, Sink, SpecGroup, Phase, ScopePhase,
        DrainPc, ClosePc
<1>1. Init => TypeOK
  <2> SUFFICES ASSUME Init PROVE TypeOK
    OBVIOUS
  <2>1. call \in [Id -> [sink : 0..MaxSink, seq : Nat]]
    BY DEF Init, NoCall
  <2>2. /\ drain \in [Drainers -> [pc : DrainPc, todo : SUBSET Id]]
        /\ close \in [Closers -> [pc : ClosePc, todo : SUBSET Id]]
    BY DEF Init
  <2>3. /\ phase \in [Id -> Phase]
        /\ group \in [Id -> SpecGroup]
        /\ released \in [Groups -> Nat]
        /\ received \in [Sink -> [Groups -> Nat]]
        /\ cutOf \in [1..MaxBarrier -> 0..MaxDispatch]
        /\ resource \in [Id -> {"none", "bound", "closing", "closed"}]
    BY DEF Init
  <2>4. /\ next \in 0..MaxDispatch /\ cut \in 0..MaxDispatch
        /\ observed \in 0..MaxBarrier /\ published \in 0..MaxBarrier
        /\ sink \in 0..MaxSink
    BY DEF Init
  <2>5. /\ state \in {"accepting", "draining", "closed"}
        /\ replay \subseteq [sink : Sink, group : Groups, seq : Nat]
        /\ closeStarted \in BOOLEAN /\ closeDone \in BOOLEAN
    BY DEF Init
  <2> QED
    BY <2>1, <2>2, <2>3, <2>4, <2>5
<1>2. TypeOK /\ [Next]_vars => TypeOK'
  BY TypeStep
<1> QED
  BY <1>1, <1>2, PTL DEF Spec

-----------------------------------------------------------------------------
(* What one step may do to a token or scope, and to the state.             *)

Lives(i) ==
  \/ phase'[i] = phase[i] /\ group'[i] = group[i]
  \/ /\ i = next + 1 /\ next' = next + 1
     /\ phase'[i] = "pending" /\ state = "accepting"
     /\ group'[i] = group[i]
  \/ phase[i] = "pending" /\ phase'[i] = "dropped" /\ group'[i] = group[i]
  \/ phase[i] = "pending" /\ phase'[i] = "active" /\ state = "accepting"
  \/ /\ <<phase[i], phase'[i]>> \in
          {<<"active", "ending">>, <<"ending", "closing">>,
           <<"closing", "released">>, <<"released", "ticketed">>,
           <<"ticketed", "gone">>}
     /\ group'[i] = group[i]

\* A token or scope goes through its phases in order, and keeps its group once
\* it is installed.
LEMMA PhaseSteps ==
  ASSUME TypeOK, [Next]_vars, NEW i \in Id
  PROVE  Lives(i)
<1> USE DEF Lives, tokenVars, barrierVars, sinkVars, closeVars
<1> phase \in [Id -> Phase] /\ group \in [Id -> SpecGroup]
  BY DEF TypeOK
<1>1. CASE BeginDispatch
  BY <1>1 DEF BeginDispatch
<1>2. ASSUME NEW j \in Id,
             PendingEnd(j) \/ EndDeactivate(j) \/ EndStep(j)
      PROVE  Lives(i)
  BY <1>2 DEF PendingEnd, EndDeactivate, EndStep, EndStartClose,
              EndMarkReleased, EndCallSink, EndForget
<1>3. ASSUME NEW j \in Id, NEW g \in SpecGroup, Install(j, g) PROVE Lives(i)
  <2>1. CASE state = "accepting"
    BY <1>3, <2>1 DEF Install
  <2>2. CASE state # "accepting"
    BY <1>3, <2>2 DEF Install
  <2> QED
    BY <2>1, <2>2
<1>4. CASE UNCHANGED <<phase, group>>
  BY <1>4
<1> QED
  BY <1>1, <1>2, <1>3, <1>4
  DEF Next, vars, Bind, ResourceClosed, SetReleaseSink, ReplayRelease,
      ObserveBarrier, FreezeInFlight, DrainStart, DrainStep, DrainSnapshot,
      DrainCancel, DrainCheck, DrainTimeout, CloseStart, CloseStep, CloseSwap,
      CloseSnapshot, CloseResource, CloseWaited, CloseFinish

\* The tokens handed out are the first ones: no id is used twice.
Fresh == \A i \in Id : phase[i] = "unused" <=> i > next

\* next counts the tokens (BeginDispatch, under Registry.mu).
THEOREM FreshTokens == Spec => []Fresh
<1>1. Init => Fresh
  BY RegistryAssumption DEF Init, Fresh, Id
<1>2. TypeOK /\ Fresh /\ [Next]_vars => Fresh'
  <2> SUFFICES ASSUME TypeOK, Fresh, [Next]_vars, NEW i \in Id
               PROVE  phase'[i] = "unused" <=> i > next'
    BY DEF Fresh, Id
  <2> USE DEF tokenVars
  <2>1. next \in Nat /\ i \in Nat
    BY RegistryAssumption DEF TypeOK, Id
  <2>2. phase[i] = "unused" <=> i > next
    BY DEF Fresh
  <2>3. CASE BeginDispatch
    BY <2>1, <2>2, <2>3 DEF BeginDispatch, TypeOK
  <2>4. CASE ~BeginDispatch
    <3>1. next' = next
      BY <2>4
      DEF Next, vars, EndStep, PendingEnd, Install, Bind, ResourceClosed,
          EndDeactivate, EndStartClose, EndMarkReleased, EndCallSink,
          EndForget, SetReleaseSink, ReplayRelease, ObserveBarrier,
          FreezeInFlight, DrainStart, DrainStep, DrainSnapshot, DrainCancel,
          DrainCheck, DrainTimeout, CloseStart, CloseStep, CloseSwap,
          CloseSnapshot, CloseResource, CloseWaited, CloseFinish
    <3>2. phase'[i] = "unused" <=> phase[i] = "unused"
      BY <2>1, <3>1, PhaseSteps DEF Lives
    <3> QED
      BY <2>1, <2>2, <3>1, <3>2
  <2> QED
    BY <2>3, <2>4
<1> QED
  BY <1>1, <1>2, TypeCorrect, PTL DEF Spec

\* The id that BeginDispatch takes next has not been used.
LEMMA NextIsFresh ==
  ASSUME TypeOK, Fresh, NEW i \in Id, i = next + 1
  PROVE  phase[i] = "unused"
  BY RegistryAssumption DEF Fresh, TypeOK, Id

-----------------------------------------------------------------------------
(* Shutdown.                                                               *)

\* The state only moves towards closed (Drain, Close: the CAS loop).
LEMMA StateSteps ==
  ASSUME TypeOK, [Next]_vars
  PROVE  /\ state # "accepting" => state' # "accepting"
         /\ state = "closed" => state' = "closed"
<1>1. CASE \E d \in Drainers : DrainStart(d) \/ DrainCheck(d)
  BY <1>1 DEF DrainStart, DrainCheck
<1>2. CASE \E c \in Closers : CloseSwap(c)
  BY <1>2 DEF CloseSwap
<1>3. CASE UNCHANGED state
  BY <1>3
<1> QED
  BY <1>1, <1>2, <1>3
  DEF Next, vars, EndStep, BeginDispatch, PendingEnd, Install, Bind,
      ResourceClosed, EndDeactivate, EndStartClose, EndMarkReleased,
      EndCallSink, EndForget, SetReleaseSink, ReplayRelease, ObserveBarrier,
      FreezeInFlight, DrainStep, DrainSnapshot, DrainCancel, DrainTimeout,
      CloseStart, CloseStep, CloseSnapshot, CloseResource, CloseWaited,
      CloseFinish

\* NoRevival is a property of each step from a state of the right types.
LEMMA NoRevivalStep ==
  ASSUME TypeOK, [Next]_vars, state # "accepting"
  PROVE  /\ state' # "accepting"
         /\ state = "closed" => state' = "closed"
         /\ Pending' \subseteq Pending
         /\ Scopes' \subseteq Scopes
<1>1. ASSUME NEW i \in Id PROVE /\ i \in Pending' => i \in Pending
                                /\ i \in Scopes' => i \in Scopes
  BY PhaseSteps DEF Lives, Pending, Scopes, ScopePhase
<1> QED
  BY <1>1, StateSteps DEF Pending, Scopes

\* The registry never accepts again, and nothing starts once it has stopped.
THEOREM NeverRevived == Spec => NoRevival
<1>1. TypeOK /\ [Next]_vars =>
        [state # "accepting" =>
           /\ state' # "accepting"
           /\ state = "closed" => state' = "closed"
           /\ Pending' \subseteq Pending
           /\ Scopes' \subseteq Scopes]_vars
  BY NoRevivalStep
<1> QED
  BY <1>1, TypeCorrect, PTL DEF Spec, NoRevival

\* A Drain that returned nil left nothing behind, and nothing comes later.
THEOREM DrainLeavesNothing == Spec => []DrainedIsQuiet
<1>1. Init => DrainedIsQuiet
  BY DEF Init, DrainedIsQuiet
<1>2. TypeOK /\ DrainedIsQuiet /\ [Next]_vars => DrainedIsQuiet'
  <2> SUFFICES ASSUME TypeOK, DrainedIsQuiet, [Next]_vars,
                      NEW d \in Drainers, drain'[d].pc = "done"
               PROVE  state' = "closed" /\ Pending' = {} /\ Scopes' = {}
    BY DEF DrainedIsQuiet
  <2>1. CASE drain[d].pc = "done"
    BY <2>1, NoRevivalStep DEF DrainedIsQuiet
  <2>2. CASE drain[d].pc # "done"
    <3> drain \in [Drainers -> [pc : DrainPc, todo : SUBSET Id]]
      BY DEF TypeOK
    <3>1. drain' # drain
      BY <2>2
    <3>2. Woken(drain)[d].pc # "done"
      BY <2>2 DEF Woken
    <3>3. ASSUME NEW e \in Drainers,
                 \/ DrainStart(e) \/ DrainSnapshot(e) \/ DrainTimeout(e)
                 \/ \E i \in Id : DrainCancel(e, i)
          PROVE  FALSE
      BY <2>2, <3>3 DEF DrainStart, DrainSnapshot, DrainCancel, DrainTimeout, DrainTo
    <3>4. PICK e \in Drainers : DrainCheck(e)
      BY <3>1, <3>2, <3>3
      DEF Next, vars, tokenVars, barrierVars, sinkVars, closeVars, EndStep,
          BeginDispatch, PendingEnd, Install, Bind, ResourceClosed,
          EndDeactivate, EndStartClose, EndMarkReleased, EndCallSink,
          EndForget, SetReleaseSink, ReplayRelease, ObserveBarrier,
          FreezeInFlight, DrainStep, CloseStart, CloseStep, CloseSwap,
          CloseSnapshot, CloseResource, CloseWaited, CloseFinish
    <3>5. Pending = {} /\ Scopes = {} /\ state' = "closed"
      <4>1. CASE Pending = {} /\ Scopes = {}
        BY <3>4, <4>1 DEF DrainCheck
      <4>2. CASE ~(Pending = {} /\ Scopes = {})
        BY <2>2, <3>4, <4>2 DEF DrainCheck, DrainTo
      <4> QED
        BY <4>1, <4>2
    <3>6. phase' = phase
      BY <3>4 DEF DrainCheck, tokenVars
    <3> QED
      BY <3>5, <3>6 DEF Pending, Scopes
  <2> QED
    BY <2>1, <2>2
<1> QED
  BY <1>1, <1>2, TypeCorrect, PTL DEF Spec

-----------------------------------------------------------------------------
(* Barriers.                                                               *)

\* Where a cut is remembered, it lies within the tokens handed out; the cut of
\* the barrier that waits is the one it was observed with.
BarrierInv ==
  /\ published <= observed
  /\ observed > 0 => cut = cutOf[observed]
  /\ \A b \in 1..MaxBarrier : cutOf[b] <= next
  /\ BarrierSound

\* A published barrier answers Home: no dispatch under way when it arrived is
\* still undecided (ObserveBarrier, FreezeInFlight).
THEOREM BarriersAreSound == Spec => []BarrierSound
<1> USE DEF barrierVars, tokenVars
<1>1. Init => BarrierInv
  BY RegistryAssumption DEF Init, BarrierInv, BarrierSound
<1>2. TypeOK /\ BarrierInv /\ [Next]_vars => BarrierInv'
  <2> SUFFICES ASSUME TypeOK, BarrierInv, [Next]_vars PROVE BarrierInv'
    OBVIOUS
  <2> DEFINE Same == UNCHANGED <<observed, cut, published, cutOf>>
  <2>1. /\ next \in Nat /\ cut \in Nat
        /\ observed \in 0..MaxBarrier /\ published \in 0..MaxBarrier
        /\ MaxBarrier \in Nat /\ cutOf \in [1..MaxBarrier -> Nat]
    BY RegistryAssumption DEF TypeOK
  <2>2. CASE \E b \in 1..MaxBarrier : ObserveBarrier(b)
    <3>1. PICK b \in 1..MaxBarrier : ObserveBarrier(b)
      BY <2>2
    <3>2. /\ b > observed /\ observed' = b /\ cut' = next
          /\ cutOf' = [cutOf EXCEPT ![b] = next]
          /\ UNCHANGED <<next, phase, published>>
      BY <3>1 DEF ObserveBarrier
    <3>3. published # b /\ (published > 0 => cutOf'[published] = cutOf[published])
      BY <2>1, <3>2 DEF BarrierInv
    <3>4. BarrierSound'
      BY <3>2, <3>3 DEF BarrierInv, BarrierSound, Pending
    <3> QED
      BY <2>1, <3>2, <3>4 DEF BarrierInv
  <2>3. CASE FreezeInFlight
    <3>1. /\ observed > published /\ published' = observed
          /\ \A i \in Pending : i > cut
          /\ UNCHANGED <<next, phase, observed, cut, cutOf>>
      BY <2>3 DEF FreezeInFlight
    <3> QED
      BY <2>1, <3>1 DEF BarrierInv, BarrierSound, Pending
  <2>4. CASE BeginDispatch
    <3>1. /\ next' = next + 1 /\ Same
          /\ phase' = [phase EXCEPT ![next + 1] = "pending"]
      BY <2>4 DEF BeginDispatch
    <3>2. \A i \in Pending' : i \in Pending \/ i = next + 1
      BY <3>1 DEF Pending, TypeOK
    <3> QED
      BY <2>1, <3>1, <3>2 DEF BarrierInv, BarrierSound, Pending, Id
  <2>5. CASE Same /\ next' = next
    <3>1. \A i \in Id : i \in Pending' => i \in Pending
      BY <2>1, <2>5, PhaseSteps DEF Lives, Pending
    <3> QED
      BY <2>5, <3>1 DEF BarrierInv, BarrierSound, Pending
  <2> QED
    BY <2>2, <2>3, <2>4, <2>5
    DEF Next, vars, EndStep, PendingEnd, Install, Bind, ResourceClosed,
        EndDeactivate, EndStartClose, EndMarkReleased, EndCallSink, EndForget,
        SetReleaseSink, ReplayRelease, DrainStart, DrainStep, DrainSnapshot,
        DrainCancel, DrainCheck, DrainTimeout, CloseStart, CloseStep,
        CloseSwap, CloseSnapshot, CloseResource, CloseWaited, CloseFinish
<1>3. BarrierInv => BarrierSound
  BY DEF BarrierInv
<1> QED
  BY <1>1, <1>2, <1>3, TypeCorrect, PTL DEF Spec

-----------------------------------------------------------------------------
(* Releases.                                                               *)

\* Only EndMarkReleased counts a scope, and only EndCallSink goes on from there.
LEMMA CountingSteps ==
  ASSUME TypeOK, [Next]_vars, NEW i \in Id
  PROVE  /\ ~EndMarkReleased(i) => /\ call'[i] = call[i]
                                   /\ phase'[i] = "released" => phase[i] = "released"
         /\ ~EndCallSink(i) /\ phase'[i] = "ticketed" => phase[i] = "ticketed"
<1> DEFINE Goal ==
      /\ ~EndMarkReleased(i) => /\ call'[i] = call[i]
                                /\ phase'[i] = "released" => phase[i] = "released"
      /\ ~EndCallSink(i) /\ phase'[i] = "ticketed" => phase[i] = "ticketed"
<1> phase \in [Id -> Phase] /\ call \in [Id -> [sink : 0..MaxSink, seq : Nat]]
  BY DEF TypeOK
<1> USE DEF sinkVars, tokenVars
<1>1. ASSUME NEW j \in Id, EndMarkReleased(j) PROVE Goal
  <2>1. CASE group[j] \in Groups
    BY <1>1, <2>1 DEF EndMarkReleased
  <2>2. CASE group[j] \notin Groups
    BY <1>1, <2>2 DEF EndMarkReleased
  <2> QED
    BY <2>1, <2>2
<1>2. ASSUME NEW j \in Id, NEW g \in SpecGroup, Install(j, g) PROVE Goal
  <2>1. CASE state = "accepting"
    BY <1>2, <2>1 DEF Install
  <2>2. CASE state # "accepting"
    BY <1>2, <2>2 DEF Install
  <2> QED
    BY <2>1, <2>2
<1>3. ASSUME NEW j \in Id,
             \/ PendingEnd(j) \/ Bind(j) \/ ResourceClosed(j)
             \/ EndDeactivate(j) \/ EndStartClose(j) \/ EndForget(j)
      PROVE  Goal
  BY <1>3 DEF PendingEnd, Bind, ResourceClosed, EndDeactivate, EndStartClose,
              EndForget
<1>4. ASSUME NEW j \in Id, EndCallSink(j) PROVE Goal
  BY <1>4 DEF EndCallSink
<1>5. CASE BeginDispatch
  BY <1>5 DEF BeginDispatch
<1>6. CASE UNCHANGED <<phase, call>>
  BY <1>6
<1> QED
  BY <1>1, <1>2, <1>3, <1>4, <1>5, <1>6
  DEF Next, vars, EndStep, SetReleaseSink, ReplayRelease, ObserveBarrier,
      FreezeInFlight, DrainStart, DrainStep, DrainSnapshot, DrainCancel,
      DrainCheck, DrainTimeout, CloseStart, CloseStep, CloseSwap,
      CloseSnapshot, CloseResource, CloseWaited, CloseFinish

\* The resource of a scope that is no longer active stays closed.
LEMMA ResourceSteps ==
  ASSUME TypeOK, [Next]_vars, NEW i \in Id,
         ResourceDone(i), phase[i] # "active"
  PROVE  ResourceDone(i)'
<1> resource \in [Id -> {"none", "bound", "closing", "closed"}]
  BY DEF TypeOK
<1>1. CASE \E j \in Id : Bind(j) \/ ResourceClosed(j)
  BY <1>1 DEF Bind, ResourceClosed, ResourceDone
<1>2. CASE \E j \in Id : resource' = StartResourceClose(j)
  BY <1>2 DEF StartResourceClose, ResourceDone
<1>3. CASE UNCHANGED resource
  BY <1>3 DEF ResourceDone
<1> QED
  BY <1>1, <1>2, <1>3
  DEF Next, vars, EndStep, BeginDispatch, PendingEnd, Install, EndDeactivate,
      EndStartClose, EndMarkReleased, EndCallSink, EndForget, SetReleaseSink,
      ReplayRelease, ObserveBarrier, FreezeInFlight, DrainStart, DrainStep,
      DrainSnapshot, DrainCancel, DrainCheck, DrainTimeout, CloseStart,
      CloseStep, CloseSwap, CloseSnapshot, CloseResource, CloseWaited,
      CloseFinish

\* What sinks have been told only grows.
LEMMA ReceivedGrows ==
  ASSUME TypeOK, [Next]_vars, NEW s \in Sink, NEW g \in Groups
  PROVE  received'[s][g] >= received[s][g]
<1> received \in [Sink -> [Groups -> Nat]]
  BY DEF TypeOK
<1>1. ASSUME NEW t \in Sink, NEW h \in Groups, NEW n \in Nat
      PROVE  Deliver(t, h, n)[s][g] >= received[s][g]
  BY DEF Deliver
<1>2. ASSUME NEW j \in Id, EndCallSink(j)
      PROVE  received'[s][g] >= received[s][g]
  <2>1. CASE call[j].sink \in Sink /\ group[j] \in Groups
    BY <1>1, <1>2, <2>1 DEF EndCallSink, TypeOK
  <2>2. CASE call[j].sink \in Sink /\ group[j] \notin Groups
    BY <1>2, <2>2 DEF EndCallSink, Deliver
  <2>3. CASE call[j].sink \notin Sink
    BY <1>2, <2>3 DEF EndCallSink
  <2> QED
    BY <2>1, <2>2, <2>3
<1>3. ASSUME NEW r \in replay, ReplayRelease(r)
      PROVE  received'[s][g] >= received[s][g]
  BY <1>1, <1>3 DEF ReplayRelease, TypeOK
<1>4. CASE UNCHANGED received
  BY <1>4
<1> QED
  BY <1>2, <1>3, <1>4
  DEF Next, vars, sinkVars, EndStep, BeginDispatch, PendingEnd, Install, Bind,
      ResourceClosed, EndDeactivate, EndStartClose, EndMarkReleased, EndForget,
      SetReleaseSink, ObserveBarrier, FreezeInFlight, DrainStart, DrainStep,
      DrainSnapshot, DrainCancel, DrainCheck, DrainTimeout, CloseStart,
      CloseStep, CloseSwap, CloseSnapshot, CloseResource, CloseWaited,
      CloseFinish

\* A captured call belongs to a counted scope of a group Home limits, and from
\* the step "ticketed" on its sink has been told.
ReportInv ==
  \A i \in Id : call[i].sink > 0 =>
    /\ group[i] \in Groups
    /\ phase[i] \in {"released", "ticketed", "gone"}
    /\ phase[i] # "released" => received[call[i].sink][group[i]] >= call[i].seq

\* A call is captured once, for the scope that was counted, and made before the
\* scope goes on (markReleasedLocked, EndWithRelease).
LEMMA CallsAreReported == Spec => []ReportInv
<1>1. Init => ReportInv
  BY DEF Init, ReportInv, NoCall
<1>2. TypeOK /\ Fresh /\ ReportInv /\ [Next]_vars => ReportInv'
  <2> SUFFICES ASSUME TypeOK, Fresh, ReportInv, [Next]_vars, NEW i \in Id,
                      call'[i].sink > 0
               PROVE  /\ group'[i] \in Groups
                      /\ phase'[i] \in {"released", "ticketed", "gone"}
                      /\ phase'[i] # "released" =>
                           received'[call'[i].sink][group'[i]] >= call'[i].seq
    BY DEF ReportInv
  <2>0. /\ call \in [Id -> [sink : 0..MaxSink, seq : Nat]]
        /\ phase \in [Id -> Phase] /\ MaxSink \in Nat
        /\ received \in [Sink -> [Groups -> Nat]]
    BY RegistryAssumption DEF TypeOK
  <2>1. CASE EndMarkReleased(i)
    <3>1. phase[i] = "closing" /\ phase'[i] = "released" /\ group' = group
      BY <2>0, <2>1 DEF EndMarkReleased
    <3>2. CASE group[i] \in Groups
      BY <3>1, <3>2
    <3>3. CASE group[i] \notin Groups
      <4>1. call' = call
        BY <2>1, <3>3 DEF EndMarkReleased
      <4> QED
        BY <3>1, <4>1 DEF ReportInv
    <3> QED
      BY <3>2, <3>3
  <2>2. CASE ~EndMarkReleased(i)
    <3>1. call'[i] = call[i]
      BY <2>2, CountingSteps
    <3>2. /\ group[i] \in Groups
          /\ phase[i] \in {"released", "ticketed", "gone"}
          /\ phase[i] # "released" =>
               received[call[i].sink][group[i]] >= call[i].seq
      BY <3>1 DEF ReportInv
    <3>3. /\ group'[i] = group[i]
          /\ phase'[i] \in {"released", "ticketed", "gone"}
      BY <3>2, PhaseSteps, NextIsFresh DEF Lives
    <3>4. call[i].sink \in Sink /\ call[i].seq \in Nat
      BY <2>0, <3>1 DEF Sink
    <3>5. received'[call[i].sink][group[i]] >= received[call[i].sink][group[i]]
      BY <3>2, <3>4, ReceivedGrows
    <3>6. received'[call[i].sink][group[i]] \in Nat
      <4>1. received' \in [Sink -> [Groups -> Nat]]
        BY TypeStep DEF TypeOK
      <4> QED
        BY <3>2, <3>4, <4>1
    <3>7. CASE phase[i] # "released"
      <4>1. received[call[i].sink][group[i]] \in Nat
        BY <2>0, <3>2, <3>4
      <4>2. received'[call[i].sink][group[i]] >= call[i].seq
        BY <3>2, <3>4, <3>5, <3>6, <3>7, <4>1
      <4> QED
        BY <3>1, <3>2, <3>3, <4>2
    <3>8. CASE phase[i] = "released" /\ phase'[i] = "released"
      BY <3>2, <3>3, <3>8
    <3>9. CASE phase[i] = "released" /\ phase'[i] # "released"
      <4>1. EndCallSink(i)
        BY <3>3, <3>9, PhaseSteps, CountingSteps DEF Lives
      <4>2. received' = Deliver(call[i].sink, group[i], call[i].seq)
        BY <3>4, <4>1 DEF EndCallSink
      <4>3. received'[call[i].sink][group[i]] >= call[i].seq
        BY <2>0, <3>2, <3>4, <4>2 DEF Deliver
      <4> QED
        BY <3>1, <3>2, <3>3, <4>3
    <3> QED
      BY <3>7, <3>8, <3>9
  <2> QED
    BY <2>1, <2>2
<1> QED
  BY <1>1, <1>2, TypeCorrect, FreshTokens, PTL DEF Spec

\* A scope leaves the registry only after its sink was told of its release
\* (EndWithRelease: the sink is called before the scope is deleted).
THEOREM ForgottenWasReported == Spec => []ForgottenIsReported
<1>1. ReportInv => ForgottenIsReported
  BY DEF ReportInv, ForgottenIsReported
<1> QED
  BY <1>1, CallsAreReported, PTL

\* The scopes counted for a group are finitely many.
LEMMA CountedFinite ==
  ASSUME NEW g PROVE IsFiniteSet(Counted(g))
<1>1. IsFiniteSet(1..MaxDispatch)
  BY FS_Interval, RegistryAssumption
<1>2. Counted(g) \subseteq 1..MaxDispatch
  BY DEF Counted, Id
<1> QED
  BY <1>1, <1>2, FS_Subset

\* Every execution of a group is counted exactly once, and only when its
\* resource has closed (EndWithRelease, sync.Once, markReleasedLocked).
THEOREM ReleasesAreExact == Spec => []ReleaseExact
<1>1. Init => ReleaseExact
  <2> SUFFICES ASSUME Init, NEW g \in Groups
               PROVE  /\ released[g] = Cardinality(Counted(g))
                      /\ \A i \in Counted(g) : ResourceDone(i)
    BY DEF ReleaseExact
  <2>1. Counted(g) = {}
    BY DEF Init, Counted
  <2> QED
    BY <2>1, FS_EmptySet DEF Init
<1>2. TypeOK /\ Fresh /\ ReleaseExact /\ [Next]_vars => ReleaseExact'
  <2> SUFFICES ASSUME TypeOK, Fresh, ReleaseExact, [Next]_vars, NEW g \in Groups
               PROVE  /\ released'[g] = Cardinality(Counted(g)')
                      /\ \A i \in Counted(g)' : ResourceDone(i)'
    BY DEF ReleaseExact
  <2>0. /\ released \in [Groups -> Nat] /\ phase \in [Id -> Phase]
        /\ released[g] = Cardinality(Counted(g))
        /\ \A i \in Counted(g) : ResourceDone(i)
    BY DEF TypeOK, ReleaseExact
  <2>1. \A i \in Counted(g) : ResourceDone(i)'
    BY <2>0, ResourceSteps DEF Counted
  <2>2. \A i \in Id : i \in Counted(g) => i \in Counted(g)'
    BY PhaseSteps, NextIsFresh DEF Lives, Counted
  <2>3. \A i \in Id : ~EndMarkReleased(i) /\ i \in Counted(g)' => i \in Counted(g)
    BY PhaseSteps, CountingSteps DEF Lives, Counted
  <2>4. CASE \E j \in Id : EndMarkReleased(j) /\ group[j] = g
    <3>1. PICK j \in Id : EndMarkReleased(j) /\ group[j] = g
      BY <2>4
    <3>2. /\ phase[j] = "closing" /\ ResourceDone(j)
          /\ phase' = [phase EXCEPT ![j] = "released"]
          /\ UNCHANGED <<group, resource>>
          /\ released' = [released EXCEPT ![g] = @ + 1]
      BY <3>1 DEF EndMarkReleased
    <3>3. j \notin Counted(g) /\ Counted(g)' = Counted(g) \cup {j}
      BY <2>0, <3>1, <3>2 DEF Counted
    <3>4. Cardinality(Counted(g)') = Cardinality(Counted(g)) + 1
      BY <3>3, CountedFinite, FS_AddElement
    <3>5. ResourceDone(j)'
      BY <3>2 DEF ResourceDone
    <3> QED
      BY <2>0, <2>1, <3>2, <3>3, <3>4, <3>5
  <2>5. CASE ~\E j \in Id : EndMarkReleased(j) /\ group[j] = g
    <3>1. released'[g] = released[g]
      <4>1. ASSUME NEW j \in Id, EndMarkReleased(j) PROVE released'[g] = released[g]
        <5>1. CASE group[j] \in Groups
          BY <2>0, <2>5, <4>1, <5>1 DEF EndMarkReleased
        <5>2. CASE group[j] \notin Groups
          BY <4>1, <5>2 DEF EndMarkReleased
        <5> QED
          BY <5>1, <5>2
      <4> QED
        BY <4>1
        DEF Next, vars, EndStep, BeginDispatch, PendingEnd, Install, Bind,
            ResourceClosed, EndDeactivate, EndStartClose, EndCallSink,
            EndForget, SetReleaseSink, ReplayRelease, ObserveBarrier,
            FreezeInFlight, DrainStart, DrainStep, DrainSnapshot, DrainCancel,
            DrainCheck, DrainTimeout, CloseStart, CloseStep, CloseSwap,
            CloseSnapshot, CloseResource, CloseWaited, CloseFinish
    <3>2. \A i \in Id : EndMarkReleased(i) => i \notin Counted(g)'
      BY <2>5 DEF EndMarkReleased, Counted
    <3>3. Counted(g)' = Counted(g)
      BY <2>2, <2>3, <3>2 DEF Counted
    <3> QED
      BY <2>0, <2>1, <3>1, <3>3
  <2> QED
    BY <2>4, <2>5
<1> QED
  BY <1>1, <1>2, TypeCorrect, FreshTokens, PTL DEF Spec
-----------------------------------------------------------------------------
(* The current sink.                                                       *)

\* No sink is ahead of the registry, sinks not yet installed know nothing, and
\* neither captured calls nor replays are for later sinks or sequences.
SinkBounds ==
  /\ \A s \in Sink, g \in Groups :
       /\ received[s][g] <= released[g]
       /\ s > sink => received[s][g] = 0
  /\ \A i \in Id : call[i].sink > 0 /\ group[i] \in Groups =>
       call[i].sink <= sink /\ call[i].seq <= released[group[i]]
  /\ \A r \in replay : r.sink <= sink /\ r.seq <= released[r.group]

\* What Deliver leaves as it is, and what it brings up to date.
LEMMA DeliverFacts ==
  ASSUME TypeOK, NEW t \in Sink, NEW h \in Groups, NEW n \in Nat
  PROVE  /\ \A s \in Sink, g \in Groups :
              s # t \/ g # h => Deliver(t, h, n)[s][g] = received[s][g]
         /\ Deliver(t, h, n)[t][h] = IF received[t][h] < n THEN n ELSE received[t][h]
<1> received \in [Sink -> [Groups -> Nat]]
  BY DEF TypeOK
<1> QED
  BY DEF Deliver

\* What EndMarkReleased does, by cases on whether Home limits the group.
LEMMA MarkReleasedFacts ==
  ASSUME TypeOK, NEW i \in Id, EndMarkReleased(i)
  PROVE  /\ phase[i] = "closing" /\ phase' = [phase EXCEPT ![i] = "released"]
         /\ UNCHANGED <<group, sink, replay, received>>
         /\ group[i] \notin Groups => UNCHANGED <<released, call>>
         /\ group[i] \in Groups =>
              /\ released' = [released EXCEPT ![group[i]] = @ + 1]
              /\ call' = [call EXCEPT ![i] =
                            [sink |-> sink, seq |-> released[group[i]] + 1]]
<1>1. CASE group[i] \in Groups
  BY <1>1 DEF EndMarkReleased
<1>2. CASE group[i] \notin Groups
  BY <1>2 DEF EndMarkReleased
<1> QED
  BY <1>1, <1>2

\* The steps that do not concern sinks.
Quiet == UNCHANGED <<released, sink, call, replay, received>>

\* Every step is one of the four that concern sinks, or leaves them alone.
LEMMA SinkSteps ==
  ASSUME [Next]_vars
  PROVE  \/ \E i \in Id : EndMarkReleased(i) \/ EndCallSink(i)
         \/ SetReleaseSink
         \/ \E r \in replay : ReplayRelease(r)
         \/ Quiet
  BY DEF Quiet, Next, vars, sinkVars, EndStep, BeginDispatch, PendingEnd,
         Install, Bind, ResourceClosed, EndDeactivate, EndStartClose, EndForget,
         ObserveBarrier, FreezeInFlight, DrainStart, DrainStep, DrainSnapshot,
         DrainCancel, DrainCheck, DrainTimeout, CloseStart, CloseStep, CloseSwap,
         CloseSnapshot, CloseResource, CloseWaited, CloseFinish

LEMMA SinkBoundsStep ==
  ASSUME TypeOK, Fresh, ReportInv, SinkBounds, [Next]_vars
  PROVE  SinkBounds'
<1>0. /\ received \in [Sink -> [Groups -> Nat]] /\ released \in [Groups -> Nat]
      /\ call \in [Id -> [sink : 0..MaxSink, seq : Nat]]
      /\ replay \subseteq [sink : Sink, group : Groups, seq : Nat]
      /\ sink \in 0..MaxSink /\ MaxSink \in Nat /\ phase \in [Id -> Phase]
      /\ Sink = 1..MaxSink
  BY RegistryAssumption DEF TypeOK, Sink
<1>1. ASSUME NEW i \in Id, EndMarkReleased(i) PROVE SinkBounds'
  <2>1. CASE group[i] \in Groups
    <3>1. /\ released' = [released EXCEPT ![group[i]] = @ + 1]
          /\ call' = [call EXCEPT ![i] =
                        [sink |-> sink, seq |-> released[group[i]] + 1]]
          /\ UNCHANGED <<group, sink, replay, received>>
      BY <1>1, <2>1, MarkReleasedFacts
    <3>2. \A g \in Groups : released'[g] \in Nat /\ released[g] <= released'[g]
      BY <1>0, <2>1, <3>1
    <3>3. ASSUME NEW s \in Sink, NEW g \in Groups
          PROVE  /\ received'[s][g] <= released'[g]
                 /\ s > sink' => received'[s][g] = 0
      BY <1>0, <3>1, <3>2 DEF SinkBounds
    <3>4. ASSUME NEW j \in Id, call'[j].sink > 0, group'[j] \in Groups
          PROVE  call'[j].sink <= sink' /\ call'[j].seq <= released'[group'[j]]
      <4>1. CASE j = i
        BY <1>0, <2>1, <3>1, <4>1
      <4>2. CASE j # i
        <5>1. call'[j] = call[j] /\ group'[j] = group[j]
          BY <1>0, <3>1, <4>2
        <5>2. call[j].sink <= sink /\ call[j].seq <= released[group[j]]
          BY <3>4, <5>1 DEF SinkBounds
        <5>3. call[j].seq \in Nat /\ released[group[j]] \in Nat
          BY <1>0, <3>4, <5>1
        <5>4. released'[group[j]] \in Nat /\ released[group[j]] <= released'[group[j]]
          BY <3>2, <3>4, <5>1
        <5> QED
          BY <3>1, <5>1, <5>2, <5>3, <5>4
      <4> QED
        BY <4>1, <4>2
    <3>5. ASSUME NEW r \in replay'
          PROVE  r.sink <= sink' /\ r.seq <= released'[r.group]
      <4>1. r \in replay /\ r.group \in Groups /\ r.seq \in Nat
        BY <1>0, <3>1
      <4>2. r.sink <= sink /\ r.seq <= released[r.group]
        BY <4>1 DEF SinkBounds
      <4>3. released[r.group] \in Nat /\ released'[r.group] \in Nat
            /\ released[r.group] <= released'[r.group]
        BY <1>0, <3>2, <4>1
      <4> QED
        BY <3>1, <4>1, <4>2, <4>3
    <3> QED
      BY <3>3, <3>4, <3>5 DEF SinkBounds
  <2>2. CASE group[i] \notin Groups
    BY <1>1, <2>2, MarkReleasedFacts DEF SinkBounds
  <2> QED
    BY <2>1, <2>2
<1>2. ASSUME NEW t \in Sink, NEW h \in Groups, NEW n \in Nat,
             t <= sink, n <= released[h],
             received' = Deliver(t, h, n),
             UNCHANGED <<released, sink, call, group>>, replay' \subseteq replay
      PROVE  SinkBounds'
  <2>1. ASSUME NEW s \in Sink, NEW g \in Groups
        PROVE  /\ received'[s][g] <= released'[g]
               /\ s > sink' => received'[s][g] = 0
    <3>1. CASE s = t /\ g = h
      BY <1>0, <1>2, <3>1, DeliverFacts DEF SinkBounds
    <3>2. CASE ~(s = t /\ g = h)
      <4>1. received'[s][g] = received[s][g]
        BY <1>2, <3>2, DeliverFacts
      <4> QED
        BY <1>2, <4>1 DEF SinkBounds
    <3> QED
      BY <3>1, <3>2
  <2> QED
    BY <1>2, <2>1 DEF SinkBounds
<1>3. ASSUME NEW i \in Id, EndCallSink(i) PROVE SinkBounds'
  <2>1. CASE call[i].sink \in Sink
    <3>1. group[i] \in Groups /\ call[i].sink > 0
      BY <1>0, <2>1 DEF ReportInv
    <3>2. call[i].sink <= sink /\ call[i].seq <= released[group[i]]
      BY <3>1 DEF SinkBounds
    <3> QED
      BY <1>0, <1>2, <1>3, <2>1, <3>1, <3>2 DEF EndCallSink
  <2>2. CASE call[i].sink \notin Sink
    BY <1>3, <2>2 DEF EndCallSink, SinkBounds
  <2> QED
    BY <2>1, <2>2
<1>4. CASE SetReleaseSink
  <2>1. /\ sink' = sink + 1
        /\ replay' = replay \cup
             {[sink |-> sink + 1, group |-> g, seq |-> released[g]] :
                g \in {h \in Groups : released[h] > 0}}
        /\ UNCHANGED <<released, call, received, group>>
    BY <1>4 DEF SetReleaseSink, tokenVars
  <2>2. ASSUME NEW r \in replay'
        PROVE  r.sink <= sink' /\ r.seq <= released'[r.group]
    BY <1>0, <2>1 DEF SinkBounds
  <2>3. ASSUME NEW i \in Id, call'[i].sink > 0, group'[i] \in Groups
        PROVE  call'[i].sink <= sink' /\ call'[i].seq <= released'[group'[i]]
    BY <1>0, <2>1, <2>3 DEF SinkBounds
  <2>4. ASSUME NEW s \in Sink, NEW g \in Groups
        PROVE  /\ received'[s][g] <= released'[g]
               /\ s > sink' => received'[s][g] = 0
    BY <1>0, <2>1 DEF SinkBounds
  <2> QED
    BY <2>2, <2>3, <2>4 DEF SinkBounds
<1>5. ASSUME NEW r \in replay, ReplayRelease(r) PROVE SinkBounds'
  <2>1. r.sink <= sink /\ r.seq <= released[r.group]
    BY DEF SinkBounds
  <2> QED
    BY <1>0, <1>2, <1>5, <2>1 DEF ReplayRelease, tokenVars
<1>6. CASE Quiet
  <2>1. ASSUME NEW i \in Id, call[i].sink > 0 PROVE group'[i] = group[i]
    BY <2>1, PhaseSteps, NextIsFresh DEF ReportInv, Lives
  <2> QED
    BY <1>0, <1>6, <2>1 DEF Quiet, SinkBounds, ReportInv
<1> QED
  BY <1>1, <1>3, <1>4, <1>5, <1>6, SinkSteps

\* The sink installed last knows the latest sequence of every group, or a call
\* that will tell it is under way (SetReleaseSink's replay under the lock,
\* markReleasedLocked's capture): no release falls between two sinks.
THEOREM LatestReachesSink == Spec => []SinkCaughtUp
<1>1. Init => SinkBounds /\ SinkCaughtUp
  BY DEF Init, SinkBounds, SinkCaughtUp, NoCall
<1>2. TypeOK /\ Fresh /\ ReportInv /\ SinkBounds /\ [Next]_vars => SinkBounds'
  BY SinkBoundsStep
<1>3. TypeOK /\ Fresh /\ ReportInv /\ SinkBounds /\ SinkCaughtUp /\ [Next]_vars
        => SinkCaughtUp'
  <2> SUFFICES ASSUME TypeOK, Fresh, ReportInv, SinkBounds, SinkCaughtUp,
                      [Next]_vars, sink' > 0, NEW g \in Groups
               PROVE  \/ released'[g] = received'[sink'][g]
                      \/ [sink |-> sink', group |-> g, seq |-> released'[g]] \in replay'
                      \/ \E i \in Id :
                           /\ phase'[i] = "released" /\ group'[i] = g
                           /\ call'[i] = [sink |-> sink', seq |-> released'[g]]
    BY DEF SinkCaughtUp
  <2> DEFINE Heard == released[g] = received[sink][g]
             Replayed == [sink |-> sink, group |-> g, seq |-> released[g]] \in replay
             Calling(i) == /\ phase[i] = "released" /\ group[i] = g
                           /\ call[i] = [sink |-> sink, seq |-> released[g]]
  <2>0. /\ received \in [Sink -> [Groups -> Nat]] /\ released \in [Groups -> Nat]
        /\ call \in [Id -> [sink : 0..MaxSink, seq : Nat]]
        /\ replay \subseteq [sink : Sink, group : Groups, seq : Nat]
        /\ sink \in 0..MaxSink /\ MaxSink \in Nat /\ phase \in [Id -> Phase]
        /\ Sink = 1..MaxSink
    BY RegistryAssumption DEF TypeOK, Sink
  <2>1. ASSUME NEW i \in Id, EndMarkReleased(i), group[i] = g
        PROVE  Calling(i)'
    <3>1. /\ released' = [released EXCEPT ![g] = @ + 1]
          /\ call' = [call EXCEPT ![i] = [sink |-> sink, seq |-> released[g] + 1]]
          /\ phase' = [phase EXCEPT ![i] = "released"]
          /\ UNCHANGED <<group, sink>>
      BY <2>1, MarkReleasedFacts
    <3> QED
      BY <2>0, <2>1, <3>1
  <2>2. CASE /\ sink' = sink /\ released'[g] = released[g]
             /\ received'[sink][g] = received[sink][g]
             /\ Replayed => Replayed'
             /\ \A i \in Id : Calling(i) => Calling(i)'
    BY <2>2 DEF SinkCaughtUp
  <2>3. ASSUME NEW i \in Id, EndMarkReleased(i), group[i] # g
        PROVE  /\ sink' = sink /\ released'[g] = released[g]
               /\ received'[sink][g] = received[sink][g]
               /\ Replayed => Replayed'
               /\ \A j \in Id : Calling(j) => Calling(j)'
    <3>1. /\ UNCHANGED <<group, sink, replay, received>>
          /\ phase[i] = "closing" /\ phase' = [phase EXCEPT ![i] = "released"]
      BY <2>3, MarkReleasedFacts
    <3>2. released'[g] = released[g] /\ \A j \in Id : j # i => call'[j] = call[j]
      BY <2>0, <2>3, MarkReleasedFacts
    <3> QED
      BY <2>0, <3>1, <3>2
  <2>4. ASSUME NEW i \in Id, EndCallSink(i)
        PROVE  \/ Heard' \/ Replayed' \/ \E j \in Id : Calling(j)'
    <3>1. /\ phase[i] = "released" /\ phase' = [phase EXCEPT ![i] = "ticketed"]
          /\ UNCHANGED <<group, released, sink, call, replay>>
          /\ received' = IF call[i].sink \in Sink
                         THEN Deliver(call[i].sink, group[i], call[i].seq)
                         ELSE received
      BY <2>4 DEF EndCallSink
    <3>2. CASE Calling(i)
      <4>1. received' = Deliver(sink, g, released[g]) /\ sink \in Sink
        BY <2>0, <3>1, <3>2
      <4>2. received[sink][g] <= released[g]
        BY <2>0, <4>1 DEF SinkBounds
      <4>3. Heard'
        BY <2>0, <3>1, <4>1, <4>2, DeliverFacts
      <4> QED
        BY <4>3
    <3>3. CASE Heard
      <4>1. CASE call[i].sink = sink /\ group[i] = g
        <5>0. sink > 0 /\ sink \in Sink
          BY <2>0, <3>1
        <5>1. call[i].seq <= released[g]
          BY <4>1, <5>0 DEF SinkBounds
        <5>2. received'[sink][g] = received[sink][g]
          BY <2>0, <3>1, <3>3, <4>1, <5>0, <5>1, DeliverFacts
        <5> QED
          BY <3>1, <3>3, <5>2
      <4>2. CASE ~(call[i].sink = sink /\ group[i] = g)
        <5>1. CASE call[i].sink \in Sink
          <6>1. group[i] \in Groups /\ sink \in Sink
            BY <2>0, <3>1, <5>1 DEF ReportInv
          <6>2. received'[sink][g] = received[sink][g]
            BY <2>0, <3>1, <4>2, <5>1, <6>1, DeliverFacts
          <6> QED
            BY <3>1, <3>3, <6>2
        <5>2. CASE call[i].sink \notin Sink
          BY <3>1, <3>3, <5>2
        <5> QED
          BY <5>1, <5>2
      <4> QED
        BY <4>1, <4>2
    <3>4. CASE Replayed
      BY <3>1, <3>4
    <3>5. CASE \E j \in Id : j # i /\ Calling(j)
      BY <2>0, <3>1, <3>5
    <3>6. Heard \/ Replayed \/ \E j \in Id : Calling(j)
      BY <3>1 DEF SinkCaughtUp
    <3> QED
      BY <3>2, <3>3, <3>4, <3>5, <3>6
  <2>5. CASE SetReleaseSink
    <3>1. /\ sink' = sink + 1 /\ sink < MaxSink
          /\ replay' = replay \cup
               {[sink |-> sink + 1, group |-> h, seq |-> released[h]] :
                  h \in {k \in Groups : released[k] > 0}}
          /\ UNCHANGED <<released, received>>
      BY <2>5 DEF SetReleaseSink
    <3>2. CASE released[g] > 0
      BY <3>1, <3>2
    <3>3. CASE released[g] = 0
      <4>1. sink + 1 \in Sink /\ sink + 1 > sink
        BY <2>0, <3>1
      <4>2. received[sink + 1][g] = 0
        BY <4>1 DEF SinkBounds
      <4> QED
        BY <3>1, <3>3, <4>2
    <3> QED
      BY <2>0, <3>2, <3>3
  <2>6. ASSUME NEW r \in replay, ReplayRelease(r)
        PROVE  \/ Heard' \/ Replayed' \/ \E j \in Id : Calling(j)'
    <3>1. /\ replay' = replay \ {r} /\ received' = Deliver(r.sink, r.group, r.seq)
          /\ UNCHANGED <<phase, group, released, sink, call>>
      BY <2>6 DEF ReplayRelease, tokenVars
    <3>2. /\ r.sink \in Sink /\ r.group \in Groups /\ r.seq \in Nat
          /\ r.seq <= released[r.group] /\ sink \in Sink
          /\ received[sink][g] <= released[g]
      BY <2>0, <3>1 DEF SinkBounds
    <3>3. CASE r.sink = sink /\ r.group = g
      <4>1. CASE Heard \/ r.seq = released[g]
        BY <2>0, <3>1, <3>2, <3>3, <4>1, DeliverFacts
      <4>2. CASE Replayed /\ r.seq # released[g]
        BY <3>1, <4>2
      <4>3. CASE \E j \in Id : Calling(j)
        BY <3>1, <4>3
      <4> QED
        BY <3>1, <4>1, <4>2, <4>3 DEF SinkCaughtUp
    <3>4. CASE ~(r.sink = sink /\ r.group = g)
      <4>1. received'[sink][g] = received[sink][g]
        BY <2>0, <3>1, <3>2, <3>4, DeliverFacts
      <4>2. Replayed => Replayed'
        BY <3>1, <3>4
      <4> QED
        BY <3>1, <4>1, <4>2 DEF SinkCaughtUp
    <3> QED
      BY <3>3, <3>4
  <2>7. CASE Quiet /\ ~\E i \in Id : EndCallSink(i)
    <3>1. \A i \in Id : Calling(i) => phase'[i] = "released" /\ group'[i] = group[i]
      <4> SUFFICES ASSUME NEW i \in Id, Calling(i)
                   PROVE  phase'[i] = "released" /\ group'[i] = group[i]
        OBVIOUS
      <4>1. phase[i] # "unused"
        OBVIOUS
      <4>2. phase'[i] = "ticketed" => FALSE
        BY <2>7, CountingSteps
      <4> QED
        BY <4>1, <4>2, PhaseSteps, NextIsFresh DEF Lives
    <3> QED
      BY <2>2, <2>7, <3>1 DEF Quiet
  <2> QED
    BY <2>1, <2>2, <2>3, <2>4, <2>5, <2>6, <2>7, SinkSteps
<1> QED
  BY <1>1, <1>2, <1>3, TypeCorrect, FreshTokens, CallsAreReported, PTL DEF Spec

-----------------------------------------------------------------------------
(* Resources.                                                              *)

Bound == {i \in Id : resource[i] = "bound"}

\* A bound resource belongs to a scope whose owner has not started to close it.
\* A shutdown that is under way has stopped the registry first, and what it has
\* not yet been through is on its list: the list is taken after the state was
\* swapped, and no resource is bound from then on.
ShutdownInv ==
  /\ \A i \in Bound : phase[i] \in {"active", "ending"}
  /\ \A d \in Drainers :
       /\ drain[d].pc \notin {"idle", "failed"} => state # "accepting"
       /\ drain[d].pc = "cancelling" => Bound \subseteq drain[d].todo
       /\ drain[d].pc \in {"waiting", "woken", "done"} => Bound = {}
  /\ \A c \in Closers :
       /\ close[c].pc \in {"cas", "closing"} => state # "accepting"
       /\ close[c].pc = "closing" => Bound \subseteq close[c].todo
  /\ closeDone => state # "accepting" /\ Bound = {}

\* In a registry that stopped accepting, nothing is bound any more.
LEMMA BoundShrinks ==
  ASSUME TypeOK, [Next]_vars, state # "accepting"
  PROVE  Bound' \subseteq Bound
<1> resource \in [Id -> {"none", "bound", "closing", "closed"}]
  BY DEF TypeOK
<1>1. CASE \E j \in Id : ResourceClosed(j)
  BY <1>1 DEF ResourceClosed, Bound
<1>2. CASE \E j \in Id : resource' = StartResourceClose(j)
  BY <1>2 DEF StartResourceClose, Bound
<1>3. CASE UNCHANGED resource
  BY <1>3 DEF Bound
<1> QED
  BY <1>1, <1>2, <1>3
  DEF Next, vars, EndStep, BeginDispatch, PendingEnd, Install, Bind,
      EndDeactivate, EndStartClose, EndMarkReleased, EndCallSink, EndForget,
      SetReleaseSink, ReplayRelease, ObserveBarrier, FreezeInFlight, DrainStart,
      DrainStep, DrainSnapshot, DrainCancel, DrainCheck, DrainTimeout,
      CloseStart, CloseStep, CloseSwap, CloseSnapshot, CloseResource,
      CloseWaited, CloseFinish

\* A resource is bound to an active scope, and its scope's end closes it.
LEMMA BoundScopes ==
  ASSUME TypeOK, Fresh, [Next]_vars, \A i \in Bound : phase[i] \in {"active", "ending"}
  PROVE  \A i \in Bound' : phase'[i] \in {"active", "ending"}
<1> SUFFICES ASSUME NEW i \in Id, resource'[i] = "bound"
             PROVE  phase'[i] \in {"active", "ending"}
  BY DEF Bound
<1>0. /\ resource \in [Id -> {"none", "bound", "closing", "closed"}]
      /\ phase \in [Id -> Phase]
  BY DEF TypeOK
<1>1. CASE Bind(i)
  BY <1>1 DEF Bind, tokenVars
<1>2. CASE EndStartClose(i)
  BY <1>0, <1>2 DEF EndStartClose, StartResourceClose
<1>3. CASE ~Bind(i) /\ ~EndStartClose(i)
  <2>1. resource[i] = "bound"
    <3>1. ASSUME NEW j \in Id, Bind(j) \/ ResourceClosed(j)
          PROVE  resource[i] = "bound"
      BY <1>0, <1>3, <3>1 DEF Bind, ResourceClosed
    <3>2. CASE \E j \in Id : resource' = StartResourceClose(j)
      BY <1>0, <3>2 DEF StartResourceClose
    <3>3. CASE UNCHANGED resource
      BY <3>3
    <3> QED
      BY <3>1, <3>2, <3>3
      DEF Next, vars, EndStep, BeginDispatch, PendingEnd, Install,
          EndDeactivate, EndStartClose, EndMarkReleased, EndCallSink, EndForget,
          SetReleaseSink, ReplayRelease, ObserveBarrier, FreezeInFlight,
          DrainStart, DrainStep, DrainSnapshot, DrainCancel, DrainCheck,
          DrainTimeout, CloseStart, CloseStep, CloseSwap, CloseSnapshot,
          CloseResource, CloseWaited, CloseFinish
  <2>2. phase[i] \in {"active", "ending"}
    BY <2>1 DEF Bound
  <2>3. ~(phase[i] = "ending" /\ phase'[i] = "closing")
    <3>1. ASSUME NEW j \in Id, EndStartClose(j) PROVE phase'[i] = phase[i]
      BY <1>0, <1>3, <3>1 DEF EndStartClose
    <3>2. ASSUME NEW j \in Id,
                 \/ PendingEnd(j) \/ EndDeactivate(j) \/ EndMarkReleased(j)
                 \/ EndCallSink(j) \/ EndForget(j)
                 \/ \E g \in SpecGroup : Install(j, g)
          PROVE  phase'[i] = "closing" => phase[i] = "closing"
      BY <1>0, <3>2 DEF PendingEnd, EndDeactivate, EndMarkReleased, EndCallSink,
                        EndForget, Install
    <3>3. CASE BeginDispatch
      BY <1>0, <3>3 DEF BeginDispatch
    <3>4. CASE UNCHANGED phase
      BY <3>4
    <3> QED
      BY <3>1, <3>2, <3>3, <3>4
      DEF Next, vars, tokenVars, EndStep, Bind, ResourceClosed, SetReleaseSink,
          ReplayRelease, ObserveBarrier, FreezeInFlight, DrainStart, DrainStep,
          DrainSnapshot, DrainCancel, DrainCheck, DrainTimeout, CloseStart,
          CloseStep, CloseSwap, CloseSnapshot, CloseResource, CloseWaited,
          CloseFinish
  <2> QED
    BY <2>2, <2>3, PhaseSteps, NextIsFresh DEF Lives
<1> QED
  BY <1>1, <1>2, <1>3

\* The part of ShutdownInv about one Drain.
DrainListed(d) ==
  /\ drain[d].pc \notin {"idle", "failed"} => state # "accepting"
  /\ drain[d].pc = "cancelling" => Bound \subseteq drain[d].todo
  /\ drain[d].pc \in {"waiting", "woken", "done"} => Bound = {}

\* The part about Close.
CloseListed ==
  /\ \A c \in Closers :
       /\ close[c].pc \in {"cas", "closing"} => state # "accepting"
       /\ close[c].pc = "closing" => Bound \subseteq close[c].todo
  /\ closeDone => state # "accepting" /\ Bound = {}

\* A Drain goes through all the scopes there are once nothing is bound any more.
LEMMA DrainListedStep ==
  ASSUME TypeOK, ShutdownInv, [Next]_vars, NEW d \in Drainers
  PROVE  DrainListed(d)'
<1>0. /\ drain \in [Drainers -> [pc : DrainPc, todo : SUBSET Id]]
      /\ DrainListed(d) /\ \A i \in Bound : i \in Scopes
  BY DEF TypeOK, ShutdownInv, DrainListed, Bound, Scopes, ScopePhase
<1>1. /\ state # "accepting" => state' # "accepting"
      /\ state # "accepting" => Bound' \subseteq Bound
  BY StateSteps, BoundShrinks
<1>2. CASE drain'[d] = drain[d]
  BY <1>0, <1>1, <1>2 DEF DrainListed
<1>3. CASE drain' = Woken(drain)
  BY <1>0, <1>1, <1>3 DEF DrainListed, Woken
<1>4. ASSUME NEW e \in Drainers, e # d,
             \/ DrainStart(e) \/ DrainStep(e) \/ DrainTimeout(e)
      PROVE  drain'[d] = drain[d]
  BY <1>0, <1>4 DEF DrainStart, DrainStep, DrainSnapshot, DrainCancel,
                    DrainCheck, DrainTimeout, DrainTo
<1>5. CASE DrainStart(d)
  BY <1>0, <1>5 DEF DrainStart, DrainTo, DrainListed
<1>6. CASE DrainSnapshot(d)
  <2>1. drain'[d] = [pc |-> "cancelling", todo |-> Scopes] /\ drain[d].pc = "cas"
    BY <1>0, <1>6 DEF DrainSnapshot
  <2> QED
    BY <1>0, <1>1, <2>1 DEF DrainListed
<1>7. ASSUME NEW i \in Id, DrainCancel(d, i) PROVE DrainListed(d)'
  <2>1. /\ drain[d].pc = "cancelling" /\ drain'[d].pc = "cancelling"
        /\ drain'[d].todo = drain[d].todo \ {i}
    BY <1>0, <1>7 DEF DrainCancel
  <2>2. i \notin Bound'
    BY <1>7 DEF DrainCancel, StartResourceClose, Bound, TypeOK
  <2> QED
    BY <1>0, <1>1, <2>1, <2>2 DEF DrainListed
<1>8. CASE DrainCheck(d)
  <2>1. /\ drain'[d].pc \in {"waiting", "done"}
        /\ \/ drain[d].pc = "cancelling" /\ drain[d].todo = {}
           \/ drain[d].pc = "woken"
    BY <1>0, <1>8 DEF DrainCheck, DrainTo
  <2> QED
    BY <1>0, <1>1, <2>1 DEF DrainListed
<1>9. CASE DrainTimeout(d)
  BY <1>0, <1>1, <1>9 DEF DrainTimeout, DrainTo, DrainListed
<1> QED
  BY <1>2, <1>3, <1>4, <1>5, <1>6, <1>7, <1>8, <1>9
  DEF Next, vars, sinkVars, EndStep, DrainStep, BeginDispatch, PendingEnd,
      Install, Bind, ResourceClosed, EndDeactivate, EndStartClose,
      EndMarkReleased, EndCallSink, EndForget, SetReleaseSink, ReplayRelease,
      ObserveBarrier, FreezeInFlight, CloseStart, CloseStep, CloseSwap,
      CloseSnapshot, CloseResource, CloseWaited, CloseFinish

\* So does a Close.
LEMMA CloseListedStep ==
  ASSUME TypeOK, ShutdownInv, [Next]_vars
  PROVE  CloseListed'
<1>0. /\ close \in [Closers -> [pc : ClosePc, todo : SUBSET Id]]
      /\ CloseListed /\ \A i \in Bound : i \in Scopes
  BY DEF TypeOK, ShutdownInv, CloseListed, Bound, Scopes, ScopePhase
<1>1. /\ state # "accepting" => state' # "accepting"
      /\ state # "accepting" => Bound' \subseteq Bound
  BY StateSteps, BoundShrinks
<1>2. CASE UNCHANGED <<close, closeDone>>
  BY <1>0, <1>1, <1>2 DEF CloseListed
<1>3. ASSUME NEW c \in Closers, CloseStart(c) PROVE CloseListed'
  <2>1. PICK pc \in {"joined", "done", "won"} : close' = [close EXCEPT ![c].pc = pc]
    BY <1>3 DEF CloseStart, CloseTo
  <2>2. closeDone' = closeDone
    BY <1>3 DEF CloseStart
  <2> QED
    BY <1>0, <1>1, <2>1, <2>2 DEF CloseListed
<1>4. ASSUME NEW c \in Closers, CloseSwap(c) PROVE CloseListed'
  BY <1>0, <1>1, <1>4 DEF CloseSwap, CloseTo, CloseListed
<1>5. ASSUME NEW c \in Closers, CloseSnapshot(c) PROVE CloseListed'
  BY <1>0, <1>1, <1>5 DEF CloseSnapshot, CloseListed
<1>6. ASSUME NEW c \in Closers, NEW i \in Id, CloseWaited(c, i) PROVE CloseListed'
  <2>1. /\ i \notin Bound /\ closeDone' = closeDone
        /\ close[c].pc = "closing"
        /\ close' = [close EXCEPT ![c].todo = @ \ {i}]
    BY <1>6 DEF CloseWaited, ResourceDone, Bound
  <2> QED
    BY <1>0, <1>1, <2>1 DEF CloseListed
<1>7. ASSUME NEW c \in Closers, CloseFinish(c) PROVE CloseListed'
  <2>1. state # "accepting" /\ Bound = {}
    BY <1>0, <1>7 DEF CloseFinish, CloseListed
  <2> QED
    BY <1>0, <1>1, <1>7, <2>1 DEF CloseFinish, CloseTo, CloseListed
<1> QED
  BY <1>2, <1>3, <1>4, <1>5, <1>6, <1>7
  DEF Next, vars, closeVars, EndStep, BeginDispatch, PendingEnd, Install, Bind,
      ResourceClosed, EndDeactivate, EndStartClose, EndMarkReleased,
      EndCallSink, EndForget, SetReleaseSink, ReplayRelease, ObserveBarrier,
      FreezeInFlight, DrainStart, DrainStep, DrainSnapshot, DrainCancel,
      DrainCheck, DrainTimeout, CloseStep, CloseResource

\* A Drain or Close that has been through its list has started the close of every
\* bound resource (Install and Bind look at the state under the lock, the lists
\* are taken after it was swapped).
THEOREM NothingLeaks == Spec => []NoResourceLeaked
<1>1. Init => ShutdownInv
  BY DEF Init, ShutdownInv, Bound
<1>2. TypeOK /\ Fresh /\ ShutdownInv /\ [Next]_vars => ShutdownInv'
  <2> SUFFICES ASSUME TypeOK, Fresh, ShutdownInv, [Next]_vars PROVE ShutdownInv'
    OBVIOUS
  <2>1. \A i \in Bound' : phase'[i] \in {"active", "ending"}
    BY BoundScopes DEF ShutdownInv
  <2>2. \A d \in Drainers : DrainListed(d)'
    BY DrainListedStep
  <2>3. CloseListed'
    BY CloseListedStep
  <2> QED
    BY <2>1, <2>2, <2>3 DEF ShutdownInv, DrainListed, CloseListed
<1>3. ShutdownInv => NoResourceLeaked
  BY DEF ShutdownInv, NoResourceLeaked, Bound
<1> QED
  BY <1>1, <1>2, <1>3, TypeCorrect, FreshTokens, PTL DEF Spec


-----------------------------------------------------------------------------
(* What the sinks are told.                                                *)

\* A call of a sink with a sequence the registry has counted is one that the cumulative
\* count accepts, or tells it nothing new.
LEMMA DeliveryIsAccepted ==
  ASSUME TypeOK, NEW s \in Sink, NEW t \in Sink, NEW g \in Groups, NEW n \in Nat,
         n <= released[g], received' = Deliver(t, g, n), UNCHANGED released
  PROVE  Told(s)!Accept(g) \/ UNCHANGED <<released, received[s]>>
<1>1. received \in [Sink -> [Groups -> Nat]] /\ released[g] \in Nat
  BY DEF TypeOK
<1>2. CASE s = t /\ received[s][g] < n
  <2>1. received'[s] = [received[s] EXCEPT ![g] = n]
    BY <1>1, <1>2 DEF Deliver
  <2>2. n \in received[s][g] + 1 .. released[g]
    BY <1>1, <1>2
  <2> QED
    BY <2>1, <2>2 DEF Told!Accept
<1>3. CASE ~(s = t /\ received[s][g] < n)
  BY <1>1, <1>3 DEF Deliver
<1> QED
  BY <1>2, <1>3

\* Every sink that was ever installed counts the releases as Home would: none before it
\* has happened, and none lost again, whatever the order of the calls and of the replays
\* that reach it (markReleasedLocked, SetReleaseSink).
THEOREM SinksCountReleases ==
  ASSUME NEW s \in Sink
  PROVE  Spec => Told(s)!Spec
<1>1. Init => Told(s)!Init
  BY DEF Init, Told!Init
<1>2. TypeOK /\ ReportInv /\ SinkBounds /\ [Next]_vars => [Told(s)!Next]_(Told(s)!vars)
  <2> SUFFICES ASSUME TypeOK, ReportInv, SinkBounds, [Next]_vars
               PROVE  Told(s)!Next \/ UNCHANGED <<released, received[s]>>
    BY DEF Told!vars
  <2>1. ASSUME NEW i \in Id, EndMarkReleased(i)
        PROVE  Told(s)!Next \/ UNCHANGED <<released, received[s]>>
    BY <2>1, MarkReleasedFacts DEF Told!Release, Told!Next
  <2>2. ASSUME NEW i \in Id, EndCallSink(i)
        PROVE  Told(s)!Next \/ UNCHANGED <<released, received[s]>>
    <3>1. UNCHANGED released
      BY <2>2 DEF EndCallSink
    <3>2. CASE call[i].sink \in Sink
      <4>1. call[i].sink > 0 /\ call[i].seq \in Nat
        BY <3>2 DEF TypeOK, Sink
      <4>2. group[i] \in Groups /\ call[i].seq <= released[group[i]]
        BY <4>1 DEF ReportInv, SinkBounds
      <4>3. received' = Deliver(call[i].sink, group[i], call[i].seq)
        BY <2>2, <3>2 DEF EndCallSink
      <4>4. Told(s)!Accept(group[i]) \/ UNCHANGED <<released, received[s]>>
        BY <3>1, <3>2, <4>1, <4>2, <4>3, DeliveryIsAccepted
      <4> QED
        BY <4>2, <4>4 DEF Told!Next
    <3>3. CASE call[i].sink \notin Sink
      BY <2>2, <3>1, <3>3 DEF EndCallSink
    <3> QED
      BY <3>2, <3>3
  <2>3. ASSUME NEW r \in replay, ReplayRelease(r)
        PROVE  Told(s)!Next \/ UNCHANGED <<released, received[s]>>
    <3>1. r.sink \in Sink /\ r.group \in Groups /\ r.seq \in Nat
      BY DEF TypeOK
    <3>2. r.seq <= released[r.group]
      BY DEF SinkBounds
    <3>3. UNCHANGED released /\ received' = Deliver(r.sink, r.group, r.seq)
      BY <2>3 DEF ReplayRelease
    <3>4. Told(s)!Accept(r.group) \/ UNCHANGED <<released, received[s]>>
      BY <3>1, <3>2, <3>3, DeliveryIsAccepted
    <3> QED
      BY <3>1, <3>4 DEF Told!Next
  <2>4. CASE SetReleaseSink
    BY <2>4 DEF SetReleaseSink
  <2> QED
    BY <2>1, <2>2, <2>3, <2>4, SinkSteps DEF Quiet
<1>3. Spec => []SinkBounds
  <2>1. Init => SinkBounds
    BY DEF Init, SinkBounds, NoCall
  <2> QED
    BY <2>1, SinkBoundsStep, TypeCorrect, FreshTokens, CallsAreReported, PTL DEF Spec
<1> QED
  BY <1>1, <1>2, <1>3, TypeCorrect, CallsAreReported, PTL DEF Spec, Told!Spec


-----------------------------------------------------------------------------
(* What the sinks rely on.                                                 *)

\* A scope about to call its sink, and what it will say.
Handing(i) == phase[i] = "released" /\ group[i] \in Groups
CallOf(i) == [group |-> group[i], seq |-> call[i].seq]
Drained == \E d \in Drainers : drain[d].pc = "done"

LEMMA CallsAre ==
  \A c : c \in Calls <=> \E i \in Id : Handing(i) /\ c = CallOf(i)
  BY DEF Calls, Handing, CallOf

LEMMA CallsWillBe ==
  \A c : c \in Calls' <=> \E i \in Id : Handing(i)' /\ c = CallOf(i)'
  BY DEF Calls, Handing, CallOf

\* Unless it is counted or makes its call, a scope has the call it had.
LEMMA CallStays ==
  ASSUME TypeOK, Fresh, [Next]_vars, NEW i \in Id, ~EndMarkReleased(i), ~EndCallSink(i)
  PROVE  (Handing(i)' <=> Handing(i)) /\ (Handing(i) => CallOf(i)' = CallOf(i))
<1>1. call'[i] = call[i] /\ (phase'[i] = "released" => phase[i] = "released")
  BY CountingSteps
<1>2. phase[i] = "released" /\ phase'[i] = "ticketed" => FALSE
  BY CountingSteps
<1>3. phase[i] = "released" => phase'[i] = "released" /\ group'[i] = group[i]
  BY <1>2, PhaseSteps, NextIsFresh DEF Lives
<1> QED
  BY <1>1, <1>3 DEF Handing, CallOf

\* A Drain that returned nil does not take it back.
LEMMA DrainedStays ==
  ASSUME TypeOK, [Next]_vars, Drained
  PROVE  Drained'
<1>1. PICK d \in Drainers : drain[d].pc = "done"
  BY DEF Drained
<1> SUFFICES drain'[d].pc = "done"
  BY DEF Drained
<1>2. drain \in [Drainers -> [pc : DrainPc, todo : SUBSET Id]]
  BY DEF TypeOK
<1>3. CASE drain' = drain
  BY <1>1, <1>3
<1>4. CASE drain' = Woken(drain)
  BY <1>1, <1>4 DEF Woken
<1>5. ASSUME NEW e \in Drainers, \/ DrainStart(e) \/ DrainStep(e) \/ DrainTimeout(e)
      PROVE  drain'[d] = drain[d]
  <2>1. e # d
    BY <1>1, <1>5 DEF DrainStart, DrainStep, DrainSnapshot, DrainCancel, DrainCheck,
                      DrainTimeout
  <2> QED
    BY <1>2, <1>5, <2>1 DEF DrainStart, DrainStep, DrainSnapshot, DrainCancel, DrainCheck,
                            DrainTimeout, DrainTo
<1> QED
  BY <1>1, <1>3, <1>4, <1>5
  DEF Next, vars, BeginDispatch, PendingEnd, Install, Bind, ResourceClosed, EndDeactivate,
      EndStep, EndStartClose, EndMarkReleased, EndCallSink, EndForget, SetReleaseSink,
      ReplayRelease, ObserveBarrier, FreezeInFlight, CloseStart, CloseStep, CloseSwap,
      CloseSnapshot, CloseResource, CloseWaited, CloseFinish


\* A release is counted and handed over in one step, unless Home does not limit the
\* group (markReleasedLocked).
LEMMA CountingHandsOver ==
  ASSUME TypeOK, DrainedIsQuiet, NEW i \in Id, EndMarkReleased(i)
  PROVE  HandOver!Next \/ UNCHANGED <<released, Calls, Drained>>
<1>1. /\ phase[i] = "closing" /\ phase' = [phase EXCEPT ![i] = "released"]
      /\ group' = group /\ phase \in [Id -> Phase]
      /\ call \in [Id -> [sink : 0..MaxSink, seq : Nat]]
  BY MarkReleasedFacts DEF TypeOK
<1>2. ~Drained /\ ~Drained' /\ UNCHANGED Drained
  <2>1. i \in Scopes /\ drain' = drain
    BY <1>1 DEF Scopes, ScopePhase, EndMarkReleased
  <2> QED
    BY <2>1 DEF DrainedIsQuiet, Drained
<1>3. CASE group[i] \notin Groups
  <2>1. released' = released /\ call' = call
    BY <1>3, MarkReleasedFacts
  <2>2. \A j \in Id : (Handing(j)' <=> Handing(j)) /\ CallOf(j)' = CallOf(j)
    BY <1>1, <1>3, <2>1 DEF Handing, CallOf
  <2>3. Calls' = Calls
    BY <2>2, CallsAre, CallsWillBe
  <2> QED
    BY <1>2, <2>1, <2>3
<1>4. CASE group[i] \in Groups
  <2>1. /\ released' = [released EXCEPT ![group[i]] = @ + 1]
        /\ call' = [call EXCEPT ![i] = [sink |-> sink, seq |-> released[group[i]] + 1]]
    BY <1>4, MarkReleasedFacts
  <2>2. PICK c : c = [group |-> group[i], seq |-> released[group[i]] + 1]
    OBVIOUS
  <2>3. Handing(i)' /\ ~Handing(i) /\ CallOf(i)' = c
    BY <1>1, <1>4, <2>1, <2>2 DEF Handing, CallOf
  <2>4. \A j \in Id : j # i => (Handing(j)' <=> Handing(j)) /\ CallOf(j)' = CallOf(j)
    BY <1>1, <2>1 DEF Handing, CallOf
  <2>5. Calls' = Calls \cup {c}
    BY <2>3, <2>4, CallsAre, CallsWillBe
  <2>6. HandOver!Release(group[i])
    BY <1>2, <2>1, <2>2, <2>5 DEF HandOver!Release, Drained
  <2> QED
    BY <1>4, <2>6 DEF HandOver!Next
<1> QED
  BY <1>3, <1>4

\* The call of a sink is made, which changes nothing else that the sinks rely on.
LEMMA CallingIsACall ==
  ASSUME TypeOK, NEW i \in Id, EndCallSink(i)
  PROVE  HandOver!Next \/ UNCHANGED <<released, Calls, Drained>>
<1>1. /\ phase[i] = "released" /\ phase' = [phase EXCEPT ![i] = "ticketed"]
      /\ UNCHANGED <<group, call, released, drain>> /\ phase \in [Id -> Phase]
  BY DEF EndCallSink, TypeOK
<1>2. PICK c : c = CallOf(i)
  OBVIOUS
<1>3. /\ ~Handing(i)' /\ (Handing(i) <=> group[i] \in Groups)
      /\ \A j \in Id : CallOf(j)' = CallOf(j) /\ (j # i => (Handing(j)' <=> Handing(j)))
  BY <1>1 DEF Handing, CallOf
<1>4. UNCHANGED <<released, Drained>>
  BY <1>1 DEF Drained
<1>5. CASE Calls' = Calls
  BY <1>4, <1>5
<1>6. CASE Calls' # Calls
  <2>1. c \in Calls /\ Calls' = Calls \ {c}
    BY <1>2, <1>3, <1>6, CallsAre, CallsWillBe
  <2>2. HandOver!Call(c)
    BY <1>4, <2>1 DEF HandOver!Call, Drained
  <2> QED
    BY <2>1, <2>2 DEF HandOver!Next
<1> QED
  BY <1>5, <1>6

\* The registry hands its releases over as the carrier of releases relies on: every one
\* in a call of its own, and none after a Drain that returned nil (EndWithRelease, Drain).
THEOREM HandsOver == Spec => ImplementsHandOver
<1>1. Init => HandOver!Init
  BY DEF Init, HandOver!Init, Calls
<1>2. TypeOK /\ Fresh /\ DrainedIsQuiet /\ DrainedIsQuiet' /\ [Next]_vars
        => [HandOver!Next]_(HandOver!vars)
  <2> SUFFICES ASSUME TypeOK, Fresh, DrainedIsQuiet, DrainedIsQuiet', [Next]_vars
               PROVE  HandOver!Next \/ UNCHANGED <<released, Calls, Drained>>
    BY DEF HandOver!vars, Drained
  <2>1. CASE \E i \in Id : EndMarkReleased(i)
    BY <2>1, CountingHandsOver
  <2>2. CASE \E i \in Id : EndCallSink(i)
    BY <2>2, CallingIsACall
  <2>3. CASE ~\E i \in Id : EndMarkReleased(i) \/ EndCallSink(i)
    <3>1. \A i \in Id : (Handing(i)' <=> Handing(i)) /\ (Handing(i) => CallOf(i)' = CallOf(i))
      BY <2>3, CallStays
    <3>2. Calls' = Calls
      BY <3>1, CallsAre, CallsWillBe
    <3>3. released' = released
      BY <2>3, SinkSteps DEF SetReleaseSink, ReplayRelease, Quiet
    <3>4. Drained => Drained'
      BY DrainedStays
    <3>5. CASE Drained' /\ ~Drained
      <4>1. Scopes' = {}
        BY <3>5 DEF DrainedIsQuiet, Drained
      <4>2. Calls' = {}
        BY <4>1 DEF Scopes, ScopePhase, Calls
      <4>3. HandOver!FallQuiet
        BY <3>2, <3>3, <3>5, <4>2 DEF HandOver!FallQuiet, Drained
      <4> QED
        BY <4>3 DEF HandOver!Next
    <3>6. CASE Drained' <=> Drained
      BY <3>2, <3>3, <3>6 DEF Drained
    <3> QED
      BY <3>4, <3>5, <3>6
  <2> QED
    BY <2>1, <2>2, <2>3
<1> QED
  BY <1>1, <1>2, TypeCorrect, FreshTokens, DrainLeavesNothing, PTL
  DEF Spec, ImplementsHandOver, HandOver!Spec

=============================================================================
