------------------------- MODULE ReleaseFlusherProofs -------------------------
(***************************************************************************)
(* Theorems about ReleaseFlusher, for every set of groups and any number   *)
(* of releases.                                                            *)
(***************************************************************************)
EXTENDS ReleaseFlusher, TLAPS

\* Every step keeps the types.
LEMMA TypeStep ==
  ASSUME TypeOK, [Next]_vars
  PROVE  TypeOK'
<1> USE FlusherAssumption DEF TypeOK, Seq, Frame, loopVars
<1>1. ASSUME NEW g \in Groups, Release(g) PROVE TypeOK'
  BY <1>1 DEF Release
<1>2. ASSUME NEW c \in calls, MarkDirty(c) PROVE TypeOK'
  <2>1. CASE c.seq <= acked[c.group]
    BY <1>2, <2>1 DEF MarkDirty
  <2>2. CASE ~(c.seq <= acked[c.group])
    <3>1. /\ waiters' = [waiters EXCEPT ![c.group] = @ \cup {c.seq}]
          /\ latest' = [latest EXCEPT ![c.group] = IF c.seq > @ THEN c.seq ELSE @]
          /\ calls' = calls \ {c} /\ signals' = signals \cup {c}
          /\ UNCHANGED <<tickets, released, acked, loopVars, flush, accepted>>
      <4> HIDE DEF TypeOK
      <4> QED
        BY <1>2, <2>2 DEF MarkDirty
    <3> QED
      BY <3>1
  <2> QED
    BY <2>1, <2>2
<1>3. ASSUME NEW c \in signals, Signal(c) PROVE TypeOK'
  BY <1>3 DEF Signal
<1>4. CASE TimerFires \/ RunWake
  BY <1>4 DEF TimerFires, RunWake
<1>5. CASE RunFlush
  <2>1. batch' \subseteq Frame
    <3>1. batch' = {[group |-> g, seq |-> latest[g]] : g \in {h \in Groups : Dirty(h)}}
      BY <1>5 DEF RunFlush
    <3>2. ASSUME NEW g \in Groups, Dirty(g) PROVE latest[g] \in 1..MaxSeq
      BY <3>2 DEF Dirty
    <3> QED
      BY <3>1, <3>2
  <2>2. force' \in BOOLEAN
    BY <1>5 DEF RunFlush
  <2>3. /\ loop' = "flush" /\ failed' = FALSE /\ timer' = "armed"
        /\ UNCHANGED <<released, calls, signals, latest, acked, waiters,
                       tickets, wake, backingOff, sent, flush, accepted>>
    BY <1>5 DEF RunFlush
  <2> QED
    BY <2>1, <2>2, <2>3
<1>6. ASSUME NEW f \in batch, SendOK(f) PROVE TypeOK'
  BY <1>6 DEF SendOK, Arrives
<1>7. ASSUME NEW f \in batch, SendError(f) PROVE TypeOK'
  BY <1>7 DEF SendError, Arrives
<1>8. ASSUME NEW f \in sent, Acknowledge(f) PROVE TypeOK'
  <2>1. CASE f.seq > acked[f.group]
    <3>1. /\ acked' = [acked EXCEPT ![f.group] = f.seq]
          /\ tickets' = [tickets EXCEPT ![f.group] =
                           @ \cup {n \in waiters[f.group] : n <= f.seq}]
          /\ waiters' = [waiters EXCEPT ![f.group] =
                           @ \ {n \in waiters[f.group] : n <= f.seq}]
          /\ sent' = {}
          /\ UNCHANGED <<released, calls, signals, latest, wake, force, timer,
                         backingOff, loop, batch, failed, flush, accepted>>
      <4> HIDE DEF TypeOK
      <4> QED
        BY <1>8, <2>1 DEF Acknowledge
    <3> QED
      BY <3>1
  <2>2. CASE ~(f.seq > acked[f.group])
    BY <1>8, <2>2 DEF Acknowledge
  <2> QED
    BY <2>1, <2>2
<1>9. CASE FlushReturns \/ FlushStart \/ FlushPoll \/ FlushSkipped \/ RunReturns
  <2>1. CASE FlushReturns
    BY <2>1 DEF FlushReturns
  <2>2. CASE FlushStart
    BY <2>2 DEF FlushStart
  <2>3. CASE FlushPoll
    BY <2>3 DEF FlushPoll
  <2>4. CASE FlushSkipped
    BY <2>4 DEF FlushSkipped
  <2>5. CASE RunReturns
    BY <2>5 DEF RunReturns
  <2> QED
    BY <1>9, <2>1, <2>2, <2>3, <2>4, <2>5
<1>10. CASE UNCHANGED vars
  BY <1>10 DEF vars
<1> QED
  BY <1>1, <1>2, <1>3, <1>4, <1>5, <1>6, <1>7, <1>8, <1>9, <1>10 DEF Next

\* The flusher keeps its state within its types.
THEOREM TypeCorrect == Spec => []TypeOK
<1>1. Init => TypeOK
  <2> SUFFICES ASSUME Init PROVE TypeOK
    OBVIOUS
  <2>1. /\ released \in [Groups -> Seq] /\ accepted \in [Groups -> Seq]
        /\ latest \in [Groups -> Seq] /\ acked \in [Groups -> Seq]
    BY FlusherAssumption DEF Init, Seq
  <2>2. /\ waiters \in [Groups -> SUBSET Seq]
        /\ tickets \in [Groups -> SUBSET Seq]
    BY DEF Init
  <2> QED
    BY <2>1, <2>2 DEF Init, TypeOK
<1>2. TypeOK /\ [Next]_vars => TypeOK'
  BY TypeStep
<1> QED
  BY <1>1, <1>2, PTL DEF Spec

-----------------------------------------------------------------------------
(* Sequences on their way from the registry to Home.                       *)

\* A sequence never runs ahead of the step before it: Home, the flusher and the
\* frames and calls between them follow the registry.
Follows ==
  /\ \A g \in Groups : /\ acked[g] <= accepted[g]
                       /\ accepted[g] <= released[g]
                       /\ latest[g] <= released[g]
  /\ \A c \in calls : c.seq <= released[c.group]
  /\ \A f \in batch : f.seq <= released[f.group]
  /\ \A f \in sent : f.seq <= accepted[f.group]

\* Every step keeps them in that order: only a sent frame moves Home, only an
\* acknowledged one moves the flusher.
LEMMA FollowsStep ==
  ASSUME TypeOK, Follows, [Next]_vars
  PROVE  Follows'
<1> USE FlusherAssumption DEF Follows, Seq, Frame, loopVars
<1> /\ released \in [Groups -> Nat] /\ accepted \in [Groups -> Nat]
    /\ latest \in [Groups -> Nat] /\ acked \in [Groups -> Nat]
    /\ calls \subseteq Frame /\ batch \subseteq Frame /\ sent \subseteq Frame
  BY DEF TypeOK
<1>1. ASSUME NEW g \in Groups, Release(g) PROVE Follows'
  BY <1>1 DEF Release
<1>2. ASSUME NEW c \in calls, MarkDirty(c) PROVE Follows'
  <2>1. CASE c.seq <= acked[c.group]
    BY <1>2, <2>1 DEF MarkDirty
  <2>2. CASE ~(c.seq <= acked[c.group])
    <3>1. /\ latest' = [latest EXCEPT ![c.group] = IF c.seq > @ THEN c.seq ELSE @]
          /\ calls' = calls \ {c}
          /\ UNCHANGED <<released, acked, batch, sent, accepted>>
      BY <1>2, <2>2 DEF MarkDirty
    <3> QED
      BY <3>1
  <2> QED
    BY <2>1, <2>2
<1>3. CASE RunFlush
  <2>1. /\ batch' = {[group |-> g, seq |-> latest[g]] : g \in {h \in Groups : Dirty(h)}}
        /\ UNCHANGED <<released, calls, latest, acked, sent, accepted>>
    BY <1>3 DEF RunFlush
  <2> QED
    BY <2>1
<1>4. ASSUME NEW f \in batch, SendOK(f) PROVE Follows'
  BY <1>4 DEF SendOK, Arrives
<1>5. ASSUME NEW f \in batch, SendError(f) PROVE Follows'
  BY <1>5 DEF SendError, Arrives
<1>6. ASSUME NEW f \in sent, Acknowledge(f) PROVE Follows'
  <2>1. CASE f.seq > acked[f.group]
    <3>1. /\ acked' = [acked EXCEPT ![f.group] = f.seq] /\ sent' = {}
          /\ UNCHANGED <<released, calls, latest, batch, accepted>>
      BY <1>6, <2>1 DEF Acknowledge
    <3> QED
      BY <3>1
  <2>2. CASE ~(f.seq > acked[f.group])
    BY <1>6, <2>2 DEF Acknowledge
  <2> QED
    BY <2>1, <2>2
<1>7. CASE UNCHANGED <<released, calls, latest, acked, batch, sent, accepted>>
  BY <1>7
<1> QED
  BY <1>1, <1>2, <1>3, <1>4, <1>5, <1>6, <1>7
  DEF Next, vars, Signal, TimerFires, RunWake, FlushReturns, FlushStart,
      FlushPoll, FlushSkipped, RunReturns

\* No sequence is ahead of the registry.
THEOREM SequencesFollow == Spec => []Follows
<1>1. Init => Follows
  BY FlusherAssumption DEF Init, Follows
<1>2. TypeOK /\ Follows /\ [Next]_vars => Follows'
  BY FollowsStep
<1> QED
  BY <1>1, <1>2, TypeCorrect, PTL DEF Spec

\* A closed ticket tells the truth: Home has applied its sequence (MarkDirty,
\* flush).
THEOREM TicketsAreTrue == Spec => []TicketTruth
<1>1. Init => TicketTruth
  BY DEF Init, TicketTruth
<1>2. TypeOK /\ Follows /\ TicketTruth /\ [Next]_vars => TicketTruth'
  <2> SUFFICES ASSUME TypeOK, Follows, TicketTruth, [Next]_vars,
                      NEW g \in Groups, NEW n \in tickets'[g]
               PROVE  n <= accepted'[g]
    BY DEF TicketTruth
  <2>0. /\ accepted \in [Groups -> Nat] /\ acked \in [Groups -> Nat]
        /\ tickets \in [Groups -> SUBSET Nat]
        /\ waiters \in [Groups -> SUBSET Nat]
        /\ calls \subseteq Frame /\ batch \subseteq Frame /\ sent \subseteq Frame
    BY FlusherAssumption DEF TypeOK, Seq
  <2>1. accepted[g] <= accepted'[g] /\ accepted'[g] \in Nat
    <3>1. ASSUME NEW f \in batch, SendOK(f) \/ SendError(f)
          PROVE  accepted[g] <= accepted'[g] /\ accepted'[g] \in Nat
      BY <2>0, <3>1 DEF SendOK, SendError, Arrives, Frame
    <3>2. CASE UNCHANGED accepted
      BY <2>0, <3>2
    <3> QED
      BY <3>1, <3>2
      DEF Next, vars, loopVars, Release, MarkDirty, Signal, TimerFires, RunWake,
          RunFlush, Acknowledge, FlushReturns, FlushStart, FlushPoll,
          FlushSkipped, RunReturns
  <2>2. CASE n \in tickets[g]
    BY <2>0, <2>1, <2>2 DEF TicketTruth
  <2>3. ASSUME NEW c \in calls, MarkDirty(c), n \notin tickets[g]
        PROVE  n <= accepted'[g]
    <3>1. CASE c.seq <= acked[c.group]
      <4>1. /\ tickets' = [tickets EXCEPT ![c.group] = @ \cup {c.seq}]
            /\ accepted' = accepted
        BY <2>3, <3>1 DEF MarkDirty
      <4> QED
        BY <2>0, <2>3, <3>1, <4>1 DEF Follows, Frame
    <3>2. CASE ~(c.seq <= acked[c.group])
      BY <2>3, <3>2 DEF MarkDirty
    <3> QED
      BY <3>1, <3>2
  <2>4. ASSUME NEW f \in sent, Acknowledge(f), n \notin tickets[g]
        PROVE  n <= accepted'[g]
    <3>1. CASE f.seq > acked[f.group]
      <4>1. /\ tickets' = [tickets EXCEPT ![f.group] =
                             @ \cup {m \in waiters[f.group] : m <= f.seq}]
            /\ accepted' = accepted
        BY <2>4, <3>1 DEF Acknowledge
      <4>2. g = f.group /\ n <= f.seq /\ n \in Nat
        BY <2>0, <2>4, <4>1 DEF Frame
      <4> QED
        BY <2>0, <4>1, <4>2 DEF Follows, Frame
    <3>2. CASE ~(f.seq > acked[f.group])
      BY <2>4, <3>2 DEF Acknowledge
    <3> QED
      BY <3>1, <3>2
  <2> QED
    BY <2>2, <2>3, <2>4
    DEF Next, vars, loopVars, Release, Signal, TimerFires, RunWake, RunFlush,
        SendOK, SendError, FlushReturns, FlushStart, FlushPoll, FlushSkipped,
        RunReturns
<1> QED
  BY <1>1, <1>2, TypeCorrect, SequencesFollow, PTL DEF Spec

-----------------------------------------------------------------------------
(* Waiters, and the end of the lifetime.                                   *)

\* No waiter is stranded: its sequence is not acknowledged yet, and the next
\* flush covers it (MarkDirty, flush).
THEOREM WaitersAreCovered == Spec => []WaitersCovered
<1>1. Init => WaitersCovered
  BY DEF Init, WaitersCovered
<1>2. TypeOK /\ WaitersCovered /\ [Next]_vars => WaitersCovered'
  <2> SUFFICES ASSUME TypeOK, WaitersCovered, [Next]_vars
               PROVE  WaitersCovered'
    OBVIOUS
  <2> USE DEF WaitersCovered, Frame
  <2>0. /\ latest \in [Groups -> Nat] /\ acked \in [Groups -> Nat]
        /\ waiters \in [Groups -> SUBSET Nat]
        /\ calls \subseteq Frame /\ sent \subseteq Frame
    BY FlusherAssumption DEF TypeOK, Seq
  <2>1. ASSUME NEW c \in calls, MarkDirty(c) PROVE WaitersCovered'
    <3>1. CASE c.seq <= acked[c.group]
      BY <2>1, <3>1 DEF MarkDirty
    <3>2. CASE ~(c.seq <= acked[c.group])
      <4>1. /\ waiters' = [waiters EXCEPT ![c.group] = @ \cup {c.seq}]
            /\ latest' = [latest EXCEPT ![c.group] =
                            IF c.seq > @ THEN c.seq ELSE @]
            /\ acked' = acked
        BY <2>1, <3>2 DEF MarkDirty
      <4> QED
        BY <2>0, <3>2, <4>1, FlusherAssumption
    <3> QED
      BY <3>1, <3>2
  <2>2. ASSUME NEW f \in sent, Acknowledge(f) PROVE WaitersCovered'
    <3>1. CASE f.seq > acked[f.group]
      <4>1. /\ acked' = [acked EXCEPT ![f.group] = f.seq]
            /\ waiters' = [waiters EXCEPT ![f.group] =
                             @ \ {n \in waiters[f.group] : n <= f.seq}]
            /\ latest' = latest
        BY <2>2, <3>1 DEF Acknowledge
      <4> QED
        BY <2>0, <4>1, FlusherAssumption
    <3>2. CASE ~(f.seq > acked[f.group])
      BY <2>2, <3>2 DEF Acknowledge
    <3> QED
      BY <3>1, <3>2
  <2>3. CASE UNCHANGED <<waiters, latest, acked>>
    BY <2>3
  <2> QED
    BY <2>1, <2>2, <2>3
    DEF Next, vars, loopVars, Release, Signal, TimerFires, RunWake, RunFlush,
        SendOK, SendError, FlushReturns, FlushStart, FlushPoll, FlushSkipped,
        RunReturns
<1> QED
  BY <1>1, <1>2, TypeCorrect, PTL DEF Spec

\* The last release of a group is never forgotten on its way: it is latest, it
\* is acknowledged, or its MarkDirty call is still to come.  Flush starts when
\* no call is left and counts nothing more.
Delivered ==
  /\ \A g \in Groups : \/ latest[g] = released[g]
                       \/ acked[g] = released[g]
                       \/ [group |-> g, seq |-> released[g]] \in calls
  /\ flush \in {"polling", "done", "failed"} => calls = {}

\* When Flush returns nil, Home knows of every execution of the lifetime
\* (Flush, stopHomeLifetimeLocked): Idle together with Delivered leaves no
\* release between the registry and Home.
THEOREM FlushCompletes == Spec => [](Delivered /\ FlushComplete)
<1>1. Init => Delivered /\ FlushComplete
  BY DEF Init, Delivered, FlushComplete
<1>2. TypeOK /\ Follows /\ Delivered /\ FlushComplete /\ [Next]_vars
        => Delivered'
  <2> SUFFICES ASSUME TypeOK, Follows, Delivered, [Next]_vars PROVE Delivered'
    OBVIOUS
  <2> USE DEF Delivered
  <2>0. /\ released \in [Groups -> Nat] /\ accepted \in [Groups -> Nat]
        /\ latest \in [Groups -> Nat] /\ acked \in [Groups -> Nat]
        /\ calls \subseteq Frame /\ sent \subseteq Frame
        /\ \A f \in Frame : f.group \in Groups /\ f.seq \in Nat
        /\ \A f \in Frame : f = [group |-> f.group, seq |-> f.seq]
    BY FlusherAssumption DEF TypeOK, Seq, Frame
  <2>1. ASSUME NEW g \in Groups, Release(g) PROVE Delivered'
    <3>1. /\ released' = [released EXCEPT ![g] = @ + 1]
          /\ calls' = calls \cup {[group |-> g, seq |-> released[g] + 1]}
          /\ UNCHANGED <<latest, acked, flush>>
          /\ flush \in {"idle", "skipped"}
      BY <2>1 DEF Release
    <3> QED
      BY <2>0, <3>1
  <2>2. ASSUME NEW c \in calls, MarkDirty(c) PROVE Delivered'
    <3>0. /\ calls' = calls \ {c}
          /\ UNCHANGED <<released, acked, flush>>
      BY <2>2 DEF MarkDirty
    <3>1. ASSUME NEW g \in Groups
          PROVE  \/ latest'[g] = released'[g]
                 \/ acked'[g] = released'[g]
                 \/ [group |-> g, seq |-> released'[g]] \in calls'
      <4>1. CASE c.seq <= acked[c.group]
        <5>1. latest' = latest
          BY <2>2, <4>1 DEF MarkDirty
        <5>2. CASE c = [group |-> g, seq |-> released[g]]
          BY <2>0, <3>0, <4>1, <5>2 DEF Follows
        <5>3. CASE c # [group |-> g, seq |-> released[g]]
          BY <3>0, <5>1, <5>3
        <5> QED
          BY <5>2, <5>3
      <4>2. CASE ~(c.seq <= acked[c.group])
        <5>1. latest' = [latest EXCEPT ![c.group] =
                           IF c.seq > @ THEN c.seq ELSE @]
          BY <2>2, <4>2 DEF MarkDirty
        <5>2. CASE c = [group |-> g, seq |-> released[g]]
          BY <2>0, <3>0, <5>1, <5>2 DEF Follows
        <5>3. CASE latest[g] = released[g]
          BY <2>0, <3>0, <5>1, <5>3 DEF Follows
        <5> QED
          BY <2>0, <3>0, <5>2, <5>3
      <4> QED
        BY <4>1, <4>2
    <3> QED
      BY <3>0, <3>1
  <2>3. ASSUME NEW f \in sent, Acknowledge(f) PROVE Delivered'
    <3>0. UNCHANGED <<released, calls, latest, flush>>
      BY <2>3 DEF Acknowledge
    <3>1. CASE f.seq > acked[f.group]
      <4>1. acked' = [acked EXCEPT ![f.group] = f.seq]
        BY <2>3, <3>1 DEF Acknowledge
      <4> QED
        BY <2>0, <3>0, <3>1, <4>1 DEF Follows
    <3>2. CASE ~(f.seq > acked[f.group])
      BY <2>3, <3>0, <3>2 DEF Acknowledge
    <3> QED
      BY <3>1, <3>2
  <2>4. CASE FlushStart \/ FlushPoll \/ FlushSkipped
    BY <2>4 DEF FlushStart, FlushPoll, FlushSkipped
  <2>5. CASE UNCHANGED <<released, calls, latest, acked, flush>>
    BY <2>5
  <2> QED
    BY <2>1, <2>2, <2>3, <2>4, <2>5
    DEF Next, vars, loopVars, Signal, TimerFires, RunWake, RunFlush, SendOK,
        SendError, FlushReturns, RunReturns
<1>3. TypeOK /\ Follows /\ Follows' /\ Delivered /\ FlushComplete /\ [Next]_vars
        => FlushComplete'
  <2> SUFFICES ASSUME TypeOK, TypeOK', Follows, Follows', Delivered,
                      FlushComplete, [Next]_vars, flush' = "done",
                      NEW g \in Groups
               PROVE  accepted'[g] = released'[g]
    BY TypeStep DEF FlushComplete
  <2>0. /\ released[g] \in Nat /\ accepted[g] \in Nat /\ accepted'[g] \in Nat
        /\ latest[g] \in Nat /\ acked[g] \in Nat
        /\ calls \subseteq Frame /\ batch \subseteq Frame
    BY FlusherAssumption DEF TypeOK, Seq
  <2>1. CASE flush # "done"
    <3>1. Idle /\ flush = "polling" /\ UNCHANGED <<accepted, released>>
      BY <2>1
      DEF Next, vars, loopVars, Release, MarkDirty, Signal, TimerFires, RunWake,
          RunFlush, SendOK, SendError, Acknowledge, FlushReturns, FlushStart,
          FlushPoll, FlushSkipped, RunReturns
    <3>2. latest[g] <= acked[g] /\ acked[g] <= accepted[g]
      BY <2>0, <3>1 DEF Idle, Dirty, Follows
    <3>3. accepted[g] <= released[g]
      BY DEF Follows
    <3>4. latest[g] = released[g] \/ acked[g] = released[g]
      BY <3>1 DEF Delivered
    <3> QED
      BY <2>0, <3>1, <3>2, <3>3, <3>4
  <2>2. CASE flush = "done"
    <3>1. accepted[g] = released[g]
      BY <2>2 DEF FlushComplete
    <3>2. released' = released
      BY <2>2
      DEF Next, vars, loopVars, Release, MarkDirty, Signal, TimerFires, RunWake,
          RunFlush, SendOK, SendError, Acknowledge, FlushReturns, FlushStart,
          FlushPoll, FlushSkipped, RunReturns
    <3>3. accepted[g] <= accepted'[g]
      <4>0. accepted \in [Groups -> Nat]
        BY FlusherAssumption DEF TypeOK, Seq
      <4>1. ASSUME NEW f \in batch, SendOK(f) \/ SendError(f)
            PROVE  accepted[g] <= accepted'[g]
        BY <2>0, <4>0, <4>1 DEF SendOK, SendError, Arrives, Frame
      <4>2. CASE UNCHANGED accepted
        BY <2>0, <4>2
      <4> QED
        BY <4>1, <4>2
        DEF Next, vars, loopVars, Release, MarkDirty, Signal, TimerFires,
            RunWake, RunFlush, Acknowledge, FlushReturns, FlushStart,
            FlushPoll, FlushSkipped, RunReturns
    <3> QED
      BY <2>0, <3>1, <3>2, <3>3 DEF Follows
  <2> QED
    BY <2>1, <2>2
<1> QED
  BY <1>1, <1>2, <1>3, TypeCorrect, SequencesFollow, PTL DEF Spec

-----------------------------------------------------------------------------
(* Wake-ups.                                                               *)

\* What flush has yet to send of its snapshot.
Under == batch \cup sent

\* While a flush goes well, a dirty group is covered by a frame with its latest
\* sequence, or a wake-up is on its way: MarkDirty signals after the unlock, and
\* a token put in the wake channel during the flush stays there.
Prompt ==
  /\ PromptFlush
  /\ loop = "flush" /\ ~failed =>
       \A g \in Groups : Dirty(g) =>
         \/ wake \/ signals # {}
         \/ \E f \in Under : f.group = g /\ f.seq = latest[g]

\* What is left to send covers a group for as long as it stays dirty.
LEMMA AcknowledgeCovers ==
  ASSUME TypeOK, Prompt, NEW f \in sent, sent \subseteq {f}, Acknowledge(f)
  PROVE  Prompt'
<1>0. /\ latest \in [Groups -> Nat] /\ acked \in [Groups -> Nat]
      /\ f.group \in Groups /\ f.seq \in Nat
      /\ UNCHANGED <<latest, batch, wake, signals, loop, failed, timer, backingOff>>
      /\ sent' = {}
  BY FlusherAssumption DEF TypeOK, Seq, Frame, Acknowledge
<1>1. /\ \A g \in Groups : acked'[g] >= acked[g] /\ acked'[g] \in Nat
      /\ acked'[f.group] >= f.seq
  <2>1. CASE f.seq > acked[f.group]
    <3>1. acked' = [acked EXCEPT ![f.group] = f.seq]
      BY <2>1 DEF Acknowledge
    <3> QED
      BY <1>0, <2>1, <3>1
  <2>2. CASE ~(f.seq > acked[f.group])
    BY <1>0, <2>2 DEF Acknowledge
  <2> QED
    BY <2>1, <2>2
<1>2. ASSUME NEW g \in Groups, Dirty(g)' PROVE Dirty(g)
  BY <1>0, <1>1, <1>2 DEF Dirty
<1>3. PromptFlush'
  BY <1>0, <1>2 DEF Prompt, PromptFlush, Idle
<1>4. ASSUME NEW g \in Groups, Dirty(g)', loop = "flush", ~failed,
             ~wake, signals = {}
      PROVE  \E h \in Under' : h.group = g /\ h.seq = latest[g]
  <2>1. PICK h \in Under : h.group = g /\ h.seq = latest[g]
    BY <1>2, <1>4 DEF Prompt
  <2>2. h # f
    BY <1>0, <1>1, <1>4, <2>1 DEF Dirty
  <2>3. h \in Under'
    BY <1>0, <2>1, <2>2 DEF Under
  <2> QED
    BY <2>1, <2>3
<1> QED
  BY <1>0, <1>3, <1>4 DEF Prompt

\* flush sends one frame at a time.
OneSent == \A f, h \in sent : f = h

LEMMA OneSentStep ==
  ASSUME OneSent, [Next]_vars
  PROVE  OneSent'
  BY DEF OneSent, Next, vars, loopVars, Release, MarkDirty, Signal, TimerFires,
         RunWake, RunFlush, SendOK, SendError, Acknowledge, FlushReturns,
         FlushStart, FlushPoll, FlushSkipped, RunReturns

\* No wake-up is lost: Run sits out its interval over a dirty group only while it
\* backs off from a failed send (signal, Run's select, flush's snapshot).
THEOREM FlushesPromptly == Spec => []PromptFlush
<1> USE DEF loopVars
<1>1. Init => Prompt /\ OneSent
  BY FlusherAssumption DEF Init, Prompt, PromptFlush, OneSent
<1>2. TypeOK /\ Prompt /\ OneSent /\ [Next]_vars => Prompt'
  <2> SUFFICES ASSUME TypeOK, Prompt, OneSent, [Next]_vars PROVE Prompt'
    OBVIOUS
  <2> USE DEF Prompt, PromptFlush
  <2>1. ASSUME NEW g \in Groups, Release(g) PROVE Prompt'
    BY <2>1 DEF Release, Idle, Dirty, Under
  <2>2. ASSUME NEW c \in calls, MarkDirty(c) PROVE Prompt'
    BY <2>2 DEF MarkDirty
  <2>3. ASSUME NEW c \in signals, Signal(c) PROVE Prompt'
    BY <2>3 DEF Signal
  <2>4. CASE TimerFires
    BY <2>4 DEF TimerFires
  <2>5. CASE RunWake
    BY <2>5 DEF RunWake, Idle, Dirty
  <2>6. CASE RunFlush
    <3>1. /\ loop' = "flush" /\ UNCHANGED <<latest, acked, wake, signals>>
          /\ batch' = {[group |-> g, seq |-> latest[g]] :
                         g \in {h \in Groups : Dirty(h)}}
      BY <2>6 DEF RunFlush
    <3>2. ASSUME NEW g \in Groups, Dirty(g)
          PROVE  [group |-> g, seq |-> latest[g]] \in Under'
      BY <3>1, <3>2 DEF Under
    <3> QED
      BY <3>1, <3>2 DEF Dirty
  <2>7. ASSUME NEW f \in batch, SendOK(f) \/ SendError(f) PROVE Prompt'
    BY <2>7 DEF SendOK, SendError, Idle, Dirty, Under
  <2>8. ASSUME NEW f \in sent, Acknowledge(f) PROVE Prompt'
    BY <2>8, AcknowledgeCovers DEF OneSent
  <2>9. CASE FlushReturns
    BY <2>9 DEF FlushReturns, Idle, Dirty, Under
  <2>10. CASE FlushStart \/ FlushPoll \/ FlushSkipped \/ RunReturns
    BY <2>10 DEF FlushStart, FlushPoll, FlushSkipped, RunReturns, Idle, Dirty, Under
  <2>11. CASE UNCHANGED vars
    BY <2>11 DEF vars, Idle, Dirty, Under
  <2> QED
    BY <2>1, <2>2, <2>3, <2>4, <2>5, <2>6, <2>7, <2>8, <2>9, <2>10, <2>11
    DEF Next
<1>3. OneSent /\ [Next]_vars => OneSent'
  BY OneSentStep
<1>4. Prompt => PromptFlush
  BY DEF Prompt
<1> QED
  BY <1>1, <1>2, <1>3, <1>4, TypeCorrect, PTL DEF Spec

-----------------------------------------------------------------------------
(* The flusher implements the promise made to Home.                        *)

\* A frame that is sent is a release Home learns of late, twice or not at all;
\* never one that has not happened.
LEMMA SendKeepsPromise ==
  ASSUME TypeOK, Follows, NEW f \in batch, SendOK(f) \/ SendError(f)
  PROVE  (\E g \in Groups : Promise!Accept(g)) \/ UNCHANGED <<released, accepted>>
<1>0. /\ released \in [Groups -> Nat] /\ accepted \in [Groups -> Nat]
      /\ f.group \in Groups /\ f.seq \in Nat
      /\ f.seq <= released[f.group]
      /\ released' = released
  BY FlusherAssumption DEF TypeOK, Seq, Frame, Follows, SendOK, SendError
<1>1. Arrives(f) \/ UNCHANGED accepted
  BY DEF SendOK, SendError
<1>2. CASE f.seq > accepted[f.group] /\ Arrives(f)
  <2>1. accepted' = [accepted EXCEPT ![f.group] = f.seq]
    BY <1>2 DEF Arrives
  <2>2. f.seq \in accepted[f.group] + 1 .. released[f.group]
    BY <1>0, <1>2
  <2>3. Promise!Accept(f.group)
    BY <1>0, <2>1, <2>2 DEF Promise!Accept
  <2> QED
    BY <1>0, <2>3
<1>3. CASE ~(f.seq > accepted[f.group]) /\ Arrives(f)
  BY <1>0, <1>3 DEF Arrives
<1> QED
  BY <1>0, <1>1, <1>2, <1>3

\* The flusher implements CumulativeRelease: Home counts an execution as over
\* only after it is, and forgets none it has learned of, whatever is lost,
\* repeated or reordered on the way.
THEOREM KeepsPromise == Spec => ImplementsPromise
<1>1. Init => Promise!Init
  BY DEF Init, Promise!Init
<1>2. TypeOK /\ Follows /\ [Next]_vars => [Promise!Next]_(Promise!vars)
  <2> SUFFICES ASSUME TypeOK, Follows, [Next]_vars
               PROVE  Promise!Next \/ UNCHANGED <<released, accepted>>
    BY DEF Promise!vars
  <2>1. ASSUME NEW g \in Groups, Release(g) PROVE Promise!Next
    BY <2>1 DEF Release, Promise!Release, Promise!Next
  <2>2. ASSUME NEW f \in batch, SendOK(f) \/ SendError(f)
        PROVE  Promise!Next \/ UNCHANGED <<released, accepted>>
    BY <2>2, SendKeepsPromise DEF Promise!Next
  <2> QED
    BY <2>1, <2>2
    DEF Next, vars, loopVars, MarkDirty, Signal, TimerFires, RunWake, RunFlush,
        Acknowledge, FlushReturns, FlushStart, FlushPoll, FlushSkipped,
        RunReturns
<1> QED
  BY <1>1, <1>2, TypeCorrect, SequencesFollow, PTL
  DEF Spec, ImplementsPromise, Promise!Spec

\* The flusher's view of the registry is a source of releases: executions are counted
\* and handed over one by one until Flush is called, and nothing comes after
\* (MarkDirty, stopHomeLifetimeLocked).
THEOREM ReliesOnSource == Spec => ImplementsSource
<1> DEFINE quiet == flush \in {"polling", "done", "failed"}
<1>1. Init => Source!Init
  BY DEF Init, Source!Init
<1>2. [Next]_vars => [Source!Next]_(Source!vars)
  <2> SUFFICES ASSUME [Next]_vars
               PROVE  Source!Next \/ UNCHANGED <<released, calls, quiet>>
    BY DEF Source!vars
  <2>1. ASSUME NEW g \in Groups, Release(g) PROVE Source!Release(g)
    BY <2>1 DEF Release, Source!Release
  <2>2. ASSUME NEW c \in calls, MarkDirty(c) PROVE Source!Call(c)
    BY <2>2 DEF MarkDirty, Source!Call
  <2>3. CASE FlushStart
    BY <2>3 DEF FlushStart, Source!FallQuiet, Source!Next
  <2>4. CASE FlushPoll
    <3>1. flush = "polling" /\ flush' \in {"done", "failed"} /\ UNCHANGED <<released, calls>>
      BY <2>4 DEF FlushPoll
    <3> QED
      BY <3>1
  <2>5. CASE FlushSkipped
    BY <2>5 DEF FlushSkipped
  <2>6. CASE UNCHANGED <<released, calls, flush>>
    BY <2>6
  <2> QED
    BY <2>1, <2>2, <2>3, <2>4, <2>5, <2>6
    DEF Next, vars, loopVars, Source!Next, Signal, TimerFires, RunWake, RunFlush, SendOK,
        SendError, Acknowledge, FlushReturns, RunReturns
<1> QED
  BY <1>1, <1>2, PTL DEF Spec, ImplementsSource, Source!Spec

=============================================================================
