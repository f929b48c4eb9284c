---------------------------- MODULE ReleaseFlusher ----------------------------
(***************************************************************************)
(* internal/home/concurrency_release.go: the goroutine that carries the    *)
(* cumulative release sequences of an ExecutionRegistry to Home, and       *)
(* completes the tickets of those who wait for Home to know.               *)
(*                                                                         *)
(* The registry calls MarkDirty with no lock held, so calls for one group  *)
(* arrive in any order.  Home and the connection to it are external: a     *)
(* send may fail before or after Home has applied it.                      *)
(***************************************************************************)
EXTENDS Naturals

CONSTANTS
  Groups,  \* release groups
  MaxSeq   \* bound: releases per group

ASSUME FlusherAssumption == MaxSeq \in Nat

VARIABLES
  released,  \* Registry.releaseSequences
  calls,     \* MarkDirty calls on their way: captured, not yet made
  signals,   \* MarkDirty calls that have unlocked and not yet signalled
  latest,    \* releaseState.Latest
  acked,     \* releaseState.Acked
  waiters,   \* releaseState.waiters: sequences with an open ticket
  tickets,   \* sequences whose ticket is closed
  wake,      \* the token in the wake channel
  force,     \* the token in the force channel
  timer,     \* Run's timer: "due" when it has fired or is reset to 0
  backingOff,
  loop,      \* where Run is: at its select, in flush, or returned
  batch,     \* flush's `pending' snapshot: what is left of it to send
  sent,      \* the frame that was sent and whose acknowledgement is next
  failed,    \* flush's result so far
  flush,     \* the call of Flush that ends the subscriber lifetime
  accepted   \* external: the sequence Home has applied

loopVars == <<wake, force, timer, backingOff, loop, batch, sent, failed>>
vars == <<released, calls, signals, latest, acked, waiters, tickets, loopVars,
          flush, accepted>>

Seq == 0..MaxSeq
Frame == [group : Groups, seq : 1..MaxSeq]

Init ==
  /\ released = [g \in Groups |-> 0]
  /\ calls = {} /\ signals = {}
  /\ latest = [g \in Groups |-> 0]
  /\ acked = [g \in Groups |-> 0]
  /\ waiters = [g \in Groups |-> {}]
  /\ tickets = [g \in Groups |-> {}]
  /\ wake = TRUE  \* NewReleaseFlusher: SetConfigProvider signals
  /\ force = FALSE
  /\ timer = "due"
  /\ backingOff = FALSE
  /\ loop = "select"
  /\ batch = {}
  /\ sent = {}
  /\ failed = FALSE
  /\ flush = "idle"
  /\ accepted = [g \in Groups |-> 0]

\* A group Home has not acknowledged yet; idle() is that there is none.
Dirty(g) == latest[g] > acked[g]
Idle == \A g \in Groups : ~Dirty(g)

-----------------------------------------------------------------------------
(* The registry: an execution is counted, then MarkDirty is called.        *)

\* Drain has returned nil when Flush is called: no execution is left to count.
\* After a Drain that failed, executions still end.
Release(g) ==
  /\ flush \in {"idle", "skipped"}
  /\ released[g] < MaxSeq
  /\ released' = [released EXCEPT ![g] = @ + 1]
  /\ calls' = calls \cup {[group |-> g, seq |-> released[g] + 1]}
  /\ UNCHANGED <<signals, latest, acked, waiters, tickets, loopVars, flush,
                 accepted>>

\* Mutant of MarkDirty: a sequence acknowledged already opens a ticket too.
MarkDirtyUnchecked(c) ==
  /\ c \in calls
  /\ calls' = calls \ {c}
  /\ waiters' = [waiters EXCEPT ![c.group] = @ \cup {c.seq}]
  /\ latest' = [latest EXCEPT ![c.group] = IF c.seq > @ THEN c.seq ELSE @]
  /\ signals' = signals \cup {c}
  /\ UNCHANGED <<released, acked, tickets, loopVars, flush, accepted>>

MarkDirty(c) ==
  /\ c \in calls
  /\ calls' = calls \ {c}
  /\ IF c.seq <= acked[c.group]
     THEN /\ tickets' = [tickets EXCEPT ![c.group] = @ \cup {c.seq}]
          /\ UNCHANGED <<waiters, latest>>
     ELSE /\ waiters' = [waiters EXCEPT ![c.group] = @ \cup {c.seq}]
          /\ latest' = [latest EXCEPT ![c.group] =
                          IF c.seq > @ THEN c.seq ELSE @]
          /\ UNCHANGED tickets
  /\ signals' = signals \cup {c}
  /\ UNCHANGED <<released, acked, loopVars, flush, accepted>>

\* signal(), after the unlock: a token already in the channel is enough.
Signal(c) ==
  /\ c \in signals
  /\ signals' = signals \ {c}
  /\ wake' = TRUE
  /\ UNCHANGED <<released, calls, latest, acked, waiters, tickets, force,
                 timer, backingOff, loop, batch, sent, failed, flush, accepted>>

-----------------------------------------------------------------------------
(* Run.                                                                    *)

TimerFires ==
  /\ loop = "select"
  /\ timer = "armed"
  /\ timer' = "due"
  /\ UNCHANGED <<released, calls, signals, latest, acked, waiters, tickets,
                 wake, force, backingOff, loop, batch, sent, failed, flush,
                 accepted>>

\* Mutant of RunWake: the timer is left to its interval.
RunWakeWaits ==
  /\ loop = "select" /\ wake
  /\ wake' = FALSE
  /\ UNCHANGED <<released, calls, signals, latest, acked, waiters, tickets,
                 force, timer, backingOff, loop, batch, sent, failed, flush,
                 accepted>>

\* case <-f.wake: a failing connection is not hammered by new releases.
RunWake ==
  /\ loop = "select" /\ wake
  /\ wake' = FALSE
  /\ timer' = IF backingOff THEN timer ELSE "due"
  /\ UNCHANGED <<released, calls, signals, latest, acked, waiters, tickets,
                 force, backingOff, loop, batch, sent, failed, flush, accepted>>

\* Mutants of RunFlush: every group is sent, or one more than the latest.
RunFlushAll ==
  /\ loop = "select"
  /\ \/ timer = "due" /\ UNCHANGED force
     \/ force /\ force' = FALSE
  /\ loop' = "flush"
  /\ batch' = {[group |-> g, seq |-> latest[g]] : g \in Groups}
  /\ failed' = FALSE
  /\ timer' = "armed"
  /\ UNCHANGED <<released, calls, signals, latest, acked, waiters, tickets,
                 wake, backingOff, sent, flush, accepted>>

RunFlushAhead ==
  /\ loop = "select"
  /\ \/ timer = "due" /\ UNCHANGED force
     \/ force /\ force' = FALSE
  /\ loop' = "flush"
  /\ batch' = {[group |-> g, seq |-> latest[g] + 1] :
                 g \in {h \in Groups : Dirty(h)}}
  /\ failed' = FALSE
  /\ timer' = "armed"
  /\ UNCHANGED <<released, calls, signals, latest, acked, waiters, tickets,
                 wake, backingOff, sent, flush, accepted>>

\* The other two cases of the select enter flush, which snapshots the dirty
\* groups under the lock.
RunFlush ==
  /\ loop = "select"
  /\ \/ timer = "due" /\ UNCHANGED force
     \/ force /\ force' = FALSE
  /\ loop' = "flush"
  /\ batch' = {[group |-> g, seq |-> latest[g]] : g \in {h \in Groups : Dirty(h)}}
  /\ failed' = FALSE
  /\ timer' = "armed"
  /\ UNCHANGED <<released, calls, signals, latest, acked, waiters, tickets,
                 wake, backingOff, sent, flush, accepted>>

\* PushConcurrencyRelease of one frame of the snapshot, with no lock held.
\* Home applies the cumulative sequence if the frame arrives; an error may
\* be returned all the same.
Arrives(f) == accepted' = [accepted EXCEPT ![f.group] = IF f.seq > @ THEN f.seq ELSE @]

SendOK(f) ==
  /\ loop = "flush" /\ sent = {} /\ f \in batch
  /\ Arrives(f)
  /\ batch' = batch \ {f}
  /\ sent' = {f}
  /\ UNCHANGED <<released, calls, signals, latest, acked, waiters, tickets,
                 wake, force, timer, backingOff, loop, failed, flush>>

SendError(f) ==
  /\ loop = "flush" /\ sent = {} /\ f \in batch
  /\ Arrives(f) \/ UNCHANGED accepted
  /\ batch' = batch \ {f}
  /\ failed' = TRUE
  /\ UNCHANGED <<released, calls, signals, latest, acked, waiters, tickets,
                 wake, force, timer, backingOff, loop, sent, flush>>

\* Mutants of Acknowledge: the latest sequence closes tickets, or the one that
\* was acknowledged does not close its own.
AcknowledgeLatest(f) ==
  /\ f \in sent
  /\ sent' = {}
  /\ IF f.seq > acked[f.group]
     THEN LET over == {n \in waiters[f.group] : n <= latest[f.group]} IN
          /\ acked' = [acked EXCEPT ![f.group] = latest[f.group]]
          /\ tickets' = [tickets EXCEPT ![f.group] = @ \cup over]
          /\ waiters' = [waiters EXCEPT ![f.group] = @ \ over]
     ELSE UNCHANGED <<acked, tickets, waiters>>
  /\ UNCHANGED <<released, calls, signals, latest, wake, force, timer,
                 backingOff, loop, batch, failed, flush, accepted>>

AcknowledgeBelow(f) ==
  /\ f \in sent
  /\ sent' = {}
  /\ IF f.seq > acked[f.group]
     THEN LET over == {n \in waiters[f.group] : n < f.seq} IN
          /\ acked' = [acked EXCEPT ![f.group] = f.seq]
          /\ tickets' = [tickets EXCEPT ![f.group] = @ \cup over]
          /\ waiters' = [waiters EXCEPT ![f.group] = @ \ over]
     ELSE UNCHANGED <<acked, tickets, waiters>>
  /\ UNCHANGED <<released, calls, signals, latest, wake, force, timer,
                 backingOff, loop, batch, failed, flush, accepted>>

\* The acknowledged sequence, not the latest one, closes tickets.
Acknowledge(f) ==
  /\ f \in sent
  /\ sent' = {}
  /\ IF f.seq > acked[f.group]
     THEN LET over == {n \in waiters[f.group] : n <= f.seq} IN
          /\ acked' = [acked EXCEPT ![f.group] = f.seq]
          /\ tickets' = [tickets EXCEPT ![f.group] = @ \cup over]
          /\ waiters' = [waiters EXCEPT ![f.group] = @ \ over]
     ELSE UNCHANGED <<acked, tickets, waiters>>
  /\ UNCHANGED <<released, calls, signals, latest, wake, force, timer,
                 backingOff, loop, batch, failed, flush, accepted>>

\* flush returns; nextDelay decides whether the loop backs off.
FlushReturns ==
  /\ loop = "flush" /\ sent = {} /\ batch = {}
  /\ loop' = "select"
  /\ backingOff' = failed
  /\ timer' = "armed"
  /\ UNCHANGED <<released, calls, signals, latest, acked, waiters, tickets,
                 wake, force, batch, sent, failed, flush, accepted>>

-----------------------------------------------------------------------------
(* The end of the lifetime: stopHomeLifetimeLocked, after Drain.           *)

\* Flush puts its token in the force channel; the registry has drained, so
\* every MarkDirty call has returned.
FlushStart ==
  /\ flush = "idle" /\ calls = {} /\ signals = {}
  /\ flush' = "polling"
  /\ force' = TRUE
  /\ UNCHANGED <<released, calls, signals, latest, acked, waiters, tickets,
                 wake, timer, backingOff, loop, batch, sent, failed, accepted>>

\* Mutant of FlushPoll: done as soon as no frame is under way.
FlushPollBatch ==
  /\ flush = "polling"
  /\ \/ batch = {} /\ sent = {} /\ flush' = "done"
     \/ flush' = "failed"
  /\ UNCHANGED <<released, calls, signals, latest, acked, waiters, tickets,
                 loopVars, accepted>>

FlushPoll ==
  /\ flush = "polling"
  /\ \/ Idle /\ flush' = "done"
     \/ flush' = "failed"  \* ctx.Done
  /\ UNCHANGED <<released, calls, signals, latest, acked, waiters, tickets,
                 loopVars, accepted>>

\* A Drain that failed is not followed by Flush.
FlushSkipped ==
  /\ flush = "idle"
  /\ flush' = "skipped"
  /\ UNCHANGED <<released, calls, signals, latest, acked, waiters, tickets,
                 loopVars, accepted>>

\* homeReleaseCancel: Run returns at its next select.
RunReturns ==
  /\ flush \in {"done", "failed", "skipped"}
  /\ loop = "select"
  /\ loop' = "returned"
  /\ UNCHANGED <<released, calls, signals, latest, acked, waiters, tickets,
                 wake, force, timer, backingOff, batch, sent, failed, flush,
                 accepted>>

-----------------------------------------------------------------------------
Next ==
  \/ \E g \in Groups : Release(g)
  \/ \E c \in calls : MarkDirty(c)
  \/ \E c \in signals : Signal(c)
  \/ TimerFires
  \/ RunWake
  \/ RunFlush
  \/ \E f \in batch : SendOK(f) \/ SendError(f)
  \/ \E f \in sent : Acknowledge(f)
  \/ FlushReturns
  \/ FlushStart
  \/ FlushPoll
  \/ FlushSkipped
  \/ RunReturns

Spec == Init /\ [][Next]_vars

\* The goroutines run and time passes; a send that is tried again and again
\* succeeds at last (the connection to Home comes back).
Fairness ==
  /\ WF_vars(\E c \in calls : MarkDirty(c))
  /\ WF_vars(\E c \in signals : Signal(c))
  /\ WF_vars(TimerFires)
  /\ WF_vars(RunFlush)
  /\ WF_vars(\E f \in batch : SendOK(f) \/ SendError(f))
  /\ \A g \in Groups : SF_vars(\E f \in batch : f.group = g /\ SendOK(f))
  /\ WF_vars(\E f \in sent : Acknowledge(f))
  /\ WF_vars(FlushReturns)

FairSpec == Spec /\ Fairness

-----------------------------------------------------------------------------
(* Properties.                                                             *)

TypeOK ==
  /\ released \in [Groups -> Seq] /\ accepted \in [Groups -> Seq]
  /\ latest \in [Groups -> Seq] /\ acked \in [Groups -> Seq]
  /\ calls \subseteq Frame /\ signals \subseteq Frame
  /\ batch \subseteq Frame /\ sent \subseteq Frame
  /\ waiters \in [Groups -> SUBSET Seq] /\ tickets \in [Groups -> SUBSET Seq]
  /\ wake \in BOOLEAN /\ force \in BOOLEAN /\ failed \in BOOLEAN
  /\ backingOff \in BOOLEAN
  /\ timer \in {"armed", "due"}
  /\ loop \in {"select", "flush", "returned"}
  /\ flush \in {"idle", "polling", "done", "failed", "skipped"}

\* A closed ticket tells the truth: Home has applied a sequence at least as
\* high, whatever was marked while frames were being sent (MarkDirty, flush).
TicketTruth ==
  \A g \in Groups : \A n \in tickets[g] : n <= accepted[g]

\* No waiter is stranded: an open ticket is above what was acknowledged, or
\* nobody would close it, and covered by what the next flush sends.
WaitersCovered ==
  \A g \in Groups : \A n \in waiters[g] : acked[g] < n /\ n <= latest[g]

\* No lost wake-up: Run does not sit out its interval over a dirty group
\* unless it is backing off from a failed send (wake channel of capacity 1).
PromptFlush ==
  loop = "select" /\ ~backingOff /\ ~Idle =>
    wake \/ timer = "due" \/ signals # {}

\* When Flush returns nil, Home knows of every execution of the lifetime.
FlushComplete ==
  flush = "done" => \A g \in Groups : accepted[g] = released[g]

\* Implements the promise made to Home: what the registry counts as released, and
\* Home's cumulative sequence, are the two sides of it (MarkDirty, flush).
Promise == INSTANCE CumulativeRelease WITH
             Groups <- Groups, released <- released, accepted <- accepted
ImplementsPromise == Promise!Spec

\* The registry that this module stands in for hands its releases over as the real one
\* does (ExecutionRegistry implements the same module): Flush is only called once Drain
\* has returned nil (stopHomeLifetimeLocked).
Source == INSTANCE ReleaseSource WITH
            Groups <- Groups, released <- released, calls <- calls,
            quiet <- flush \in {"polling", "done", "failed"}
ImplementsSource == Source!Spec

\* Every release reaches Home and closes its ticket, while the lifetime
\* lasts and unless sends fail for ever.
TicketsClose ==
  \A g \in Groups, n \in 1..MaxSeq :
    released[g] >= n ~> n \in tickets[g] \/ flush \in {"failed", "skipped"}
=============================================================================
