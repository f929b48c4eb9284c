----------------------------- MODULE SchedulerSync -----------------------------
(***************************************************************************)
(* How the scheduler (sdk/cliproxy/auth/scheduler.go) follows the Manager  *)
(* (conductor.go) for one credential id.                                   *)
(*                                                                         *)
(* A writer changes Manager.auths under Manager.mu, clones the credential  *)
(* and hands the clone to the scheduler after it has unlocked, so clones   *)
(* arrive in any order.  The scheduler keeps a fence per id, the epoch,    *)
(* generation and update time of the newest clone it has seen, and drops   *)
(* what is older.                                                          *)
(*                                                                         *)
(* An action is one hold of Manager.mu or of authScheduler.mu.  The clock  *)
(* advances with every write, and names its content: `rev' is the write    *)
(* whose scheduling fields a clone carries.                                *)
(***************************************************************************)
EXTENDS Naturals, FiniteSets

CONSTANTS
  Management, \* whether the management API removes, replaces and resets the
              \* credential beside the one goroutine that applies auth updates
  Rebuilds,   \* whether failed picks rebuild the scheduler
  Records,    \* update times of the durable cooldown record (0 is no record)
  MaxLag,     \* bound: writes that overtake a writer which has read the clock
              \* and waits for Manager.mu
  MaxClock,   \* bound: writes
  MaxCalls    \* bound: calls of the scheduler under way

ASSUME SchedulerSyncAssumption ==
  /\ {Management, Rebuilds} \subseteq BOOLEAN
  /\ Records \subseteq 0..2
  /\ {MaxLag, MaxCalls} \subseteq Nat /\ MaxClock \in Nat \ {0, 1}

VARIABLES
  clock,     \* the last write
  serving,   \* whether Service.Run is past RestoreCooldownState
  record,    \* update time of the cooldown record still to be restored
  auth,      \* Manager.auths[id], NoAuth when absent
  epochs,    \* Manager.authEpochs[id]
  calls,     \* calls of the scheduler under way
  fence,     \* authScheduler.authGenerations[id], all zero when absent
  entry,     \* the write that the scheduled clone carries, 0 when unscheduled
  \* History, read by the properties only:
  dropped,   \* whether a rebuild unscheduled the credential last
  late       \* whether the last write of the credential has an earlier time than its own

scheduler == <<fence, entry, dropped>>
vars == <<clock, serving, record, auth, epochs, calls, scheduler, late>>

Time == 0..MaxClock
NoAuth == [epoch |-> 0, gen |-> 0, updated |-> 0, rev |-> 0, disabled |-> FALSE]
Registered(a) == a.rev > 0

\* A call: what it does, the clone it brings, and whether it keeps Register and
\* Update waiting until it returns, because its caller holds the mutation lock
\* of the id or is the goroutine that applies auth updates.
Call(op, a, holds) == [op |-> op, auth |-> a, holds |-> holds]
Upsert(a) == Call("upsert", a, FALSE)
Locked == \E c \in calls : c.holds
Start(c) == calls' = calls \cup {c}
CanCall == Cardinality(calls) < MaxCalls

\* Load has run: the credential as it was persisted, with its update time but
\* no epoch and no generation, and the scheduler rebuilt from it.
Init ==
  /\ clock = 2
  /\ serving = FALSE
  /\ record \in Records
  /\ \/ auth = [epoch |-> 0, gen |-> 0, updated |-> 2, rev |-> 2, disabled |-> FALSE]
     \/ auth = NoAuth /\ record = 0
  /\ epochs = 0
  /\ calls = {}
  /\ fence = [epoch |-> 0, gen |-> 0, updated |-> auth.updated]
  /\ entry = auth.rev
  /\ dropped = FALSE /\ late = FALSE

\* A write of the credential under Manager.mu, stamped with time t.
Write(t, epoch, gen, off) ==
  /\ clock < MaxClock
  /\ clock' = clock + 1
  /\ auth' = [epoch |-> epoch, gen |-> gen, updated |-> t, rev |-> clock + 1, disabled |-> off]
  /\ late' = (t # clock + 1)

\* ... of a credential that keeps its registration and its generation.
Rewrite(t) == Write(t, auth.epoch, auth.gen, auth.disabled)

\* The time a writer holds that read the clock before it took Manager.mu: its
\* own, or the time after some write that others have overtaken since.
ReadBefore(t) ==
  \/ t = clock + 1
  \/ serving /\ t \in 2..clock - 1 /\ clock - t <= MaxLag

-----------------------------------------------------------------------------
(* The Manager.                                                            *)

\* RestoreCooldownState, once the models are registered: the credential takes
\* the update time of the record.
RestoreRecord ==
  /\ ~serving /\ record > 0 /\ calls = {}
  /\ Rewrite(record)
  /\ Start(Upsert(auth'))
  /\ record' = 0
  /\ UNCHANGED <<serving, epochs, scheduler>>

Serve ==
  /\ ~serving /\ record = 0 /\ calls = {}
  /\ serving' = TRUE
  /\ UNCHANGED <<clock, record, auth, epochs, calls, scheduler, late>>

\* Mutant of Register: the epoch is not advanced.
RegisterSameEpoch(off) ==
  /\ serving /\ ~Locked /\ CanCall
  /\ Management \/ ~Registered(auth)
  /\ Write(clock + 1, epochs, 1, off)
  /\ Start(Call("upsert", auth', TRUE))
  /\ UNCHANGED <<serving, record, epochs, scheduler>>

\* Register: a new epoch.
Register(off) ==
  /\ serving /\ ~Locked /\ CanCall
  /\ Management \/ ~Registered(auth)
  /\ Write(clock + 1, epochs + 1, 1, off)
  /\ epochs' = epochs + 1
  /\ Start(Call("upsert", auth', TRUE))
  /\ UNCHANGED <<serving, record, scheduler>>

\* updateInternal.  In its replace mode it inserts a credential that was
\* removed since the caller looked, with the generation the caller holds.
Update(off) ==
  /\ serving /\ ~Locked /\ CanCall
  /\ Registered(auth) \/ Management
  /\ Write(clock + 1, epochs, IF Registered(auth) THEN auth.gen + 1 ELSE 0, off)
  /\ Start(Call("upsert", auth', TRUE))
  /\ UNCHANGED <<serving, record, epochs, scheduler>>

\* Forget takes no mutation lock.
Forget ==
  /\ serving /\ Registered(auth) /\ CanCall
  /\ Management \/ ~Locked
  /\ auth' = NoAuth
  /\ Start(Call("remove", NoAuth, ~Management))
  /\ UNCHANGED <<clock, serving, record, epochs, scheduler, late>>

\* MarkResult reads the clock under Manager.mu.
MarkResult ==
  /\ serving /\ Registered(auth) /\ CanCall
  /\ Rewrite(clock + 1)
  /\ Start(Upsert(auth'))
  /\ UNCHANGED <<serving, record, epochs, scheduler>>

\* ReconcileRegistryModelStates (also at startup, before the restore) and
\* ResetQuota read it before.
Reset(t) ==
  /\ serving \/ calls = {}
  /\ Registered(auth) /\ CanCall
  /\ ReadBefore(t)
  /\ Rewrite(t)
  /\ Start(Upsert(auth'))
  /\ UNCHANGED <<serving, record, epochs, scheduler>>

\* Mutant of RefreshJob: the update time is the end of the pending window.
RefreshJobStampsWindow ==
  /\ serving /\ Registered(auth)
  /\ clock < MaxClock
  /\ clock' = clock + 1
  /\ auth' = [auth EXCEPT !.gen = @ + 1, !.updated = clock + 2]
  /\ UNCHANGED <<serving, record, epochs, calls, scheduler, late>>

\* markRefreshPending and finishRefreshJob: a generation the scheduler is not
\* told of, of a credential that schedules the same.
RefreshJob ==
  /\ serving /\ Registered(auth)
  /\ clock < MaxClock
  /\ clock' = clock + 1
  /\ auth' = [epoch |-> auth.epoch, gen |-> auth.gen + 1, updated |-> clock + 1,
              rev |-> auth.rev, disabled |-> auth.disabled]
  /\ UNCHANGED <<serving, record, epochs, calls, scheduler, late>>

\* RefreshSchedulerEntry: a clone taken under the lock, unchanged.
RefreshSchedulerEntry ==
  /\ Registered(auth) /\ CanCall
  /\ serving \/ calls = {}
  /\ Start(Upsert(auth))
  /\ UNCHANGED <<clock, serving, record, auth, epochs, scheduler, late>>

\* syncScheduler after a failed pick: snapshotAuths, then rebuild.
SyncScheduler ==
  /\ serving /\ Rebuilds /\ CanCall
  /\ Start(Call("rebuild", auth, FALSE))
  /\ UNCHANGED <<clock, serving, record, auth, epochs, scheduler, late>>

-----------------------------------------------------------------------------
(* The scheduler.                                                          *)

\* Mutant of Stale: update times are not compared.
StaleByGeneration(a) ==
  \/ fence.epoch > a.epoch
  \/ fence.epoch = a.epoch /\ fence.gen > a.gen

\* isStaleScheduledAuth
Stale(a) ==
  \/ fence.epoch > a.epoch
  \/ fence.epoch = a.epoch /\ fence.gen > a.gen
  \/ fence.epoch = a.epoch /\ fence.gen = a.gen /\ fence.updated > a.updated

\* upsertAuthLocked of a clone that is not stale.
Accept(a) ==
  /\ fence' = [epoch |-> a.epoch, gen |-> a.gen, updated |-> a.updated]
  /\ entry' = IF a.disabled THEN 0 ELSE a.rev
  /\ dropped' = FALSE

UpsertAuth(c) ==
  /\ c \in calls /\ c.op = "upsert"
  /\ calls' = calls \ {c}
  /\ IF Stale(c.auth) THEN UNCHANGED scheduler ELSE Accept(c.auth)
  /\ UNCHANGED <<clock, serving, record, auth, epochs, late>>

\* Mutant of RemoveAuth: the tombstone stays in the epoch it removes.
RemoveAuthSameEpoch(c) ==
  /\ c \in calls /\ c.op = "remove"
  /\ calls' = calls \ {c}
  /\ fence' = [epoch |-> fence.epoch, gen |-> 0, updated |-> clock + 1]
  /\ entry' = 0 /\ dropped' = FALSE
  /\ UNCHANGED <<clock, serving, record, auth, epochs, late>>

\* removeAuth: a tombstone one epoch above the fence.
RemoveAuth(c) ==
  /\ c \in calls /\ c.op = "remove"
  /\ calls' = calls \ {c}
  /\ fence' = [epoch |-> fence.epoch + 1, gen |-> 0, updated |-> clock + 1]
  /\ entry' = 0 /\ dropped' = FALSE
  /\ UNCHANGED <<clock, serving, record, auth, epochs, late>>

\* Mutant of Rebuild: the fences are dropped with the entries.
RebuildDropsFence(c) ==
  /\ c \in calls /\ c.op = "rebuild"
  /\ calls' = calls \ {c}
  /\ Accept(c.auth)
  /\ UNCHANGED <<clock, serving, record, auth, epochs, late>>

\* rebuild: all entries are dropped, the fences stay.
Rebuild(c) ==
  /\ c \in calls /\ c.op = "rebuild"
  /\ calls' = calls \ {c}
  /\ IF Registered(c.auth) /\ ~Stale(c.auth) THEN Accept(c.auth)
     ELSE entry' = 0 /\ dropped' = (entry # 0 \/ dropped) /\ UNCHANGED fence
  /\ UNCHANGED <<clock, serving, record, auth, epochs, late>>

-----------------------------------------------------------------------------
Next ==
  \/ RestoreRecord
  \/ Serve
  \/ \E off \in BOOLEAN : Register(off) \/ Update(off)
  \/ Forget
  \/ MarkResult
  \/ \E t \in Time : Reset(t)
  \/ RefreshJob
  \/ RefreshSchedulerEntry
  \/ SyncScheduler
  \/ \E c \in calls : UpsertAuth(c) \/ RemoveAuth(c) \/ Rebuild(c)

Spec == Init /\ [][Next]_vars

-----------------------------------------------------------------------------
(* Properties.                                                             *)

Snapshot ==
  [epoch : Nat, gen : Nat, updated : Time, rev : Time, disabled : BOOLEAN]

CallType ==
  [op : {"upsert", "remove", "rebuild"}, auth : Snapshot, holds : BOOLEAN]

TypeOK ==
  /\ clock \in Time /\ serving \in BOOLEAN /\ record \in 0..2
  /\ auth \in Snapshot
  /\ epochs \in Nat
  /\ calls \subseteq CallType
  /\ fence \in [epoch : Nat, gen : Nat, updated : Nat]
  /\ entry \in Time /\ dropped \in BOOLEAN /\ late \in BOOLEAN

\* Every clone has arrived.
Quiet == calls = {}

\* Once every clone has arrived the scheduler schedules the credential as the
\* Manager has it, in whatever order they arrived, unless it was stamped too early or
\* a rebuild from an older snapshot dropped it (upsertAuthLocked).
ScheduledIsCurrent ==
  Quiet /\ Registered(auth) /\ ~late =>
    \/ entry = IF auth.disabled THEN 0 ELSE auth.rev
    \/ dropped /\ entry = 0

\* A credential that was removed is not scheduled by a clone that was under way
\* when it was (removeAuth's tombstone).
RemovedIsUnscheduled ==
  Quiet /\ ~Registered(auth) => entry = 0

\* Whatever the scheduler misses, it accepts when it is told again: the fence is not
\* ahead of a write stamped with its own time (RefreshSchedulerEntry, rebuild).
Repairable ==
  Quiet /\ Registered(auth) /\ ~late => ~Stale(auth)

\* What the scheduler once refused as too old stays refused: no call, not even
\* a rebuild, lowers the fence.
FenceMonotonic ==
  [][\A c \in calls : Stale(c.auth) => Stale(c.auth)']_vars
=============================================================================
