------------------------------ MODULE AuthCooldown ------------------------------
(***************************************************************************)
(* The cooldowns of one credential over time: executions are dispatched    *)
(* and report their results in any order (Manager.MarkResult), cooldowns   *)
(* run out, the administrator clears them, the registry is reconciled, and *)
(* the process restarts from its durable cooldown records.                 *)
(*                                                                         *)
(* An action is one hold of Manager.mu.  What MarkResult does to the       *)
(* scheduler and the model registry once it has released the lock belongs  *)
(* to those components; saving the cooldown records, its last call, is     *)
(* SaveRecords here.                                                       *)
(***************************************************************************)
EXTENDS AuthState

CONSTANTS
  Failures,      \* the failures that occur: see AuthState
  Targets,       \* what executions ask for: models, NoModel
  HasStore,      \* whether a CooldownStateStore is configured
  MaxTime,       \* bound: the last instant
  MaxExecution,  \* bound: executions dispatched by one process
  MaxRestart     \* bound: restarts

ASSUME AuthCooldownAssumption ==
  /\ Targets \subseteq Models \cup {NoModel}
  /\ {MaxTime, MaxExecution, MaxRestart} \subseteq Nat
  /\ HasStore \in BOOLEAN
  /\ \A r \in Failures :
       /\ r.kind \in FailureKinds
       /\ {r.hint, r.transient} \subseteq Nat
       /\ {r.scope, r.forced, r.cooling} \subseteq BOOLEAN

VARIABLES
  now,
  auth,      \* Manager.auths[id]
  issued,    \* Manager.executionSeq
  running,   \* executions that have not reported yet
  store,     \* the cooldown records in the CooldownStateStore
  unsaved,   \* MarkResult calls that have yet to save the records
  restarts,
  \* History, read by the properties only:
  failedAt,  \* value of `issued' when each target last failed
  quotaUntil \* end of the longest credential quota reported and not cleared,
             \* nor replaced by the quota of an execution without a model

vars == <<now, auth, issued, running, store, unsaved, restarts, failedAt, quotaUntil>>

NeverFailed == [m \in Models \cup {NoModel} |-> 0]

Init ==
  /\ now = 1
  /\ auth = CleanAuth
  /\ issued = 0
  /\ running = {}
  /\ store = [m \in {} |-> CleanState]
  /\ unsaved = FALSE
  /\ restarts = 0
  /\ failedAt = NeverFailed
  /\ quotaUntil = 0

Tick ==
  /\ now < MaxTime
  /\ now' = now + 1
  /\ UNCHANGED <<auth, issued, running, store, unsaved, restarts, failedAt,
                 quotaUntil>>

\* nextExecutionSeq.  A blocked model is dispatched to as well: the pick is
\* older than the dispatch, and a model pool retries on the same credential.
Dispatch(m) ==
  /\ issued < MaxExecution
  /\ issued' = issued + 1
  /\ running' = running \cup {[model |-> m, seq |-> issued + 1]}
  /\ UNCHANGED <<now, auth, store, unsaved, restarts, failedAt, quotaUntil>>

ReportSuccess(e) ==
  /\ e \in running
  /\ running' = running \ {e}
  /\ auth' = Succeed(auth, e.model, e.seq, now)
  /\ unsaved' = HasStore
  /\ UNCHANGED <<now, issued, store, restarts, failedAt, quotaUntil>>

\* Whether r opens a credential-wide window.
OpensCredentialQuota(e, r) ==
  e.model # NoModel /\ r.kind = "quota" /\ r.scope /\ CoolingOn(r)

ReportFailure(e, r) ==
  /\ e \in running
  /\ running' = running \ {e}
  /\ auth' = Fail(auth, e.model, r, now, issued)
  /\ unsaved' = HasStore
  /\ failedAt' = [m \in DOMAIN failedAt |->
                    IF m = e.model \/ OpensCredentialQuota(e, r) THEN issued
                    ELSE failedAt[m]]
  /\ quotaUntil' = CASE OpensCredentialQuota(e, r) ->
                          Later(quotaUntil, auth'.quota.recoverAt)
                     [] e.model = NoModel /\ r.kind = "quota" -> 0
                     [] OTHER -> quotaUntil
  /\ UNCHANGED <<now, issued, store, restarts>>

\* An execution is cancelled, or its failure is no fault of the credential
\* (shouldSkipCredentialCooldown): nothing is recorded.
Neutral(e) ==
  /\ e \in running
  /\ running' = running \ {e}
  /\ UNCHANGED <<now, auth, issued, store, unsaved, restarts, failedAt,
                 quotaUntil>>

\* persistCooldownStateSnapshot
SaveRecords ==
  /\ unsaved
  /\ unsaved' = FALSE
  /\ store' = Records(auth, now)
  /\ UNCHANGED <<now, auth, issued, running, restarts, failedAt, quotaUntil>>

AdminReset ==
  /\ auth' = ResetQuota(auth, now)
  /\ auth' # auth
  /\ unsaved' = HasStore
  /\ quotaUntil' = 0
  /\ UNCHANGED <<now, issued, running, store, restarts, failedAt>>

ReconcileModels(supported) ==
  /\ auth' = Reconcile(auth, supported, now)
  /\ auth' # auth
  /\ UNCHANGED <<now, issued, running, store, unsaved, restarts, failedAt,
                 quotaUntil>>

\* The process stops; the next one registers the credential afresh with the
\* models it supports now, restores the records (RestoreCooldownState) and
\* saves what it restored.
Restart(supported) ==
  /\ restarts < MaxRestart
  /\ restarts' = restarts + 1
  /\ auth' = Restore(CleanAuth, RecordsFor(store, supported), now)
  /\ store' = Records(auth', now)
  /\ unsaved' = FALSE
  /\ issued' = 0 /\ running' = {} /\ failedAt' = NeverFailed
  /\ quotaUntil' = IF HasCredentialQuota(auth') THEN auth'.quota.recoverAt ELSE 0
  /\ UNCHANGED now

Next ==
  \/ Tick
  \/ \E m \in Targets : Dispatch(m)
  \/ \E e \in running :
       ReportSuccess(e) \/ Neutral(e) \/ \E r \in Failures : ReportFailure(e, r)
  \/ SaveRecords
  \/ AdminReset
  \/ \E supported \in SUBSET Models : ReconcileModels(supported)
  \/ \E supported \in SUBSET Models : Restart(supported)

Spec == Init /\ [][Next]_vars

-----------------------------------------------------------------------------
(* Properties.                                                             *)

\* A success of an execution dispatched before the latest failure of a model
\* says nothing about its recovery: it lifts no cooldown of that model that is
\* still running (MarkResult, cooldownRecordedSeq).
StaleSuccessHarmless ==
  [][\A e \in running :
       ReportSuccess(e) =>
         \A m \in {k \in Known(auth) : Cooling(auth.models[k], now)} :
           e.seq <= failedAt[m] => Blocked(auth, m, now)']_vars

\* While cooling is on, "a later failure only extends a still-live cooldown":
\* of its model, of the models a credential quota propagates to, and of the
\* credential if it has no model (MarkResult, applyAuthFailureState).  The exception is
\* a failure that sets no deadline: it may drop that of its own model, never one of
\* another model, and that of the credential only if it is a transient one.
FailureNeverShortens ==
  [][\A e \in running, r \in Failures :
       CoolingOn(r) /\ ReportFailure(e, r) =>
         /\ \A m \in Known(auth) :
              Cooling(auth.models[m], now) =>
                \/ auth'.models[m].retryAt >= auth.models[m].retryAt
                \/ m = e.model /\ ~SetsDeadline(r)
         /\ e.model = NoModel /\ Cooling(auth, now) =>
              \/ auth'.retryAt >= auth.retryAt
              \/ r.kind = "transient" /\ ~SetsDeadline(r)]_vars

\* A failure "that must enforce credential cooldown even when disable-cooling is
\* configured" takes the model of its execution out of rotation, whatever its status,
\* the policy and the cooldowns before it (MarkResult).
ForcedCoolsDown ==
  [][\A e \in running, r \in Failures :
       r.forced /\ e.model # NoModel /\ ReportFailure(e, r) =>
         Blocked(auth, e.model, now)']_vars

\* A live credential-wide quota keeps every model blocked, with or without
\* a state of its own, through other results, aggregation and reconciliation.
CredentialQuotaHolds ==
  now < quotaUntil => \A m \in Models : Blocked(auth, m, now)

\* Backoff escalates at most once per active window, for a model and for the
\* credential (quotaCooldownAfterFailure).  While cooling is off, a failure of the
\* whole credential may give its model the level of the credential, and no other.
BackoffOncePerWindow ==
  [][\A e \in running, r \in Failures :
       ReportFailure(e, r) /\ e.model # NoModel /\ r.kind = "quota" =>
         IF r.scope /\ CoolingOn(r)
         THEN CredentialQuotaLive(auth, now) =>
                auth'.quota.level <= auth.quota.level
         ELSE LET q == StateOf(auth, e.model).quota IN
              q.recoverAt > now =>
                auth'.models[e.model].quota.level <=
                  IF r.scope THEN Later(q.level, auth.quota.level) ELSE q.level
    ]_vars

\* After a restart every saved cooldown that has not run out is enforced, for
\* the credential and for the models it still supports, whatever the order
\* in which records are applied and aggregated (RestoreCooldownState).
RestartKeepsCooldowns ==
  [][\A supported \in SUBSET Models :
       Restart(supported) =>
         LET kept == RecordsFor(store, supported) IN
         \A m \in DOMAIN kept :
           kept[m].retryAt > now => Blocked(auth, m, now)']_vars
=============================================================================
