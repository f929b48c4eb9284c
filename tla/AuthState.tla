------------------------------- MODULE AuthState -------------------------------
(***************************************************************************)
(* The availability of one credential (sdk/cliproxy/auth, type Auth): the  *)
(* cooldown of each model, of the credential as a whole, and the functions *)
(* of conductor.go and selector.go that advance and read them.             *)
(*                                                                         *)
(* Time is a natural number; 0 is the zero time of Go, so that "a deadline *)
(* is set" is deadline # 0 and "is live" is deadline > now.  Error texts   *)
(* are reduced to what routing reads of them: whether there is an error    *)
(* and whether it is a 401.  The credential has no refresh scheduled       *)
(* (NextRefreshAfter is zero), an unexpired token and is not disabled.     *)
(***************************************************************************)
EXTENDS Integers, FiniteSets, FiniteSetsExt

CONSTANTS
  Models,         \* canonical model keys, as numbers in their sorting order
  LongCooldown,   \* the 30 minutes or 12 hours of 401, 402, 403 and 404
  ForcedCooldown, \* the minute that force_cooldown enforces
  QuotaFloor,     \* minQuotaCooldownFloor
  QuotaBase,      \* quotaBackoffBase
  QuotaMax        \* quotaBackoffMax

ASSUME CooldownAssumption ==
  /\ Models \subseteq Nat \ {0} /\ IsFiniteSet(Models)
  /\ {LongCooldown, ForcedCooldown, QuotaFloor, QuotaBase, QuotaMax}
       \subseteq Nat \ {0}

NoModel == 0    \* the result of an execution without a model
Later(s, t) == IF s > t THEN s ELSE t

NoQuota == [exceeded |-> FALSE, reason |-> "", recoverAt |-> 0, level |-> 0]

\* ModelState: status is Active unless `error'; seq is cooldownRecordedSeq.
CleanState == [unavailable |-> FALSE, error |-> FALSE, lastError |-> "none",
               retryAt |-> 0, quota |-> NoQuota, seq |-> 0]

\* Auth: the same fields for the whole credential, and ModelStates.
CleanAuth == [unavailable |-> FALSE, error |-> FALSE, lastError |-> "none",
              retryAt |-> 0, quota |-> NoQuota, seq |-> 0,
              models |-> [m \in {} |-> CleanState]]

Known(a) == DOMAIN a.models
StateOf(a, m) == IF m \in Known(a) THEN a.models[m] ELSE CleanState
WithState(a, m, s) ==
  [a EXCEPT !.models = [k \in Known(a) \cup {m} |-> IF k = m THEN s ELSE @[k]]]

QuotaLive(q, now) == q.recoverAt > now \/ (q.exceeded /\ q.recoverAt = 0)

\* isModelStateActiveCooldown, isAuthActiveCooldown
ActiveCooldown(s, now) == s.retryAt > now \/ QuotaLive(s.quota, now)

HasCredentialQuota(a) ==
  a.quota.exceeded /\ a.quota.reason = "credential_quota"
CredentialQuotaLive(a, now) == HasCredentialQuota(a) /\ a.quota.recoverAt > now

-----------------------------------------------------------------------------
(* Aggregation.                                                            *)

\* updateAggregatedAvailability on a model that is marked unavailable: an
\* expired deadline is dropped.
Lapse(s, now) ==
  IF s.unavailable /\ s.retryAt # 0 /\ s.retryAt <= now
  THEN [s EXCEPT !.unavailable = FALSE, !.retryAt = 0] ELSE s

Cooling(s, now) == s.unavailable /\ s.retryAt > now

EarliestOf(T) == IF T = {} THEN 0 ELSE Min(T)

AggregatedQuota(q, states, now) ==
  LET over == {s \in states : s.quota.exceeded}
      recover == EarliestOf({s.quota.recoverAt : s \in over} \ {0})
  IN  CASE over # {} ->
             [exceeded |-> TRUE, reason |-> "quota",
              recoverAt |-> Later(q.recoverAt, recover),
              level |-> Max({s.quota.level : s \in over})]
        [] over = {} /\ q.exceeded /\ q.recoverAt > now -> q
        [] OTHER -> NoQuota

\* Mutant of Aggregate: a live credential quota is aggregated like any other.
AggregateModels(a, now) ==
  IF Known(a) = {}
  THEN [a EXCEPT !.unavailable = FALSE, !.retryAt = 0, !.quota = NoQuota]
  ELSE LET states == {a.models[m] : m \in Known(a)}
           all == \A s \in states : Cooling(s, now)
       IN  [a EXCEPT
              !.models = [m \in Known(a) |-> Lapse(@[m], now)],
              !.unavailable = all,
              !.retryAt = IF all THEN Min({s.retryAt : s \in states}) ELSE 0,
              !.quota = AggregatedQuota(@, states, now)]

Aggregate(a, now) ==
  IF CredentialQuotaLive(a, now) THEN [a EXCEPT !.unavailable = TRUE]
  ELSE IF Known(a) = {}
  THEN [a EXCEPT !.unavailable = FALSE, !.retryAt = 0, !.quota = NoQuota]
  ELSE LET states == {a.models[m] : m \in Known(a)}
           all == \A s \in states : Cooling(s, now)
       IN  [a EXCEPT
              !.models = [m \in Known(a) |-> Lapse(@[m], now)],
              !.unavailable = all,
              !.retryAt = IF all THEN Min({s.retryAt : s \in states}) ELSE 0,
              !.quota = AggregatedQuota(@, states, now)]

HasModelError(a, now) ==
  \E m \in Known(a) :
    LET s == a.models[m] IN
    \/ s.lastError # "none"
    \/ s.error /\ s.unavailable /\ (s.retryAt = 0 \/ s.retryAt > now)

ClearStatusUnlessError(a, now) ==
  IF HasModelError(a, now) THEN a
  ELSE [a EXCEPT !.lastError = "none", !.error = FALSE]

-----------------------------------------------------------------------------
(* Results.  A failure r has a kind, the Retry-After hint (0 is none), the *)
(* credential scope, the force_cooldown code, and the configuration that   *)
(* MarkResult finds: whether cooling is on, and the transient cooldown     *)
(* (0: disabled by a negative transient-error-cooldown-seconds).           *)

FailureKinds == {"missing", "unauthorized", "denied", "quota", "transient", "other"}

CoolingOn(r) == r.cooling \/ r.forced
HintOr(r, d) == IF r.hint > 0 THEN r.hint ELSE d
ErrorOf(r) == IF r.kind = "unauthorized" THEN "unauthorized" ELSE "other"

\* quotaBackoffBase << level
Backoff[level \in Nat] ==
  IF level = 0 THEN QuotaBase ELSE 2 * Backoff[level - 1]

\* Mutant of QuotaWindow: a window that is still open escalates too.
QuotaWindowAnew(q, now) ==
  LET cooldown == Backoff[q.level] IN
  IF cooldown >= QuotaMax THEN [until |-> now + QuotaMax, level |-> q.level]
  ELSE [until |-> now + cooldown, level |-> q.level + 1]

\* nextQuotaCooldown, quotaCooldownAfterFailure with cooling on
QuotaWindow(q, now) ==
  LET cooldown == Backoff[q.level] IN
  CASE q.recoverAt > now -> [until |-> q.recoverAt, level |-> q.level]
    [] q.recoverAt <= now /\ cooldown >= QuotaMax ->
         [until |-> now + QuotaMax, level |-> q.level]
    [] OTHER -> [until |-> now + cooldown, level |-> q.level + 1]

\* The window a 429 opens, from the quota state q it is counted against.
WindowAfter(q, r, now) ==
  CASE ~CoolingOn(r) -> [until |-> 0, level |-> q.level]
    [] CoolingOn(r) /\ r.hint > 0 ->
         [until |-> now + Later(r.hint, QuotaFloor), level |-> q.level]
    [] OTHER -> QuotaWindow(q, now)

\* The deadline of a failure other than a 429.
DeadlineOf(r, now) ==
  CASE ~CoolingOn(r) -> 0
    [] CoolingOn(r) /\ r.kind = "missing" -> now + HintOr(r, LongCooldown)
    [] CoolingOn(r) /\ r.kind \in {"unauthorized", "denied"} -> now + LongCooldown
    [] CoolingOn(r) /\ r.kind = "transient" /\ r.transient > 0 ->
         now + HintOr(r, r.transient)
    [] OTHER -> 0

\* Whether r sets a deadline while cooling is on.  A status that is not listed (400,
\* 405 or none) sets none unless the cooldown is forced, and a transient one sets
\* none while transient cooldowns are switched off.
SetsDeadline(r) ==
  /\ r.kind = "other" => r.forced
  /\ r.kind = "transient" => r.transient > 0

\* Mutant of Extend: the later failure decides.
ExtendNever(prev, next, now) == next

\* "A later failure only extends a still-live cooldown".
Extend(prev, next, now) ==
  IF next # 0 /\ prev > next /\ prev > now THEN prev ELSE next

\* Mutant of Enforced: cooling that is switched off stays off.
EnforcedUnlessOff(r, next, now) ==
  IF r.forced /\ r.cooling /\ next = 0 THEN now + ForcedCooldown ELSE next

Enforced(r, next, now) ==
  IF r.forced /\ next = 0 THEN now + ForcedCooldown ELSE next

\* The quota state that a 429 on the model with state s counts against.
CountedQuota(a, s, r) ==
  CASE ~r.scope -> s.quota
    [] r.scope /\ HasCredentialQuota(a) -> a.quota
    [] OTHER -> [s.quota EXCEPT !.recoverAt = 0, !.level = 0]

\* The deadline of quota q moved to `until' unless it is later already.
KeepLater(q, until) ==
  IF q.exceeded THEN Later(q.recoverAt, until) ELSE until

\* A credential-scoped 429 seen from another model of the credential.
Propagate(o, w, seq) ==
  LET until == KeepLater(o.quota, w.until) IN
  [o EXCEPT !.unavailable = TRUE, !.error = TRUE,
            !.retryAt = Later(@, until),
            !.quota = [exceeded |-> TRUE, reason |-> "credential_quota",
                       recoverAt |-> until, level |-> w.level],
            !.seq = seq]

\* ... and from the credential as a whole.
PropagateToAuth(a, m, w, seq) ==
  LET until == IF HasCredentialQuota(a) THEN KeepLater(a.quota, w.until)
               ELSE w.until
  IN  [a EXCEPT
         !.models = [k \in Known(a) |->
                       IF k = m THEN @[k] ELSE Propagate(@[k], w, seq)],
         !.unavailable = TRUE,
         !.retryAt = until,
         !.quota = [exceeded |-> TRUE, reason |-> "credential_quota",
                    recoverAt |-> until, level |-> w.level],
         !.seq = seq]

\* MarkResult of a failure with a model, up to the persisting.
FailModel(a, m, r, now, seq) ==
  LET s == StateOf(a, m)
      quota == r.kind = "quota"
      w == WindowAfter(CountedQuota(a, s, r), r, now)
      until == IF CoolingOn(r) THEN KeepLater(s.quota, w.until) ELSE w.until
      next == IF quota THEN until ELSE DeadlineOf(r, now)
      failed == [unavailable |-> TRUE, error |-> TRUE, lastError |-> ErrorOf(r),
                 retryAt |-> Extend(s.retryAt, Enforced(r, next, now), now),
                 quota |-> IF quota
                           THEN [exceeded |-> TRUE, reason |-> "quota",
                                 recoverAt |-> until, level |-> w.level]
                           ELSE s.quota,
                 seq |-> seq]
      b == WithState(a, m, failed)
      c == IF quota /\ r.scope /\ CoolingOn(r) THEN PropagateToAuth(b, m, w, seq)
           ELSE b
  IN  Aggregate([c EXCEPT !.error = TRUE, !.lastError = ErrorOf(r)], now)

\* applyAuthFailureState, and the watermark MarkResult records after it.
FailAuth(a, r, now, seq) ==
  LET w == WindowAfter(a.quota, r, now)
      until == IF CoolingOn(r) THEN Later(a.quota.recoverAt, w.until) ELSE 0
      next == CASE r.kind = "quota" -> until
                [] r.kind = "other" -> a.retryAt
                [] OTHER -> DeadlineOf(r, now)
  IN  [a EXCEPT
         !.unavailable = ~(r.kind = "transient" /\ next = 0),
         !.error = TRUE,
         !.lastError = ErrorOf(r),
         !.retryAt = Enforced(r, Extend(@, next, now), now),
         !.quota = IF r.kind = "quota"
                   THEN [exceeded |-> TRUE, reason |-> "quota",
                         recoverAt |-> until, level |-> w.level]
                   ELSE @,
         !.seq = seq]

Fail(a, m, r, now, seq) ==
  IF m = NoModel THEN FailAuth(a, r, now, seq) ELSE FailModel(a, m, r, now, seq)

\* Mutant of Predates: the watermark itself does not predate.
PredatesStrictly(s, dispatched, now) ==
  ActiveCooldown(s, now) /\ s.seq > 0 /\ dispatched > 0 /\ dispatched < s.seq

\* retainModelCooldown: the success of an execution dispatched before the
\* live cooldown was recorded.
Predates(s, dispatched, now) ==
  ActiveCooldown(s, now) /\ s.seq > 0 /\ dispatched > 0 /\ dispatched <= s.seq

\* MarkResult of a success.
Succeed(a, m, dispatched, now) ==
  CASE CredentialQuotaLive(a, now) -> a
    [] ~CredentialQuotaLive(a, now) /\ m = NoModel ->
         IF Predates(a, dispatched, now) THEN a
         ELSE [CleanAuth EXCEPT !.models = a.models]
    [] OTHER ->
         IF m \in Known(a) /\ Predates(a.models[m], dispatched, now) THEN a
         ELSE ClearStatusUnlessError(
                Aggregate(WithState(a, m, CleanState), now), now)

-----------------------------------------------------------------------------
(* The other writers.                                                      *)

ResetAll(a) == [a EXCEPT !.models = [m \in Known(a) |-> CleanState]]

\* ResetQuota, the administrator's clear.
ResetQuota(a, now) ==
  ClearStatusUnlessError(
    Aggregate([ResetAll(a) EXCEPT !.quota = NoQuota], now), now)

\* ReconcileRegistryModelStates after the registry registered `supported'.
Reconcile(a, supported, now) ==
  LET kept == [m \in Known(a) \cap supported |-> CleanState] IN
  IF kept = a.models THEN a
  ELSE ClearStatusUnlessError(Aggregate([a EXCEPT !.models = kept], now), now)

\* cooldownStateSnapshot of this credential: the record of the credential,
\* under NoModel, and those of its models.
Records(a, now) ==
  LET whole == [CleanState EXCEPT !.unavailable = TRUE, !.error = a.error,
                  !.lastError = a.lastError, !.retryAt = a.retryAt,
                  !.quota = a.quota]
      saved == {m \in Known(a) : Cooling(a.models[m], now)}
  IN  [m \in saved \cup (IF Cooling(a, now) THEN {NoModel} ELSE {}) |->
         IF m = NoModel THEN whole ELSE [a.models[m] EXCEPT !.seq = 0]]

\* cooldownRecordModelSupported: with nothing registered, every model is.
RecordsFor(records, supported) ==
  [m \in {k \in DOMAIN records :
            k = NoModel \/ supported = {} \/ k \in supported} |-> records[m]]

\* Mutant of Apply: a restored model is not marked unavailable.
ApplyAvailable(a, m, rec, now) ==
  IF m = NoModel
  THEN [a EXCEPT !.unavailable = TRUE, !.error = rec.error,
                 !.lastError = rec.lastError, !.retryAt = rec.retryAt,
                 !.quota = rec.quota]
  ELSE LET b == WithState(a, m, [rec EXCEPT !.seq = StateOf(a, m).seq,
                                            !.unavailable = FALSE]) IN
       Aggregate([b EXCEPT !.error = TRUE], now)

\* One record of applyCooldownStateRecords.
Apply(a, m, rec, now) ==
  IF m = NoModel
  THEN [a EXCEPT !.unavailable = TRUE, !.error = rec.error,
                 !.lastError = rec.lastError, !.retryAt = rec.retryAt,
                 !.quota = rec.quota]
  ELSE LET b == WithState(a, m, [rec EXCEPT !.seq = StateOf(a, m).seq]) IN
       Aggregate([b EXCEPT !.error = TRUE,
                           !.lastError = IF rec.lastError = "none" THEN @
                                         ELSE rec.lastError], now)

\* RestoreCooldownState: the records that have not expired, sorted by model.
Restore(a, records, now) ==
  LET live == {m \in DOMAIN records : records[m].retryAt > now}
      Restored[S \in SUBSET live] ==
        IF S = {} THEN a
        ELSE LET m == Max(S) IN Apply(Restored[S \ {m}], m, records[m], now)
  IN  Restored[live]

-----------------------------------------------------------------------------
(* The readers.                                                            *)

\* hasUnauthorizedAuthFailure
Unauthorized(a) == a.unavailable /\ a.error /\ a.lastError = "unauthorized"

\* isAuthBlockedForModel, with and without a model.
Blocked(a, m, now) ==
  \/ Unauthorized(a)
  \/ CredentialQuotaLive(a, now)
  \/ IF m = NoModel THEN Cooling(a, now)
     ELSE m \in Known(a) /\ Cooling(a.models[m], now)
=============================================================================
