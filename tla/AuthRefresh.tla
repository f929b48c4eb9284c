------------------------------ MODULE AuthRefresh ------------------------------
(***************************************************************************)
(* The automatic refresh of one credential (auto_refresh_loop.go and the   *)
(* refresh functions of conductor.go in sdk/cliproxy/auth).                *)
(*                                                                         *)
(* A dispatcher (authAutoRefreshLoop.loop) keeps the time of the next look *)
(* at the credential, marks it as pending and queues a job; a worker       *)
(* refreshes it.  Requests that met a 401 refresh it themselves.  A        *)
(* refresh reads the credential, calls the provider with no lock held but  *)
(* the refresh lock of the id, and merges its outcome into whatever edits, *)
(* results and registrations have made of the credential meanwhile.        *)
(* Loops may be stopped and replaced.                                      *)
(*                                                                         *)
(* An action is one hold of Manager.mu, and the call of queueReschedule,   *)
(* drainDirty, popDue or upsert next to it: only the dispatcher reads what *)
(* these leave, and what it misses is marked as dirty for its next round.  *)
(* A call of remove, which takes the mark too, is an action of its own.  A *)
(* provider rotates its token with every refresh.  Times are naturals, 0   *)
(* is Go's zero time.                                                      *)
(***************************************************************************)
EXTENDS Naturals, FiniteSets

CONSTANTS
  Callers,     \* requests that refresh the credential, not numbers
  Failures,    \* what results report: "quota" and "unauthorized"
  Errors,      \* what a refresh may fail with: "unauthorized", "grant", "other"
  Lead,        \* how long before it expires a token is refreshed
  Life,        \* how long a token lives
  Pending,     \* refreshPendingBackoff
  Backoff,     \* refreshFailureBackoff, and that of an invalid grant
  Ineffective, \* refreshIneffectiveBackoff
  Interval,    \* the loop's interval
  Cooldown,    \* of a failed execution
  MaxClock, MaxLoop, MaxEpoch, MaxToken,  \* bounds, and one on how often something
  MaxEvents    \* happens beside the loop: callers, edits, results, removals, stops

ASSUME AuthRefreshAssumption ==
  /\ Failures \subseteq {"quota", "unauthorized"}
  /\ Errors \subseteq {"unauthorized", "grant", "other"}
  /\ {Lead, Life, Pending, Backoff, Ineffective, Interval, Cooldown} \subseteq Nat \ {0}
  /\ {MaxClock, MaxToken, MaxEvents} \subseteq Nat
  /\ {MaxLoop, MaxEpoch} \subseteq Nat \ {0}
  /\ Callers \cap (0..MaxLoop) = {}

Loop == 1..MaxLoop
\* Each loop has one worker.
Refresher == Loop \cup Callers

VARIABLES
  clock,
  auth,     \* Manager.auths[id]
  epochs,   \* Manager.authEpochs[id]
  pending,  \* Manager.refreshJobs[id], and whether it is running
  active,   \* Manager.refreshLoop, 0 for nil
  ended,    \* the loops whose context is cancelled
  loops,    \* the dispatchers
  refreshers, \* the workers of the loops, and the callers
  holder,   \* who holds the refresh lock of the id, 0 if nobody
  editor,   \* what a management handler read, between GetByID and Update
  events,   \* what has happened beside the loop
  \* History, read by the provider and by the properties:
  newest,   \* the newest token of each registration
  edited,   \* the last edit
  quota,    \* until when the last failure has taken the credential's quota
  putBack,  \* whether an edit has put an older token back
  revived   \* whether it can be refreshed again since the loop saw that it
            \* cannot, and the loop has not put it back

history == <<newest, edited, quota, putBack>>
machine == <<pending, active, ended, loops, refreshers, holder>>
vars == <<clock, auth, epochs, machine, editor, events, history, revived>>

NoAuth == [epoch |-> 0, token |-> 0, expires |-> 0, after |-> 0, off |-> FALSE,
           err |-> "none", blocked |-> FALSE, retry |-> 0,
           limit |-> 0, edit |-> 0]
Present(a) == a.epoch > 0

NoJob == [epoch |-> 0, until |-> 0, loop |-> 0]

\* hasUnauthorizedAuthFailure, hasDisabledInvalidGrantFailure
Terminal(a) ==
  \/ a.err = "unauthorized" /\ a.blocked /\ ~a.off /\ a.after = 0
  \/ a.err = "grant" /\ a.off
Refreshable(a) == Present(a) /\ ~Terminal(a)

Latest(x, y) == IF x > y THEN x ELSE y
Earliest(x, y) == IF x < y THEN x ELSE y

Due(a) == a.expires - Lead
\* nextRefreshCheckAt and shouldRefresh of a credential that can be refreshed
NextCheck(a, now) == IF now < a.after THEN a.after ELSE Latest(now, Due(a))
ShouldRefresh(a, now) == a.after <= now /\ Due(a) <= now

Happens == events < MaxEvents /\ events' = events + 1

\* A write of the credential.
Write(a) ==
  /\ auth' = a
  /\ revived' = (revived \/ (Refreshable(a) /\ ~Refreshable(auth)))

-----------------------------------------------------------------------------
(* Loops, seen from the Manager.                                           *)

IdleLoop == [pc |-> "off", now |-> 0, next |-> 0, dirty |-> FALSE, wake |-> FALSE,
             jobs |-> NoJob, hand |-> NoJob, then |-> "wait"]
IdleRefresher == [pc |-> "idle", job |-> NoJob, base |-> NoAuth, failed |-> 0,
                  got |-> NoAuth]

\* queueRefreshReschedule: dirty, and a token in wakeCh, if a loop is active.
Marked(ls) == IF active = 0 THEN ls
              ELSE [ls EXCEPT ![active].dirty = TRUE, ![active].wake = TRUE]
Tell == loops' = Marked(loops)

\* remove of the loop l: the mark goes too.
Removed(ls, l) == [ls EXCEPT ![l].next = 0, ![l].dirty = FALSE]
TakenOut(l) == revived' = (revived \/ (l = active /\ Refreshable(auth)))

StopAutoRefresh ==
  /\ active # 0 /\ Happens
  /\ active' = 0 /\ ended' = ended \cup {active}
  /\ UNCHANGED <<clock, auth, epochs, pending, loops, refreshers, holder, editor,
                 history, revived>>

StartAutoRefresh ==
  \E l \in Loop :
    /\ active = 0 /\ ended = 1..(l - 1)
    /\ active' = l
    /\ loops' = [loops EXCEPT ![l].pc = "rebuild"]
    /\ UNCHANGED <<clock, auth, epochs, pending, ended, refreshers, holder, editor,
                   events, history, revived>>

\* finishRefreshJob: only the job's own marker is cleared.  ls are the dispatchers as
\* the caller leaves them.
FinishRefreshJob(job, retryAt, ls) ==
  IF pending.job # job THEN loops' = ls /\ UNCHANGED <<pending, auth, revived>>
  ELSE /\ pending' = [job |-> NoJob, running |-> FALSE]
       /\ IF auth.epoch = job.epoch /\ auth.after = job.until
          THEN Write([auth EXCEPT !.after = retryAt])
          ELSE UNCHANGED <<auth, revived>>
       /\ loops' = Marked(ls)

-----------------------------------------------------------------------------
(* The dispatcher of loop l.                                               *)

At(l, pc) == loops[l].pc = pc
Goto(l, pc) == loops' = [loops EXCEPT ![l].pc = pc]
OnlyLoops ==
  UNCHANGED <<clock, auth, epochs, pending, active, ended, refreshers, holder, editor,
              events, history>>

\* The end of a round over the queue or over the marks.
Back(ls, l) ==
  [ls EXCEPT ![l].pc = ls[l].then, ![l].now = IF ls[l].then = "wait" THEN 0 ELSE @,
             ![l].hand = NoJob, ![l].then = "wait"]

Upserted(ls, l, at) == [Back(ls, l) EXCEPT ![l].next = at]

\* What a look at the credential leads to: upsert, or remove.
Decide(ls, l, at) ==
  IF Refreshable(auth)
  THEN /\ loops' = Upserted(ls, l, at)
       /\ revived' = (revived /\ l # active)
  ELSE loops' = [ls EXCEPT ![l].pc = "remove"] /\ UNCHANGED revived

Rebuild(l) ==
  /\ At(l, "rebuild")
  /\ loops' = [loops EXCEPT ![l].pc = "wait",
                 ![l].next = IF Refreshable(auth) THEN NextCheck(auth, clock) ELSE 0]
  /\ revived' = (revived /\ ~(l = active /\ Refreshable(auth)))
  /\ OnlyLoops

\* Mutant of ApplyDirty: a round over the queue drains the marks, and looks at the
\* credential only if a token is there too.
ApplyDirtyOnWake(l) ==
  LET woken == At(l, "wait") /\ loops[l].wake
      ls == [loops EXCEPT ![l].dirty = FALSE, ![l].wake = ~woken /\ @]
  IN /\ woken \/ At(l, "drain")
     /\ IF loops[l].dirty /\ woken THEN Decide(ls, l, NextCheck(auth, clock))
        ELSE loops' = Back(ls, l) /\ UNCHANGED revived
     /\ OnlyLoops

\* drainDirty and applyDirty, for the credential: at the end of a round over the
\* queue, or after a token in wakeCh.
ApplyDirty(l) ==
  LET woken == At(l, "wait") /\ loops[l].wake
      now == IF woken THEN clock ELSE loops[l].now
      ls == [loops EXCEPT ![l].dirty = FALSE, ![l].wake = ~woken /\ @]
  IN /\ woken \/ At(l, "drain")
     /\ IF loops[l].dirty THEN Decide(ls, l, NextCheck(auth, now))
        ELSE loops' = Back(ls, l) /\ UNCHANGED revived
     /\ OnlyLoops

\* The timer, popDue, and the first look of handleDueAuth.
HandleDueAuth(l) ==
  LET ls == [loops EXCEPT ![l].next = 0, ![l].now = clock, ![l].then = "drain"]
  IN /\ At(l, "wait") /\ loops[l].next \in 1..clock
     /\ CASE ~Present(auth) -> loops' = Back(ls, l) /\ UNCHANGED revived
          [] Refreshable(auth) /\ ShouldRefresh(auth, clock) ->
               /\ loops' = [ls EXCEPT ![l].pc = "mark", ![l].hand =
                              [epoch |-> auth.epoch, until |-> clock + Pending, loop |-> l]]
               /\ UNCHANGED revived
          [] OTHER -> Decide(ls, l, NextCheck(auth, clock))
     /\ OnlyLoops

\* markRefreshPending
MarkRefreshPending(l) ==
  LET job == loops[l].hand
  IN /\ At(l, "mark")
     /\ IF /\ auth.epoch = job.epoch /\ Refreshable(auth)
           /\ pending.job = NoJob /\ auth.after <= loops[l].now
        THEN /\ pending' = [job |-> job, running |-> FALSE]
             /\ Write([auth EXCEPT !.after = job.until])
             /\ loops' = [Marked(loops) EXCEPT ![l].pc = "send"]
        ELSE Goto(l, "again") /\ UNCHANGED <<pending, auth, revived>>
     /\ UNCHANGED <<clock, epochs, active, ended, refreshers, holder, editor, events, history>>

\* The second look, after markRefreshPending has refused.
LookAgain(l) ==
  LET now == loops[l].now
      next == NextCheck(auth, now)
  IN /\ At(l, "again")
     /\ Decide(loops, l, IF next > now THEN next ELSE now + Interval)
     /\ OnlyLoops

\* The queue takes the job ...
SendJob(l) ==
  /\ At(l, "send") /\ l \notin ended
  /\ loops' = [loops EXCEPT ![l].pc = "drain", ![l].jobs = loops[l].hand, ![l].hand = NoJob,
                            ![l].then = "wait"]
  /\ OnlyLoops /\ UNCHANGED revived

\* Mutant of GiveBackJob: the job stays in refreshJobs.
GiveBackJobKept(l) ==
  /\ At(l, "send")
  /\ loops' = Upserted(loops, l, loops[l].now + Interval)
  /\ revived' = (revived /\ l # active)
  /\ OnlyLoops

\* ... unless it is full, with jobs of other credentials, or the loop is stopped.
GiveBackJob(l) ==
  LET retryAt == loops[l].now + Interval
  IN /\ At(l, "send")
     /\ FinishRefreshJob(loops[l].hand, retryAt, Upserted(loops, l, retryAt))
     /\ UNCHANGED <<clock, epochs, active, ended, refreshers, holder, editor, events, history>>

Remove(l) ==
  /\ At(l, "remove")
  /\ loops' = Back(Removed(loops, l), l)
  /\ TakenOut(l)
  /\ OnlyLoops

\* The end of run: releaseQueuedJobs picks the job, and gives it back if it still
\* does not run.
LoopEnds(l) ==
  /\ At(l, "wait") /\ l \in ended
  /\ IF pending.job.loop = l /\ ~pending.running
     THEN loops' = [loops EXCEPT ![l].pc = "release", ![l].hand = pending.job]
     ELSE Goto(l, "end")
  /\ OnlyLoops /\ UNCHANGED revived

ReleaseQueuedJob(l) ==
  LET job == loops[l].hand
      ls == [loops EXCEPT ![l].pc = "end", ![l].hand = NoJob]
  IN /\ At(l, "release")
     /\ IF pending.job = job /\ pending.running
        THEN loops' = ls /\ UNCHANGED <<pending, auth, revived>>
        ELSE FinishRefreshJob(job, 0, ls)
     /\ UNCHANGED <<clock, epochs, active, ended, refreshers, holder, editor, events, history>>

Dispatcher(l) ==
  \/ Rebuild(l) \/ ApplyDirty(l) \/ HandleDueAuth(l)
  \/ MarkRefreshPending(l) \/ LookAgain(l) \/ SendJob(l) \/ GiveBackJob(l)
  \/ Remove(l) \/ LoopEnds(l) \/ ReleaseQueuedJob(l)

-----------------------------------------------------------------------------
(* A refresh: of worker l with a job, or of a caller.                      *)

In(r, pc) == refreshers[r].pc = pc
Go(r, pc) == refreshers' = [refreshers EXCEPT ![r].pc = pc]
\* What follows a refresh: a worker finishes its job, a caller returns.
After(r) == IF r \in Callers THEN "done" ELSE "finish"
\* The refresh returns, and the refresh lock is released.
Return(r) ==
  /\ refreshers' = [refreshers EXCEPT ![r] = [IdleRefresher EXCEPT !.pc = After(r),
                                                                 !.job = refreshers[r].job]]
  /\ holder' = 0
OnlyRefresher ==
  UNCHANGED <<clock, epochs, active, ended, editor>>

WorkerTakes(l) ==
  /\ In(l, "idle") /\ loops[l].jobs # NoJob
  /\ refreshers' = [refreshers EXCEPT ![l].pc = "begin", ![l].job = loops[l].jobs]
  /\ loops' = [loops EXCEPT ![l].jobs = NoJob]
  /\ OnlyRefresher /\ UNCHANGED <<events, auth, pending, holder, history, revived>>

\* A worker that sees the end of its loop before the job.
WorkerExits(l) ==
  /\ In(l, "idle") /\ l \in ended
  /\ Go(l, "done")
  /\ OnlyRefresher /\ UNCHANGED <<events, auth, pending, loops, holder, history, revived>>

BeginRefreshJob(l) ==
  LET job == refreshers[l].job
  IN /\ In(l, "begin")
     /\ IF l \notin ended /\ pending.job = job /\ auth.epoch = job.epoch
        THEN pending' = [pending EXCEPT !.running = TRUE] /\ Go(l, "lock")
        ELSE Go(l, "finish") /\ UNCHANGED pending
     /\ OnlyRefresher /\ UNCHANGED <<events, auth, loops, holder, history, revived>>

\* tryRefreshAfterUnauthorized with the token that failed, ForceRefreshAuth with 0.
CallerStarts(c) ==
  /\ In(c, "idle") /\ Present(auth) /\ Happens
  /\ \E failed \in {0, auth.token} :
       refreshers' = [refreshers EXCEPT ![c].pc = "lock", ![c].failed = failed]
  /\ OnlyRefresher /\ UNCHANGED <<auth, pending, loops, holder, history, revived>>

\* refreshAuthForRequestAtEpoch, up to the call of the provider.
ReadForRefresh(r) ==
  LET s == refreshers[r]
  IN /\ In(r, "lock") /\ holder = 0
     /\ IF \/ ~Present(auth) \/ (auth.err = "grant" /\ auth.off)
           \/ s.job # NoJob /\ auth.epoch # s.job.epoch
           \/ s.failed # 0 /\ auth.token # s.failed
        THEN Return(r)
        ELSE /\ refreshers' = [refreshers EXCEPT ![r].pc = "call", ![r].base = auth]
             /\ holder' = r
     /\ OnlyRefresher /\ UNCHANGED <<events, auth, pending, loops, history, revived>>

\* The provider accepts the newest token of a registration only, and rotates it.
\* The new one may expire so soon that it should be refreshed again.
ProviderRotates(r) ==
  LET base == refreshers[r].base
      token == newest[base.epoch] + 1
  IN /\ In(r, "call") /\ base.token = newest[base.epoch] /\ token <= MaxToken
     /\ \E life \in {Lead, Life} :
          LET expires == clock + life
          IN refreshers' = [refreshers EXCEPT ![r].pc = "merge",
                ![r].got = [base EXCEPT !.token = token, !.expires = expires, !.err = "none",
                              !.blocked = FALSE,
                              !.after = IF expires - Lead <= clock
                                        THEN clock + Ineffective ELSE 0]]
     /\ newest' = [newest EXCEPT ![base.epoch] = token]
     /\ OnlyRefresher /\ UNCHANGED <<events, auth, pending, loops, holder, edited, quota, putBack, revived>>

\* Mutant of Merged: the executor's copy replaces the credential.
MergedNot(base, current, updated) == [updated EXCEPT !.epoch = current.epoch]

\* The three-way merge (MergeRefreshedAuth, and updateInternal, which keeps a live
\* quota as well): the token is the executor's, whatever changed meanwhile is the
\* current credential's, and its error and its cooldown, if live, stay.
Merged(base, current, updated) ==
  LET kept == \/ current.off
              \/ current.err # "none" /\ current.err # base.err
              \/ current.blocked /\ clock < current.retry
  IN [current EXCEPT
       !.token = updated.token, !.expires = updated.expires,
       !.after = IF updated.after # 0 \/ base.after # 0 THEN updated.after ELSE @,
       !.err = IF kept THEN @ ELSE "none",
       !.blocked = kept /\ @]

\* Mutant of UpdateRefreshedAuth: the registration is not compared.
UpdateRefreshedAuthAnyEpoch(r) ==
  LET s == refreshers[r]
  IN /\ In(r, "merge")
     /\ IF ~Present(auth)
        THEN UNCHANGED <<auth, loops, revived>>
        ELSE Write(Merged(s.base, auth, s.got)) /\ Tell
     /\ Return(r)
     /\ OnlyRefresher /\ UNCHANGED <<events, pending, history>>

\* UpdateRefreshedAuth
UpdateRefreshedAuth(r) ==
  LET s == refreshers[r]
  IN /\ In(r, "merge")
     /\ IF auth.epoch # s.base.epoch
        THEN UNCHANGED <<auth, loops, revived>>
        ELSE Write(Merged(s.base, auth, s.got)) /\ Tell
     /\ Return(r)
     /\ OnlyRefresher /\ UNCHANGED <<events, pending, history>>

\* What a failed refresh leaves of the credential.
Failed(a, error) ==
  LET valid == a.expires > clock
      terminal == IF a.off THEN error = "grant" ELSE error = "unauthorized" /\ ~valid
  IN [a EXCEPT
       !.err = error,
       !.blocked = a.off \/ ~valid \/ @,
       !.after = IF terminal THEN 0
                 ELSE IF valid /\ ~a.off THEN Earliest(clock + Backoff, a.expires)
                 ELSE clock + Backoff]

RefreshFails(r) ==
  \E error \in Errors :
    LET failed == Failed(auth, error)
    IN /\ In(r, "call")
       /\ IF auth.epoch # refreshers[r].base.epoch
          THEN Return(r) /\ UNCHANGED <<auth, loops, revived>>
          ELSE /\ Write(failed)
               /\ IF failed.after # 0 THEN Tell ELSE UNCHANGED loops
               /\ IF failed.after = 0 /\ auth.off
                  THEN Go(r, "unschedule") /\ UNCHANGED holder
                  ELSE Return(r)
       /\ OnlyRefresher /\ UNCHANGED <<events, pending, history>>

\* The context of a worker's refresh ends.
RefreshCancelled(l) ==
  /\ In(l, "call") /\ l \in ended
  /\ Return(l)
  /\ OnlyRefresher /\ UNCHANGED <<events, auth, pending, loops, history, revived>>

\* queueRefreshUnschedule
Unschedule(r) ==
  /\ In(r, "unschedule")
  /\ loops' = IF active = 0 THEN loops ELSE Removed(loops, active)
  /\ TakenOut(active)
  /\ Return(r)
  /\ OnlyRefresher /\ UNCHANGED <<events, auth, pending, history>>

WorkerFinishes(l) ==
  /\ In(l, "finish")
  /\ FinishRefreshJob(refreshers[l].job, 0, loops)
  /\ refreshers' = [refreshers EXCEPT ![l] = IdleRefresher]
  /\ OnlyRefresher /\ UNCHANGED <<events, holder, history>>

Worker(l) ==
  \/ WorkerTakes(l) \/ WorkerExits(l) \/ BeginRefreshJob(l)
  \/ RefreshCancelled(l) \/ WorkerFinishes(l)

Refresh(r) ==
  \/ ReadForRefresh(r) \/ ProviderRotates(r) \/ UpdateRefreshedAuth(r) \/ RefreshFails(r)
  \/ Unschedule(r)

-----------------------------------------------------------------------------
(* What else happens to the credential.                                    *)

OnlyCredential ==
  UNCHANGED <<clock, pending, active, ended, refreshers, holder>>

\* A management handler reads the credential ...
GetByID ==
  /\ editor = NoAuth /\ Present(auth) /\ Happens
  /\ editor' = auth
  /\ OnlyCredential /\ UNCHANGED <<auth, epochs, loops, history, revived>>

\* ... and replaces it by an edited copy (updateInternal): a live quota stays,
\* unless the credential is or was disabled, and an old registration is refused.
Update ==
  \E off \in BOOLEAN :
    LET new == [editor EXCEPT !.edit = @ + 1, !.off = off]
        keeps == Present(auth) /\ ~auth.off /\ ~off /\ clock < auth.limit
    IN /\ editor # NoAuth
       /\ editor' = NoAuth
       /\ IF editor.epoch < epochs
          THEN UNCHANGED <<auth, loops, edited, quota, putBack, revived>>
          ELSE /\ Write(IF keeps
                        THEN [new EXCEPT !.blocked = auth.blocked, !.retry = auth.retry,
                                         !.limit = auth.limit]
                        ELSE new)
               /\ Tell
               /\ edited' = new.edit
               /\ quota' = IF keeps THEN quota ELSE 0
               /\ putBack' = (putBack \/ new.token # auth.token)
       /\ OnlyCredential /\ UNCHANGED <<epochs, events, newest>>

\* A new login under the same id.
Register ==
  /\ ~Present(auth) /\ epochs < MaxEpoch
  /\ epochs' = epochs + 1
  /\ Write([NoAuth EXCEPT !.epoch = epochs + 1, !.token = 1, !.expires = clock + Life])
  /\ Tell
  /\ newest' = [newest EXCEPT ![epochs + 1] = 1]
  /\ edited' = 0 /\ quota' = 0 /\ putBack' = FALSE
  /\ OnlyCredential /\ UNCHANGED <<editor, events>>

\* Forget tells no loop, and leaves the job.
Forget ==
  /\ Present(auth) /\ Happens
  /\ auth' = NoAuth
  /\ OnlyCredential /\ UNCHANGED <<epochs, loops, editor, history, revived>>

\* MarkResult, which tells no loop either: the credential's quota ends, ...
MarkQuota ==
  LET until == clock + Cooldown
  IN /\ Write([auth EXCEPT !.err = "quota", !.blocked = TRUE, !.retry = until, !.limit = until])
     /\ quota' = IF auth.off THEN 0 ELSE until

\* ... its models are refused with a 401, ...
MarkUnauthorized ==
  /\ Write([auth EXCEPT !.err = "unauthorized", !.blocked = TRUE, !.retry = clock + Cooldown])
  /\ UNCHANGED quota

\* ... or an execution succeeds, which clears what is not a live quota.
MarkSuccess ==
  /\ IF clock < auth.limit THEN UNCHANGED <<auth, revived>>
     ELSE Write([auth EXCEPT !.err = "none", !.blocked = FALSE, !.retry = 0, !.limit = 0])
  /\ UNCHANGED quota

MarkResult ==
  /\ Present(auth) /\ Happens
  /\ \/ "quota" \in Failures /\ MarkQuota
     \/ "unauthorized" \in Failures /\ MarkUnauthorized
     \/ MarkSuccess
  /\ OnlyCredential /\ UNCHANGED <<epochs, loops, editor, newest, edited, putBack>>

Tick ==
  /\ clock < MaxClock /\ clock' = clock + 1
  /\ UNCHANGED <<auth, epochs, machine, editor, events, history, revived>>

-----------------------------------------------------------------------------
\* A credential whose token is due, or not yet, and no loop.
Init ==
  /\ clock = 1
  /\ \E life \in {Lead, Life} :
       auth = [NoAuth EXCEPT !.epoch = 1, !.token = 1, !.expires = 1 + life]
  /\ epochs = 1
  /\ pending = [job |-> NoJob, running |-> FALSE]
  /\ active = 0 /\ ended = {}
  /\ loops = [l \in Loop |-> IdleLoop]
  /\ refreshers = [r \in Refresher |-> IdleRefresher]
  /\ holder = 0
  /\ editor = NoAuth /\ events = 0
  /\ newest = [e \in 1..MaxEpoch |-> 1]
  /\ edited = 0 /\ quota = 0 /\ putBack = FALSE /\ revived = FALSE

Next ==
  \/ StartAutoRefresh \/ StopAutoRefresh
  \/ \E l \in Loop : Dispatcher(l) \/ Worker(l)
  \/ \E c \in Callers : CallerStarts(c)
  \/ \E r \in Refresher : Refresh(r)
  \/ GetByID \/ Update \/ Register \/ Forget
  \/ MarkResult
  \/ Tick

Spec == Init /\ [][Next]_vars

-----------------------------------------------------------------------------
(* Properties.                                                             *)

\* Who will finish the job: its worker, the loop that has it in hand, or, once
\* nobody will take it from the queue, releaseQueuedJobs.
Held(job) ==
  \/ \E l \in Loop : refreshers[l].job = job
  \/ \E l \in Loop : loops[l].hand = job
  \/ \E l \in Loop : /\ loops[l].jobs = job
                     /\ refreshers[l].pc # "done" \/ ~At(l, "end")

\* A job that is marked as pending is always held by someone who finishes it,
\* also when the queue was full or the loop has ended ("leave a phantom pending
\* job", handleDueAuth): otherwise the credential would never be marked again.
NoPhantomJob == pending.job # NoJob => Held(pending.job)

Waiting(l) == l = active /\ At(l, "wait")

\* The loop's next look at the credential is at most an interval after its refresh
\* is due.
Scheduled(l) ==
  \/ loops[l].dirty /\ loops[l].wake
  \/ loops[l].next \in 1..(Latest(clock, NextCheck(auth, clock)) + Interval)

\* However refreshes, edits, registrations and loops follow one another, the
\* active loop will look at a credential in time, unless it was taken out of the
\* queue and became refreshable again since (queueReschedule, finishRefreshJob).
Watched ==
  \A l \in Loop :
    Waiting(l) /\ Refreshable(auth) /\ pending.job = NoJob /\ ~revived => Scheduled(l)

\* Once no refresh has a token in hand, the credential has the newest token of its
\* registration: refreshes present no token that is used up, and none enters
\* another registration, unless an edit put an older copy back (refresh lock,
\* MergeRefreshedAuth, registration epochs).
NewestToken ==
  (/\ Present(auth) /\ ~putBack
   /\ \A r \in Refresher : ~(In(r, "merge") /\ refreshers[r].base.epoch = auth.epoch))
  => auth.token = newest[auth.epoch]

\* A refresh and an edit lose nothing that happened beside them: the last edit
\* stays, and a live quota of an enabled credential still blocks it (updateInternal,
\* MergeRefreshedAuth).
ChangesKept ==
  Present(auth) =>
    /\ auth.edit = edited
    /\ (clock < quota /\ ~auth.off) => (auth.blocked /\ auth.limit = quota)
=============================================================================
