--------------------------- MODULE ModelRegistration ---------------------------
(***************************************************************************)
(* How the service keeps the model registry in step with one credential,   *)
(* and how results of requests mark it (sdk/cliproxy/service.go,           *)
(* sdk/cliproxy/model_registry.go, MarkResult of sdk/cliproxy/auth).       *)
(*                                                                         *)
(* Two goroutines register models: "updates" applies credential updates    *)
(* (consumeAuthUpdates), "catalog" follows changes of the model catalog    *)
(* (the callback of SetModelRefreshCallback).  Each takes a snapshot of    *)
(* the credential and the registration epoch of its client, resolves the   *)
(* models with no lock held, and publishes if neither has changed.         *)
(* Results mark the registry after they have released Manager.mu, one      *)
(* call at a time.                                                         *)
(***************************************************************************)
EXTENDS ModelRegistry, Sequences

CONSTANTS
  Auth,         \* the credential that is updated; the other clients stay
  Inputs,       \* what its models are resolved from: attributes, prefix, ...
  Offers,       \* Offers[i][v]: the models of inputs i in version v of the catalog
  OtherOffer,   \* what every other client offers
  MaxEpoch,     \* bound: registrations of the credential
  MaxUpdates,   \* bound: updates of the credential
  MaxCatalog,   \* bound: versions of the catalog
  MaxResults,   \* bound: executions
  MaxClock      \* bound: the clock

CONSTANTS Off, Gone   \* the inputs of a disabled and of an absent credential

ASSUME ModelRegistrationAssumption ==
  /\ Auth \in Clients
  /\ {MaxEpoch, MaxUpdates, MaxCatalog, MaxResults, MaxClock} \subseteq Nat
  /\ MaxCatalog > 0
  /\ \A i \in Inputs, v \in 1..MaxCatalog : Offers[i][v] \in OfferType
  /\ OtherOffer \in OfferType
  /\ Off \notin Inputs /\ Gone \notin Inputs /\ Off # Gone

VARIABLES
  catalog,  \* version of modelsCatalogStore
  auth,     \* Manager.auths[Auth]: registration epoch and inputs
  updates,  \* updates applied
  workers,  \* the two goroutines
  dispatches, \* executions begun
  running,  \* executions whose result is still to come: a client and a model
  marks,    \* calls of the registry still to be made, a sequence for each result
  \* History, read by the properties only:
  crossed   \* whether the catalog goroutine published between the two steps of
            \* the last removal

executions == <<dispatches, running, marks>>
flow == <<catalog, auth, updates, workers, crossed>>
vars == <<clock, registry, flow, executions>>

NoAuth == [epoch |-> 0, inputs |-> Gone]
Present == auth.inputs # Gone
Worker == {"updates", "catalog"}

\* A goroutine: its next step, its snapshot and fence, the offer it resolved, and
\* how many attempts it has left.
IdleWorker == [pc |-> "idle", snap |-> NoAuth, fence |-> 0, offer |-> NoOffer, left |-> 0]
Idle(w) == workers[w].pc = "idle"
Go(w, r) == workers' = [workers EXCEPT ![w] = r]
Step(w, pc) == Go(w, [workers[w] EXCEPT !.pc = pc])
Begin(w) == Go(w, [IdleWorker EXCEPT !.pc = "snapshot", !.left = 2])

\* The other clients are registered, Auth is not.
Init ==
  LET others == Clients \ {Auth}
      of(m) == OtherOffer.times[m] * Cardinality(others)
  IN /\ clock = 1
     /\ models = [m \in Models |->
          IF of(m) = 0 THEN NoModel
          ELSE [NoModel EXCEPT
                  !.count = of(m), !.providers[OtherOffer.provider] = of(m),
                  !.web = OtherOffer.web[m], !.webOf[OtherOffer.provider] = OtherOffer.web[m]]]
     /\ clients = [c \in Clients |-> [offer |-> IF c = Auth THEN NoOffer ELSE OtherOffer,
                                      epoch |-> IF c = Auth THEN 0 ELSE 1]]
     /\ cache = NoCache
     /\ catalog = 1 /\ auth = NoAuth /\ updates = 0
     /\ workers = [w \in Worker |-> IdleWorker]
     /\ dispatches = 0 /\ running = {} /\ marks = {} /\ crossed = FALSE

Tick ==
  /\ clock < MaxClock /\ clock' = clock + 1
  /\ UNCHANGED <<registry, flow, executions>>

ListModels ==
  /\ GetAvailableModels
  /\ UNCHANGED <<flow, executions>>

-----------------------------------------------------------------------------
(* The goroutine of credential updates.                                    *)

\* applyCoreAuthAddOrUpdate, up to completeModelRegistrationForAuth: Register
\* begins a new registration epoch, Update keeps it.
ApplyUpdate(i) ==
  /\ Idle("updates") /\ updates < MaxUpdates
  /\ Present \/ auth.epoch < MaxEpoch
  /\ auth' = [epoch |-> IF Present THEN auth.epoch ELSE auth.epoch + 1, inputs |-> i]
  /\ updates' = updates + 1
  /\ Begin("updates")
  /\ UNCHANGED <<clock, registry, catalog, executions, crossed>>

\* applyCoreAuthRemoval: the models first ...
ApplyRemoval ==
  /\ Idle("updates") /\ Present /\ updates < MaxUpdates
  /\ UnregisterClient(Auth)
  /\ updates' = updates + 1
  /\ Step("updates", "forget")
  /\ crossed' = FALSE
  /\ UNCHANGED <<clock, catalog, auth, executions>>

\* ... then the credential.
Forget ==
  /\ workers["updates"].pc = "forget"
  /\ auth' = [auth EXCEPT !.inputs = Gone]
  /\ Step("updates", "idle")
  /\ UNCHANGED <<clock, registry, catalog, updates, executions, crossed>>

-----------------------------------------------------------------------------
(* The goroutine of the catalog.                                           *)

\* tryRefreshModels stores a changed catalog and calls the callback.
CatalogChanges ==
  /\ Idle("catalog") /\ catalog < MaxCatalog
  /\ catalog' = catalog + 1
  /\ Begin("catalog")
  /\ UNCHANGED <<clock, registry, auth, updates, executions, crossed>>

-----------------------------------------------------------------------------
(* A registration attempt.                                                 *)

Only(w) == UNCHANGED <<clock, registry, catalog, auth, updates, executions, crossed>>

\* latestAuthForModelRegistration.  The catalog goroutine skips a credential
\* that is absent, and does not begin with one that is disabled.
Snapshot(w) ==
  /\ workers[w].pc = "snapshot"
  /\ IF w = "catalog" /\ (~Present \/ (auth.inputs = Off /\ workers[w].left = 2))
     THEN Go(w, IdleWorker)
     ELSE Go(w, [workers[w] EXCEPT !.snap = auth, !.pc = "fence"])
  /\ Only(w)

\* newModelRegistrationFence
TakeFence(w) ==
  /\ workers[w].pc = "fence"
  /\ Go(w, [workers[w] EXCEPT !.fence = clients[Auth].epoch, !.pc = "resolve"])
  /\ Only(w)

\* What follows an attempt: completeModelRegistrationForAuth tries once more if
\* its models were refused, refreshModelRegistrationForAuth always does.  (Both
\* end with ReconcileRegistryModelStates, see AuthCooldown.)
AfterAttempt(w, published) ==
  IF workers[w].left = 2 /\ (w = "catalog" \/ ~published)
  THEN Go(w, [workers[w] EXCEPT !.pc = "snapshot", !.left = 1])
  ELSE Go(w, IdleWorker)

\* registerModelsForAuthDirect: nothing to offer for a disabled credential, and no
\* attempt for one that was enabled, disabled or removed meanwhile.
Resolve(w) ==
  LET s == workers[w].snap.inputs
  IN /\ workers[w].pc = "resolve"
     /\ CASE s = Off /\ workers[w].left = 2 /\ auth.inputs \in Inputs -> AfterAttempt(w, FALSE)
          [] s = Off /\ (workers[w].left = 1 \/ auth.inputs \notin Inputs) ->
               Go(w, [workers[w] EXCEPT !.offer = NoOffer, !.pc = "publish"])
          [] s # Off /\ auth.inputs \notin Inputs -> AfterAttempt(w, TRUE)
          [] OTHER -> Go(w, [workers[w] EXCEPT !.offer = Offers[s][catalog], !.pc = "publish"])
     /\ Only(w)

\* Mutant of Current: the registration epoch of the client is not compared.
CurrentInputs(w) == auth = workers[w].snap

\* publishIfCurrent, PublishIfRegistrationCurrent: the inputs and the epochs are
\* those of the snapshot and the fence.
Current(w) == auth = workers[w].snap /\ clients[Auth].epoch = workers[w].fence

\* publishModels and publishUnregister hold Manager.mu and the registry's mutex.
Publish(w) ==
  /\ workers[w].pc = "publish"
  /\ IF Current(w) THEN RegisterClient(Auth, workers[w].offer) ELSE UNCHANGED registry
  /\ AfterAttempt(w, Current(w))
  /\ crossed' = (crossed \/ (w = "catalog" /\ Current(w) /\ workers["updates"].pc = "forget"))
  /\ UNCHANGED <<clock, catalog, auth, updates, executions>>

-----------------------------------------------------------------------------
(* Results.                                                                *)

\* What MarkResult does to the registry once it has released Manager.mu.
Marks(c, m, outcome) ==
  CASE outcome = "ok" -> << <<"clear", c, m>>, <<"resume", c, m>> >>
    [] outcome = "quota" -> << <<"quota", c, m>>, <<"suspend", c, m, "quota">> >>
    [] outcome = "other" -> << <<"suspend", c, m, "other">> >>

\* An execution begins with a client that offers the model.
Dispatch(c, m) ==
  /\ c \in Members(m)
  /\ c = Auth => auth.inputs \in Inputs
  /\ dispatches < MaxResults /\ dispatches' = dispatches + 1
  /\ running' = running \cup {<<c, m>>}
  /\ UNCHANGED <<clock, registry, flow, marks>>

\* MarkResult drops the result of a credential that is gone.
MarkResult(r, outcome) ==
  /\ running' = running \ {r}
  /\ marks' = IF r[1] = Auth /\ ~Present THEN marks
              ELSE marks \cup {Marks(r[1], r[2], outcome)}
  /\ UNCHANGED <<clock, registry, flow, dispatches>>

ApplyMark(k) ==
  LET c == Head(k)[2]
      m == Head(k)[3]
  IN /\ CASE Head(k)[1] = "clear" -> ClearModelQuotaExceeded(c, m)
          [] Head(k)[1] = "resume" -> ResumeClientModel(c, m)
          [] Head(k)[1] = "quota" -> SetModelQuotaExceeded(c, m)
          [] Head(k)[1] = "suspend" -> SuspendClientModel(c, m, Head(k)[4])
     /\ marks' = (marks \ {k}) \cup (IF Len(k) > 1 THEN {Tail(k)} ELSE {})
     /\ UNCHANGED <<clock, flow, dispatches, running>>

-----------------------------------------------------------------------------
Next ==
  \/ Tick
  \/ ListModels
  \/ \E i \in Inputs \cup {Off} : ApplyUpdate(i)
  \/ ApplyRemoval
  \/ Forget
  \/ CatalogChanges
  \/ \E w \in Worker :
       Snapshot(w) \/ TakeFence(w) \/ Resolve(w) \/ Publish(w)
  \/ \E c \in Clients, m \in Models : Dispatch(c, m)
  \/ \E r \in running, o \in {"ok", "quota", "other"} : MarkResult(r, o)
  \/ \E k \in marks : ApplyMark(k)

Spec == Init /\ [][Next]_vars

-----------------------------------------------------------------------------
(* Properties.                                                             *)

Marked(m) == {c \in Clients : models[m].quota[c] > 0 \/ models[m].suspended[c] # "no"}

\* However clients came, changed provider or offer, and went, the registration
\* of a model is what a count over its clients yields: how many offers, how many
\* through each provider, and their capability (registerClientLocked).
RegistrationsExact ==
  \A m \in Models :
    LET r == models[m]
        By(p) == {c \in Members(m) : clients[c].offer.provider = p}
        times == [c \in Clients |-> clients[c].offer.times[m]]
        declared(S) == Merge({clients[c].offer.web[m] : c \in S})
    IN /\ r.count = SumFunctionOnSet(times, Members(m))
       /\ \A p \in Providers : r.providers[p] = SumFunctionOnSet(times, By(p))
       /\ r.web = declared(Members(m))
       /\ \A p \in Providers : r.webOf[p] = declared(By(p))

\* When both goroutines are done, the registry offers for the credential what its
\* inputs and the catalog yield now, and nothing when it is disabled or gone
\* (modelRegistrationFence and the second attempts).  The exception is a credential
\* that is gone, if the catalog goroutine published between the steps of its removal.
RegisteredIsCurrent ==
  (\A w \in Worker : Idle(w)) =>
    \/ clients[Auth].offer = IF auth.inputs \in Inputs THEN Offers[auth.inputs][catalog]
                             ELSE NoOffer
    \/ ~Present /\ crossed

\* "If the auth is absent, applyCoreAuthRemoval owns unregistration"
\* (refreshModelRegistrationForAuth): when both goroutines are done, the registry
\* offers nothing for a credential that is gone.
RemovalUnregisters ==
  (\A w \in Worker : Idle(w)) /\ ~Present => clients[Auth].offer = NoOffer

\* A list that GetAvailableModels may serve from its cache is what it would build.
CacheCurrent == Fresh => cache.list = Available

\* A model is listed if one of its clients bears no mark, however the other
\* clients are marked and counted, as long as no client that does not offer the
\* model has left a mark on it (buildAvailableModelsLocked).
UnmarkedIsListed ==
  \A m \in Models :
    Marked(m) \subseteq Members(m) /\ Members(m) \ Marked(m) # {} => m \in Available
=============================================================================
