----------------------------- MODULE ModelRegistry -----------------------------
(***************************************************************************)
(* The model registry (internal/registry/model_registry.go): which clients *)
(* (credentials) offer which models, through which provider, which of them *)
(* are marked as out of quota or suspended, and the list of available      *)
(* models with its cache.                                                  *)
(*                                                                         *)
(* One operator per method that changes the registry; each is one hold of  *)
(* ModelRegistry.mutex.  Of a model's description only the web search      *)
(* capability is kept, the one that the registry merges over its clients.  *)
(***************************************************************************)
EXTENDS Naturals, FiniteSets, FiniteSetsExt, Functions

CONSTANTS
  Clients,     \* credentials
  Models,      \* model ids
  Providers,   \* provider keys
  NoProvider,  \* the provider of a client that is not registered
  QuotaWindow  \* modelQuotaExceededWindow

ASSUME ModelRegistryAssumption ==
  /\ IsFiniteSet(Clients)
  /\ NoProvider \notin Providers
  /\ QuotaWindow \in Nat \ {0}

VARIABLES
  clock,    \* the time
  models,   \* ModelRegistry.models: the registration of each model
  clients,  \* clientModels, clientProviders, clientModelInfos, clientEpochs
  cache     \* availableModelsCache, for one handler

registry == <<models, clients, cache>>

\* The tri-state of NativeCapabilities.WebSearch.
WebSearch == {"unknown", "no", "yes"}

\* A model that nobody registered: absent from ModelRegistry.models.
NoModel == [count |-> 0, providers |-> [p \in Providers |-> 0],
            web |-> "unknown", webOf |-> [p \in Providers |-> "unknown"],
            quota |-> [c \in Clients |-> 0],
            suspended |-> [c \in Clients |-> "no"]]

\* What a client offers: how often it lists each model, and their capability.
NoOffer == [provider |-> NoProvider, times |-> [m \in Models |-> 0],
            web |-> [m \in Models |-> "unknown"]]

\* What a registered client offers.
OfferType == [provider : Providers, times : [Models -> Nat], web : [Models -> WebSearch]]

Registered(c) == clients[c].offer # NoOffer
\* The clients that offer a model.
Members(m) == {c \in Clients : clients[c].offer.times[m] > 0}
Exists(m) == models[m].count > 0

NoCache == [valid |-> FALSE, list |-> {}, expires |-> 0]
Invalidate == cache' = NoCache

-----------------------------------------------------------------------------
(* Registration.                                                           *)

Merge(declared) ==
  IF "yes" \in declared THEN "yes"
  ELSE IF "no" \in declared THEN "no" ELSE "unknown"

\* mergedWebSearchCapabilityLocked over the other clients and the new offer.
Merged(m, ps, c, base) ==
  Merge({base} \cup {clients[d].offer.web[m] : d \in
           {e \in Clients \ {c} : /\ clients[e].offer.times[m] > 0
                                  /\ clients[e].offer.provider \in ps}})

Less(x, y) == IF x > y THEN x - y ELSE 0

\* The registration of model m when client c replaces its offer by new: the
\* counts of what it removed, kept and added, moved to the new provider if that
\* changed, the merged capabilities, and the marks of c gone, unless c was not
\* registered before (registerClientLocked, addModelRegistration,
\* removeModelRegistration, unregisterClientInternal).
Reconcile(m, c, new, moved) ==
  LET old == clients[c].offer
      r == models[m]
      was == old.times[m]
      is == new.times[m]
      kept == IF moved THEN 0 ELSE Min({was, is})
      touched == was + is > 0
      left == IF was = kept THEN r.providers
              ELSE [r.providers EXCEPT ![old.provider] = Less(@, was - kept)]
      providers == IF is = kept THEN left
                   ELSE [left EXCEPT ![new.provider] = @ + (is - kept)]
      base == IF is > 0 THEN new.web[m] ELSE "unknown"
  IN IF ~touched THEN r
     ELSE IF r.count + is = was THEN NoModel
     ELSE [r EXCEPT
       !.count = @ + is - was,
       !.providers = providers,
       !.web = Merged(m, Providers, c, base),
       !.webOf = [p \in Providers |->
          CASE p = new.provider /\ is > 0 -> Merged(m, {p}, c, base)
            [] p = old.provider /\ was > 0 /\ (moved \/ is = 0) ->
                 IF providers[p] = 0 THEN "unknown" ELSE Merged(m, {p}, c, "unknown")
            [] OTHER -> @[p]],
       !.quota[c] = IF old # NoOffer THEN 0 ELSE @,
       !.suspended[c] = IF old # NoOffer THEN "no" ELSE @]

\* Mutant of Reconciled: what a client keeps stays with its old provider.
ReconciledInPlace(m, c, new) == Reconcile(m, c, new, FALSE)

Reconciled(m, c, new) ==
  Reconcile(m, c, new, clients[c].offer.provider # new.provider)

Replace(c, new, epoch) ==
  /\ models' = [m \in Models |-> Reconciled(m, c, new)]
  /\ clients' = [clients EXCEPT ![c] = [offer |-> new, epoch |-> epoch]]
  /\ Invalidate

\* A client that offers nothing is unregistered, and its epoch only moves when it
\* was registered.
UnregisterClient(c) ==
  Replace(c, NoOffer, IF Registered(c) THEN clients[c].epoch + 1 ELSE clients[c].epoch)

RegisterClient(c, new) ==
  IF new = NoOffer THEN UnregisterClient(c)
  ELSE Replace(c, new, clients[c].epoch + 1)

-----------------------------------------------------------------------------
(* Marks.  None of these asks whether the client offers the model.         *)

Mark(m, r) ==
  /\ models' = [models EXCEPT ![m] = r]
  /\ Invalidate
  /\ UNCHANGED clients

SetModelQuotaExceeded(c, m) ==
  IF Exists(m) THEN Mark(m, [models[m] EXCEPT !.quota[c] = clock])
  ELSE UNCHANGED registry

ClearModelQuotaExceeded(c, m) ==
  IF Exists(m) THEN Mark(m, [models[m] EXCEPT !.quota[c] = 0])
  ELSE UNCHANGED registry

\* Mutant of SuspendClientModel: the cached list stays.
SuspendClientModelQuietly(c, m, reason) ==
  /\ models' = IF Exists(m) THEN [models EXCEPT ![m].suspended[c] = reason] ELSE models
  /\ UNCHANGED <<clients, cache>>

\* The first reason stays.
SuspendClientModel(c, m, reason) ==
  IF Exists(m) /\ models[m].suspended[c] = "no"
  THEN Mark(m, [models[m] EXCEPT !.suspended[c] = reason])
  ELSE UNCHANGED registry

ResumeClientModel(c, m) ==
  IF Exists(m) /\ models[m].suspended[c] # "no"
  THEN Mark(m, [models[m] EXCEPT !.suspended[c] = "no"])
  ELSE UNCHANGED registry

-----------------------------------------------------------------------------
(* Available models.                                                       *)

OutOfQuota(m) ==
  {c \in Clients : models[m].quota[c] > 0 /\ clock < models[m].quota[c] + QuotaWindow}
Cooling(m) == {c \in Clients : models[m].suspended[c] = "quota"}
Suspended(m) == {c \in Clients : models[m].suspended[c] = "other"}

\* Mutant of Offered: a client with two marks is counted twice.
OfferedCountingTwice(m) ==
  LET out == Cardinality(OutOfQuota(m)) + Cardinality(Suspended(m))
  IN \/ models[m].count > out
     \/ Exists(m) /\ OutOfQuota(m) \cup Cooling(m) # {} /\ Suspended(m) = {}

\* The condition of buildAvailableModelsLocked: a client is left, or all that
\* is wrong with the clients is their quota.
Offered(m) ==
  LET out == Cardinality(OutOfQuota(m)) + Cardinality(Suspended(m))
             - Cardinality(OutOfQuota(m) \cap Suspended(m))
  IN \/ models[m].count > out
     \/ Exists(m) /\ OutOfQuota(m) \cup Cooling(m) # {} /\ Suspended(m) = {}

Available == {m \in Models : Offered(m)}

\* The first recovery of a client out of quota, 0 if there is none.
NextRecovery ==
  LET recoveries == UNION {{models[m].quota[c] + QuotaWindow : c \in OutOfQuota(m)} :
                            m \in Models}
  IN IF recoveries = {} THEN 0 ELSE Min(recoveries)

Fresh == cache.valid /\ (cache.expires = 0 \/ clock < cache.expires)

\* GetAvailableModels, when the cache does not serve it.
GetAvailableModels ==
  /\ ~Fresh
  /\ cache' = [valid |-> TRUE, list |-> Available, expires |-> NextRecovery]
  /\ UNCHANGED <<clock, models, clients>>
=============================================================================
