------------------------- MODULE ModelRegistrationProofs -------------------------
(***************************************************************************)
(* Theorems about ModelRegistry and ModelRegistration, for every finite    *)
(* set of clients, and all models, offers and bounds.                      *)
(***************************************************************************)
EXTENDS ModelRegistration, FiniteSetTheorems, WellFoundedInduction, TLAPS

-----------------------------------------------------------------------------
(* Sums over finite sets.                                                  *)

Chosen(s) == CHOOSE x \in s : TRUE

\* f is the recursive function by which SumFunctionOnSet adds F up over S.
Adds(f, F, S) ==
  f = [s \in SUBSET S |-> IF s = {} THEN 0 ELSE F[Chosen(s)] + f[s \ {Chosen(s)}]]

\* A non-empty set of subsets of a finite set has a minimal member.
LEMMA MinSubset ==
  ASSUME NEW S, IsFiniteSet(S), NEW T \in SUBSET SUBSET S, T # {}
  PROVE  \E x \in T : \A y \in T : y \subseteq x => y = x
<1>1. T \subseteq FiniteSubsetsOf(S)
  BY FS_FiniteSubsetsOfFinite
<1>2. \E x \in T : \A y \in T : ~ (<<y, x>> \in StrictSubsetOrdering(S))
  BY <1>1, FS_StrictSubsetOrderingWellFounded, WFMin
<1> QED
  BY <1>2 DEF StrictSubsetOrdering

LEMMA ChosenIn ==
  ASSUME NEW s, s # {}
  PROVE  Chosen(s) \in s
  BY DEF Chosen

\* Two such functions agree on the sets they both have.
LEMMA AddsUnique ==
  ASSUME NEW F, NEW S, NEW T, NEW f, NEW g, Adds(f, F, S), Adds(g, F, T),
         NEW U, IsFiniteSet(U), U \subseteq S, U \subseteq T
  PROVE  f[U] = g[U]
<1> DEFINE Bad == {s \in SUBSET U : f[s] # g[s]}
<1> SUFFICES ASSUME Bad # {} PROVE FALSE
  OBVIOUS
<1>1. PICK s \in Bad : \A t \in Bad : t \subseteq s => t = s
  <2>1. Bad \in SUBSET SUBSET U
    OBVIOUS
  <2> HIDE DEF Bad
  <2> QED
    BY <2>1, MinSubset
<1>2. s \in SUBSET S /\ s \in SUBSET T
  OBVIOUS
<1>3. /\ f[s] = IF s = {} THEN 0 ELSE F[Chosen(s)] + f[s \ {Chosen(s)}]
      /\ g[s] = IF s = {} THEN 0 ELSE F[Chosen(s)] + g[s \ {Chosen(s)}]
  BY <1>2 DEF Adds
<1>4. CASE s = {}
  BY <1>3, <1>4
<1>5. CASE s # {}
  <2>1. /\ s \ {Chosen(s)} # s /\ s \ {Chosen(s)} \subseteq s
        /\ s \ {Chosen(s)} \in SUBSET U
    BY <1>5, ChosenIn
  <2>2. f[s \ {Chosen(s)}] = g[s \ {Chosen(s)}]
    BY <1>1, <2>1
  <2> QED
    BY <1>3, <1>5, <2>2
<1> QED
  BY <1>4, <1>5

\* There is such a function for every finite set.
LEMMA AddsExists ==
  ASSUME NEW F, NEW S, IsFiniteSet(S)
  PROVE  \E f : Adds(f, F, S)
<1> DEFINE Bad == {T \in SUBSET S : ~\E f : Adds(f, F, T)}
<1> SUFFICES ASSUME Bad # {} PROVE FALSE
  OBVIOUS
<1>1. PICK T \in Bad : \A U \in Bad : U \subseteq T => U = T
  <2>1. Bad \in SUBSET SUBSET S
    OBVIOUS
  <2> HIDE DEF Bad
  <2> QED
    BY <2>1, MinSubset
<1> DEFINE g(U) == CHOOSE f : Adds(f, F, U)
           h == [s \in SUBSET T |->
                  IF s = {} THEN 0
                  ELSE F[Chosen(s)] + g(s \ {Chosen(s)})[s \ {Chosen(s)}]]
<1>2. ASSUME NEW U \in SUBSET T, U # T
      PROVE  Adds(g(U), F, U)
  <2>1. \E f : Adds(f, F, U)
    BY <1>1, <1>2
  <2> QED
    BY <2>1
<1>3. ASSUME NEW s \in SUBSET T, s # {}
      PROVE  h[s] = F[Chosen(s)] + h[s \ {Chosen(s)}]
  <2> DEFINE u == s \ {Chosen(s)}
  <2>1. u \in SUBSET T /\ u # T /\ IsFiniteSet(u)
    BY <1>3, ChosenIn, FS_Subset
  <2>2. h[s] = F[Chosen(s)] + g(u)[u]
    BY <1>3
  <2>3. h[u] = g(u)[u]
    <3> HIDE DEF u
    <3>1. Adds(g(u), F, u)
      BY <1>2, <2>1
    <3>2. u \in SUBSET u
      OBVIOUS
    <3>3. g(u)[u] = IF u = {} THEN 0
                    ELSE F[Chosen(u)] + g(u)[u \ {Chosen(u)}]
      <4> HIDE DEF g
      <4> QED
        BY <3>1, <3>2 DEF Adds
    <3>4. CASE u = {}
      <4>1. h[u] = 0
        BY <2>1, <3>4
      <4> HIDE DEF g, h
      <4> QED
        BY <3>3, <3>4, <4>1
    <3>5. CASE u # {}
      <4> DEFINE v == u \ {Chosen(u)}
      <4>1. v \in SUBSET T /\ v # T /\ IsFiniteSet(v) /\ v \subseteq u
        BY <2>1, <3>5, ChosenIn, FS_Subset
      <4>2. h[u] = F[Chosen(u)] + g(v)[v]
        BY <2>1, <3>5
      <4>3. g(u)[v] = g(v)[v]
        <5>1. Adds(g(v), F, v)
          BY <1>2, <4>1
        <5> HIDE DEF g, v
        <5> QED
          BY <3>1, <4>1, <5>1, AddsUnique
      <4> HIDE DEF g, h
      <4> QED
        BY <3>3, <3>5, <4>2, <4>3
    <3> QED
      BY <3>4, <3>5
  <2> HIDE DEF g, h
  <2> QED
    BY <2>2, <2>3
<1>4. Adds(h, F, T)
  <2>1. h = [s \in SUBSET T |-> IF s = {} THEN 0
                                ELSE F[Chosen(s)] + h[s \ {Chosen(s)}]]
    <3> DEFINE k == [s \in SUBSET T |-> IF s = {} THEN 0
                                        ELSE F[Chosen(s)] + h[s \ {Chosen(s)}]]
    <3>1. DOMAIN h = SUBSET T /\ h = [s \in SUBSET T |-> h[s]]
      OBVIOUS
    <3>2. h[{}] = 0
      OBVIOUS
    <3> HIDE DEF h
    <3>3. \A s \in SUBSET T : h[s] = k[s]
      BY <1>3, <3>2
    <3> QED
      BY <3>1, <3>3
  <2> HIDE DEF h
  <2> QED
    BY <2>1 DEF Adds
<1> HIDE DEF h
<1> QED
  BY <1>1, <1>4

\* So a sum is the value of each such function.
LEMMA SumAdds ==
  ASSUME NEW F, NEW S, IsFiniteSet(S)
  PROVE  \E f : Adds(f, F, S) /\ f[S] = SumFunctionOnSet(F, S)
<1> DEFINE f == CHOOSE f : Adds(f, F, S)
<1>1. Adds(f, F, S)
  BY AddsExists
<1>2. SumFunctionOnSet(F, S) = f[S]
  BY DEF Adds, Chosen, SumFunctionOnSet, FoldFunctionOnSet, MapThenFoldSet
<1> HIDE DEF f
<1> QED
  BY <1>1, <1>2

\* The sum over no element, and the sum without the chosen one.
LEMMA SumChosen ==
  ASSUME NEW F, NEW S, IsFiniteSet(S)
  PROVE  SumFunctionOnSet(F, S) =
           IF S = {} THEN 0
           ELSE F[Chosen(S)] + SumFunctionOnSet(F, S \ {Chosen(S)})
<1> DEFINE T == S \ {Chosen(S)}
<1>1. PICK f : Adds(f, F, S) /\ f[S] = SumFunctionOnSet(F, S)
  BY SumAdds
<1>2. f[S] = IF S = {} THEN 0 ELSE F[Chosen(S)] + f[T]
  BY <1>1 DEF Adds
<1>3. IsFiniteSet(T) /\ T \subseteq S
  BY FS_Subset
<1>4. PICK g : Adds(g, F, T) /\ g[T] = SumFunctionOnSet(F, T)
  BY <1>3, SumAdds
<1>5. f[T] = g[T]
  BY <1>1, <1>3, <1>4, AddsUnique
<1> QED
  BY <1>1, <1>2, <1>4, <1>5

LEMMA SumEmpty ==
  ASSUME NEW F
  PROVE  SumFunctionOnSet(F, {}) = 0
  BY SumChosen, FS_EmptySet

\* A sum of naturals is one.
LEMMA SumType ==
  ASSUME NEW S, IsFiniteSet(S), NEW F, \A x \in S : F[x] \in Nat
  PROVE  SumFunctionOnSet(F, S) \in Nat
<1> DEFINE Bad == {T \in SUBSET S : SumFunctionOnSet(F, T) \notin Nat}
<1> SUFFICES ASSUME Bad # {} PROVE FALSE
  OBVIOUS
<1>1. PICK T \in Bad : \A U \in Bad : U \subseteq T => U = T
  <2>1. Bad \in SUBSET SUBSET S
    OBVIOUS
  <2> HIDE DEF Bad
  <2> QED
    BY <2>1, MinSubset
<1>2. IsFiniteSet(T)
  BY FS_Subset
<1>3. T # {}
  BY SumEmpty
<1>4. /\ T \ {Chosen(T)} \in SUBSET S /\ T \ {Chosen(T)} # T /\ Chosen(T) \in S
      /\ SumFunctionOnSet(F, T) = F[Chosen(T)] + SumFunctionOnSet(F, T \ {Chosen(T)})
  BY <1>2, <1>3, ChosenIn, SumChosen
<1>5. SumFunctionOnSet(F, T \ {Chosen(T)}) \in Nat
  BY <1>1, <1>4
<1> QED
  BY <1>1, <1>4, <1>5

\* Any element may be taken out of a sum.
LEMMA SumRemove ==
  ASSUME NEW S, IsFiniteSet(S), NEW F, \A x \in S : F[x] \in Nat, NEW y \in S
  PROVE  SumFunctionOnSet(F, S) = F[y] + SumFunctionOnSet(F, S \ {y})
<1> DEFINE Sum(T) == SumFunctionOnSet(F, T)
           Bad == {T \in SUBSET S : \E z \in T : Sum(T) # F[z] + Sum(T \ {z})}
<1> SUFFICES ASSUME Bad # {} PROVE FALSE
  OBVIOUS
<1>1. PICK T \in Bad : \A U \in Bad : U \subseteq T => U = T
  <2>1. Bad \in SUBSET SUBSET S
    OBVIOUS
  <2> HIDE DEF Bad
  <2> QED
    BY <2>1, MinSubset
<1>2. PICK z \in T : Sum(T) # F[z] + Sum(T \ {z})
  OBVIOUS
<1> DEFINE c == Chosen(T)
<1>3. c \in T /\ IsFiniteSet(T) /\ T # {}
  BY FS_Subset, ChosenIn
<1>4. Sum(T) = F[c] + Sum(T \ {c})
  BY <1>3, SumChosen
<1>5. c # z
  BY <1>2, <1>4
<1>6. /\ T \ {c} \in SUBSET S /\ T \ {c} # T /\ z \in T \ {c}
      /\ T \ {z} \in SUBSET S /\ T \ {z} # T /\ c \in T \ {z}
  BY <1>3, <1>5
<1>7. /\ Sum(T \ {c}) = F[z] + Sum((T \ {c}) \ {z})
      /\ Sum(T \ {z}) = F[c] + Sum((T \ {z}) \ {c})
  <2>1. T \ {c} \notin Bad /\ T \ {z} \notin Bad
    BY <1>1, <1>6
  <2> QED
    BY <1>6, <2>1
<1>8. (T \ {c}) \ {z} = (T \ {z}) \ {c}
  OBVIOUS
<1>9. Sum((T \ {c}) \ {z}) \in Nat /\ F[c] \in Nat /\ F[z] \in Nat
  <2>1. IsFiniteSet((T \ {c}) \ {z}) /\ (T \ {c}) \ {z} \subseteq S
    BY <1>3, FS_Subset
  <2> QED
    BY <1>3, <2>1, SumType
<1> HIDE DEF Sum, c
<1>10. Sum(T) = F[c] + (F[z] + Sum((T \ {c}) \ {z}))
  BY <1>4, <1>7
<1>11. F[z] + Sum(T \ {z}) = F[z] + (F[c] + Sum((T \ {c}) \ {z}))
  BY <1>7, <1>8
<1> QED
  BY <1>2, <1>9, <1>10, <1>11

\* Only the summands count.
LEMMA SumSame ==
  ASSUME NEW S, IsFiniteSet(S), NEW F, NEW G, \A x \in S : F[x] = G[x]
  PROVE  SumFunctionOnSet(F, S) = SumFunctionOnSet(G, S)
<1> DEFINE Bad == {T \in SUBSET S : SumFunctionOnSet(F, T) # SumFunctionOnSet(G, T)}
<1> SUFFICES ASSUME Bad # {} PROVE FALSE
  OBVIOUS
<1>1. PICK T \in Bad : \A U \in Bad : U \subseteq T => U = T
  <2>1. Bad \in SUBSET SUBSET S
    OBVIOUS
  <2> HIDE DEF Bad
  <2> QED
    BY <2>1, MinSubset
<1>2. IsFiniteSet(T)
  BY FS_Subset
<1>3. T # {}
  BY SumEmpty
<1>4. /\ T \ {Chosen(T)} \in SUBSET S /\ T \ {Chosen(T)} # T /\ Chosen(T) \in S
      /\ SumFunctionOnSet(F, T) = F[Chosen(T)] + SumFunctionOnSet(F, T \ {Chosen(T)})
      /\ SumFunctionOnSet(G, T) = G[Chosen(T)] + SumFunctionOnSet(G, T \ {Chosen(T)})
  BY <1>2, <1>3, ChosenIn, SumChosen
<1>5. SumFunctionOnSet(F, T \ {Chosen(T)}) = SumFunctionOnSet(G, T \ {Chosen(T)})
  BY <1>1, <1>4
<1> QED
  BY <1>1, <1>4, <1>5

\* A sum of positive numbers is at least the number of its summands.
LEMMA SumAtLeast ==
  ASSUME NEW S, IsFiniteSet(S), NEW F, \A x \in S : F[x] \in Nat \ {0}
  PROVE  SumFunctionOnSet(F, S) >= Cardinality(S)
<1> DEFINE Bad == {T \in SUBSET S : ~(SumFunctionOnSet(F, T) >= Cardinality(T))}
<1> SUFFICES ASSUME Bad # {} PROVE FALSE
  OBVIOUS
<1>1. PICK T \in Bad : \A U \in Bad : U \subseteq T => U = T
  <2>1. Bad \in SUBSET SUBSET S
    OBVIOUS
  <2> HIDE DEF Bad
  <2> QED
    BY <2>1, MinSubset
<1>2. IsFiniteSet(T)
  BY FS_Subset
<1>3. T # {}
  BY SumEmpty, FS_EmptySet
<1> DEFINE U == T \ {Chosen(T)}
<1>4. /\ U \in SUBSET S /\ U # T /\ Chosen(T) \in S /\ IsFiniteSet(U)
      /\ SumFunctionOnSet(F, T) = F[Chosen(T)] + SumFunctionOnSet(F, U)
  BY <1>2, <1>3, ChosenIn, SumChosen, FS_Subset
<1>5. SumFunctionOnSet(F, U) >= Cardinality(U)
  BY <1>1, <1>4
<1>6. /\ SumFunctionOnSet(F, U) \in Nat /\ F[Chosen(T)] \in Nat \ {0}
      /\ Cardinality(U) \in Nat
  BY <1>4, SumType, FS_CardinalityType
<1>7. Cardinality(T) = Cardinality(U) + 1
  <2>1. Cardinality(U) = Cardinality(T) - 1 /\ Cardinality(T) \in Nat
    BY <1>2, <1>3, ChosenIn, FS_RemoveElement, FS_CardinalityType
  <2> QED
    BY <2>1
<1> QED
  BY <1>1, <1>4, <1>5, <1>6, <1>7

-----------------------------------------------------------------------------
(* Types, and what one step may do to the registry.                        *)

Offering == OfferType \cup {NoOffer}
Reason == {"quota", "other"}
RegistrationType ==
  [count : Nat, providers : [Providers -> Nat],
   web : WebSearch, webOf : [Providers -> WebSearch],
   quota : [Clients -> Nat], suspended : [Clients -> {"no"} \cup Reason]]
AuthType == [epoch : Nat, inputs : Inputs \cup {Off, Gone}]
WorkerType ==
  [pc : {"idle", "snapshot", "fence", "resolve", "publish", "forget"},
   snap : AuthType, fence : Nat, offer : Offering, left : 0..2]
Call == ({"clear", "resume", "quota"} \X Clients \X Models)
          \cup ({"suspend"} \X Clients \X Models \X Reason)

RegistryTypes ==
  /\ clock \in Nat
  /\ models \in [Models -> RegistrationType]
  /\ clients \in [Clients -> [offer : Offering, epoch : Nat]]
  /\ cache \in [valid : BOOLEAN, list : SUBSET Models, expires : Nat]

FlowTypes ==
  /\ catalog \in 1..MaxCatalog
  /\ auth \in AuthType
  /\ workers \in [Worker -> WorkerType]

\* An attempt is of a credential that is present: the goroutine of updates, which
\* is the one that removes it, is at work on it, and the other has a snapshot.
Busy == {"snapshot", "fence", "resolve", "publish"}
FlowSound ==
  /\ \A w \in Worker : workers[w].pc \in Busy => workers[w].left \in {1, 2}
  /\ \A w \in Worker : workers[w].pc \in {"fence", "resolve"} =>
                         workers[w].snap.inputs # Gone
  /\ workers["updates"].pc \in Busy => Present
  /\ workers["catalog"].pc # "forget"

MarkTypes ==
  /\ running \subseteq Clients \X Models
  /\ marks \subseteq Seq(Call) \ {<<>>}

TypeOK == RegistryTypes /\ FlowTypes /\ FlowSound /\ MarkTypes

LEMMA OfferTypes ==
  /\ \A i \in Inputs, v \in 1..MaxCatalog : Offers[i][v] \in Offering
  /\ OtherOffer \in Offering /\ NoOffer \in Offering
  /\ NoOffer \notin OfferType
  BY ModelRegistryAssumption, ModelRegistrationAssumption
  DEF Offering, OfferType, NoOffer

LEMMA NoModelType == NoModel \in RegistrationType
  BY DEF NoModel, RegistrationType, WebSearch

LEMMA MergeType ==
  ASSUME NEW S PROVE Merge(S) \in WebSearch
  BY DEF Merge, WebSearch

LEMMA MinPair ==
  ASSUME NEW x \in Nat, NEW y \in Nat
  PROVE  Min({x, y}) = IF x <= y THEN x ELSE y
  BY DEF Min

LEMMA MergeSame ==
  ASSUME NEW S, NEW T, "yes" \in S <=> "yes" \in T, "no" \in S <=> "no" \in T
  PROVE  Merge(S) = Merge(T)
  BY DEF Merge

\* A sum, with one client set apart.
LEMMA SumApart ==
  ASSUME NEW S, IsFiniteSet(S), NEW F, \A x \in S : F[x] \in Nat, NEW c
  PROVE  SumFunctionOnSet(F, S) =
           (IF c \in S THEN F[c] ELSE 0) + SumFunctionOnSet(F, S \ {c})
<1>1. CASE c \in S
  BY <1>1, SumRemove
<1>2. CASE c \notin S
  <2>1. S \ {c} = S /\ SumFunctionOnSet(F, S) \in Nat
    BY <1>2, SumType
  <2> QED
    BY <1>2, <2>1
<1> QED
  BY <1>1, <1>2

-----------------------------------------------------------------------------
(* Replacing the offer of a client.  The operators below are those that    *)
(* RegistrationsExact names, of clients k.                                 *)

ClientsType == [Clients -> [offer : Offering, epoch : Nat]]
Times(k, m) == [c \in Clients |-> k[c].offer.times[m]]
MembersOf(k, m) == {c \in Clients : k[c].offer.times[m] > 0}
Through(k, m, p) == {c \in MembersOf(k, m) : k[c].offer.provider = p}
Declared(k, m, S) == Merge({k[c].offer.web[m] : c \in S})

\* Registration r of model m is what a count over the clients k yields.
Counts(r, k, m) ==
  /\ r.count = SumFunctionOnSet(Times(k, m), MembersOf(k, m))
  /\ \A p \in Providers :
       r.providers[p] = SumFunctionOnSet(Times(k, m), Through(k, m, p))
Capable(r, k, m) ==
  /\ r.web = Declared(k, m, MembersOf(k, m))
  /\ \A p \in Providers : r.webOf[p] = Declared(k, m, Through(k, m, p))
Exact(r, k, m) == Counts(r, k, m) /\ Capable(r, k, m)

LEMMA ExactParts ==
  /\ RegistrationsExact <=> \A m \in Models : Exact(models[m], clients, m)
  /\ RegistrationsExact' <=> \A m \in Models : Exact(models'[m], clients', m)
  BY DEF RegistrationsExact, Exact, Counts, Capable, Times, MembersOf, Members,
         Through, Declared

\* What a model's clients add up to, with one of them set apart.
LEMMA MembersApart ==
  ASSUME NEW k \in ClientsType, NEW m \in Models, NEW c \in Clients,
         NEW S \in SUBSET MembersOf(k, m)
  PROVE  /\ SumFunctionOnSet(Times(k, m), S \ {c}) \in Nat
         /\ SumFunctionOnSet(Times(k, m), S \ {c}) = 0 => S \ {c} = {}
         /\ SumFunctionOnSet(Times(k, m), S) =
              (IF c \in S THEN k[c].offer.times[m] ELSE 0)
              + SumFunctionOnSet(Times(k, m), S \ {c})
<1> DEFINE F == Times(k, m)
           T == S \ {c}
<1>1. /\ IsFiniteSet(S) /\ IsFiniteSet(T)
      /\ \A d \in S : F[d] \in Nat
      /\ \A d \in T : F[d] \in Nat \ {0}
      /\ F[c] = k[c].offer.times[m]
  <2>1. \A d \in Clients : F[d] = k[d].offer.times[m] /\ F[d] \in Nat
    BY DEF ClientsType, Offering, OfferType, NoOffer, Times
  <2>2. S \subseteq Clients /\ \A d \in S : k[d].offer.times[m] > 0
    BY DEF MembersOf
  <2> QED
    BY <2>1, <2>2, ModelRegistryAssumption, FS_Subset
<1> HIDE DEF F
<1>2. SumFunctionOnSet(F, T) \in Nat /\ SumFunctionOnSet(F, T) >= Cardinality(T)
  <2> HIDE DEF T
  <2> QED
    BY <1>1, SumType, SumAtLeast
<1>3. SumFunctionOnSet(F, T) = 0 => T = {}
  <2>1. Cardinality(T) \in Nat /\ (Cardinality(T) = 0 => T = {})
    BY <1>1, FS_CardinalityType, FS_EmptySet
  <2> QED
    BY <1>2, <2>1
<1>4. SumFunctionOnSet(F, S) = (IF c \in S THEN F[c] ELSE 0) + SumFunctionOnSet(F, T)
  BY <1>1, SumApart
<1> QED
  BY <1>1, <1>2, <1>3, <1>4 DEF F

\* What the other clients add up to stays.
LEMMA OthersSame ==
  ASSUME NEW k \in ClientsType, NEW l \in ClientsType, NEW c \in Clients,
         \A d \in Clients \ {c} : l[d] = k[d], NEW m \in Models
  PROVE  /\ MembersOf(l, m) \ {c} = MembersOf(k, m) \ {c}
         /\ \A p \in Providers : Through(l, m, p) \ {c} = Through(k, m, p) \ {c}
         /\ \A S \in SUBSET Clients : SumFunctionOnSet(Times(l, m), S \ {c}) =
                                      SumFunctionOnSet(Times(k, m), S \ {c})
<1>1. /\ MembersOf(l, m) \ {c} = MembersOf(k, m) \ {c}
      /\ \A p \in Providers : Through(l, m, p) \ {c} = Through(k, m, p) \ {c}
  BY DEF MembersOf, Through
<1>2. ASSUME NEW S \in SUBSET Clients
      PROVE  SumFunctionOnSet(Times(l, m), S \ {c}) = SumFunctionOnSet(Times(k, m), S \ {c})
  <2> DEFINE F == Times(l, m)
             G == Times(k, m)
             T == S \ {c}
  <2>1. IsFiniteSet(T) /\ \A d \in T : F[d] = G[d]
    BY ModelRegistryAssumption, FS_Subset DEF Times
  <2> HIDE DEF F, G, T
  <2>2. SumFunctionOnSet(F, T) = SumFunctionOnSet(G, T)
    BY <2>1, SumSame
  <2> QED
    BY <2>2 DEF F, G, T
<1> QED
  BY <1>1, <1>2

\* The numbers of a reconciled registration: what the client offered is taken
\* away, what it offers is added, each at its provider.
LEMMA ReconciledCounts ==
  ASSUME RegistryTypes, NEW c \in Clients, NEW new \in Offering,
         NEW l \in ClientsType, l[c].offer = new,
         \A d \in Clients \ {c} : l[d] = clients[d],
         NEW m \in Models, Counts(models[m], clients, m)
  PROVE  Counts(Reconciled(m, c, new), l, m)
<1> DEFINE old == clients[c].offer
           was == old.times[m]
           is == new.times[m]
           r == models[m]
           q == Reconciled(m, c, new)
           moved == old.provider # new.provider
           kept == IF moved THEN 0 ELSE Min({was, is})
           F == Times(clients, m)
           G == Times(l, m)
           rest == SumFunctionOnSet(F, MembersOf(clients, m) \ {c})
           restOf(p) == SumFunctionOnSet(F, Through(clients, m, p) \ {c})
<1>1. /\ clients \in ClientsType
      /\ old \in Offering /\ was \in Nat /\ is \in Nat
      /\ old.provider \notin Providers => was = 0
      /\ new.provider \notin Providers => is = 0
      /\ r \in RegistrationType
  <2>1. clients \in ClientsType /\ r \in RegistrationType
    BY DEF RegistryTypes, ClientsType
  <2>2. old \in Offering
    BY <2>1 DEF ClientsType
  <2> QED
    BY <2>1, <2>2 DEF Offering, OfferType, NoOffer
<1>2. /\ MembersOf(l, m) \ {c} = MembersOf(clients, m) \ {c}
      /\ \A p \in Providers : Through(l, m, p) \ {c} = Through(clients, m, p) \ {c}
      /\ \A S \in SUBSET Clients :
           SumFunctionOnSet(G, S \ {c}) = SumFunctionOnSet(F, S \ {c})
  BY <1>1, OthersSame
<1>3. /\ rest \in Nat
      /\ rest = 0 => MembersOf(clients, m) \ {c} = {}
      /\ r.count = was + rest
      /\ SumFunctionOnSet(G, MembersOf(l, m)) = is + rest
  <2>1. /\ c \in MembersOf(clients, m) <=> was > 0
        /\ c \in MembersOf(l, m) <=> is > 0
        /\ MembersOf(l, m) \in SUBSET Clients
    BY <1>1 DEF MembersOf
  <2>2. /\ rest \in Nat
        /\ rest = 0 => MembersOf(clients, m) \ {c} = {}
        /\ SumFunctionOnSet(F, MembersOf(clients, m)) =
             (IF c \in MembersOf(clients, m) THEN was ELSE 0) + rest
    BY <1>1, MembersApart
  <2>3. SumFunctionOnSet(G, MembersOf(l, m)) =
          (IF c \in MembersOf(l, m) THEN is ELSE 0)
          + SumFunctionOnSet(G, MembersOf(l, m) \ {c})
    BY <1>1, MembersApart
  <2>4. SumFunctionOnSet(G, MembersOf(l, m) \ {c}) = rest
    BY <2>1, <1>2
  <2>5. r.count = SumFunctionOnSet(F, MembersOf(clients, m))
    BY DEF Counts
  <2> HIDE DEF rest, was, is, F, G
  <2> QED
    BY <1>1, <2>1, <2>2, <2>3, <2>4, <2>5
<1>4. ASSUME NEW p \in Providers
      PROVE  /\ restOf(p) \in Nat
             /\ MembersOf(clients, m) \ {c} = {} => restOf(p) = 0
             /\ r.providers[p] = (IF old.provider = p THEN was ELSE 0) + restOf(p)
             /\ SumFunctionOnSet(G, Through(l, m, p)) =
                  (IF new.provider = p THEN is ELSE 0) + restOf(p)
  <2>1. /\ c \in Through(clients, m, p) <=> was > 0 /\ old.provider = p
        /\ c \in Through(l, m, p) <=> is > 0 /\ new.provider = p
        /\ Through(l, m, p) \in SUBSET Clients
        /\ Through(l, m, p) \in SUBSET MembersOf(l, m)
        /\ Through(clients, m, p) \in SUBSET MembersOf(clients, m)
    BY <1>1 DEF MembersOf, Through
  <2>2. /\ restOf(p) \in Nat
        /\ SumFunctionOnSet(F, Through(clients, m, p)) =
             (IF c \in Through(clients, m, p) THEN was ELSE 0) + restOf(p)
    BY <1>1, <2>1, MembersApart
  <2>3. SumFunctionOnSet(G, Through(l, m, p)) =
          (IF c \in Through(l, m, p) THEN is ELSE 0)
          + SumFunctionOnSet(G, Through(l, m, p) \ {c})
    BY <1>1, <2>1, MembersApart
  <2>4. SumFunctionOnSet(G, Through(l, m, p) \ {c}) = restOf(p)
    BY <2>1, <1>2
  <2>5. r.providers[p] = SumFunctionOnSet(F, Through(clients, m, p))
    BY DEF Counts
  <2>6. MembersOf(clients, m) \ {c} = {} => restOf(p) = 0
    <3>1. MembersOf(clients, m) \ {c} = {} => Through(clients, m, p) \ {c} = {}
      BY <2>1
    <3> QED
      BY <3>1, SumEmpty
  <2> HIDE DEF restOf, was, is, F, G
  <2> QED
    BY <1>1, <2>1, <2>2, <2>3, <2>4, <2>5, <2>6
<1>5. /\ kept \in 0..was /\ kept \in 0..is
      /\ moved => kept = 0
      /\ ~moved => old.provider = new.provider
  <2>1. Min({was, is}) = IF was <= is THEN was ELSE is
    BY <1>1, MinPair
  <2> HIDE DEF was, is
  <2> QED
    BY <1>1, <2>1
<1>6. /\ q.count = is + rest
      /\ \A p \in Providers : q.providers[p] = (IF new.provider = p THEN is ELSE 0) + restOf(p)
  <2>1. CASE was + is = 0
    <3>1. was = 0 /\ is = 0
      BY <1>1, <2>1
    <3>2. q = r
      BY <3>1 DEF Reconciled, Reconcile
    <3> HIDE DEF q, was, is, restOf, rest
    <3> QED
      BY <1>3, <1>4, <3>1, <3>2
  <2>2. CASE was + is > 0 /\ r.count + is = was
    <3>1. is = 0 /\ rest = 0
      <4> HIDE DEF was, is, rest
      <4> QED
        BY <1>1, <1>3, <2>2
    <3>2. q = NoModel
      BY <2>2 DEF Reconciled, Reconcile
    <3>3. q.count = 0 /\ \A p \in Providers : q.providers[p] = 0
      BY <3>2 DEF NoModel
    <3>4. \A p \in Providers : restOf(p) = 0
      BY <1>3, <1>4, <3>1
    <3> HIDE DEF q, is, restOf, rest
    <3> QED
      BY <3>1, <3>3, <3>4
  <2>3. CASE was + is > 0 /\ r.count + is # was
    <3> DEFINE left == IF was = kept THEN r.providers
                       ELSE [r.providers EXCEPT ![old.provider] = Less(@, was - kept)]
               providers == IF is = kept THEN left
                            ELSE [left EXCEPT ![new.provider] = @ + (is - kept)]
    <3>1. q.count = r.count + is - was /\ q.providers = providers
      BY <1>1, <2>3 DEF Reconciled, Reconcile, RegistrationType
    <3>2. q.count = is + rest
      <4> HIDE DEF q, was, is, rest
      <4> QED
        BY <1>1, <1>3, <3>1
    <3>3. ASSUME NEW p \in Providers
          PROVE  q.providers[p] = (IF new.provider = p THEN is ELSE 0) + restOf(p)
      <4>1. r.providers \in [Providers -> Nat]
        BY <1>1 DEF RegistrationType
      <4>2. /\ left \in [Providers -> Nat]
            /\ left[p] = (IF old.provider = p THEN kept ELSE 0) + restOf(p)
        <5> DEFINE n == r.providers[p]
        <5>1. was = kept => left = r.providers
          OBVIOUS
        <5>2. was # kept =>
                /\ old.provider \in Providers
                /\ left \in [Providers -> Nat]
                /\ left[p] = IF old.provider = p THEN Less(n, was - kept) ELSE n
          <6> HIDE DEF was, kept
          <6> QED
            BY <1>1, <1>5, <4>1 DEF Less
        <5>3. /\ n \in Nat /\ restOf(p) \in Nat
              /\ n = (IF old.provider = p THEN was ELSE 0) + restOf(p)
          BY <1>4, <4>1
        <5> HIDE DEF was, is, kept, restOf, left, n
        <5>4. old.provider = p /\ was # kept => Less(n, was - kept) = kept + restOf(p)
          BY <1>1, <1>5, <5>3 DEF Less
        <5> QED
          BY <1>1, <1>5, <4>1, <5>1, <5>2, <5>3, <5>4 DEF n
      <4>3. providers[p] = (IF new.provider = p THEN is ELSE 0) + restOf(p)
        <5> HIDE DEF was, is, kept, restOf, left
        <5> QED
          BY <1>1, <1>4, <1>5, <4>2
      <4> HIDE DEF q, restOf
      <4> QED
        BY <3>1, <4>3
    <3> HIDE DEF q, restOf, is, rest
    <3> QED
      BY <3>2, <3>3
  <2> HIDE DEF was, is
  <2> QED
    BY <1>1, <2>1, <2>2, <2>3
<1> HIDE DEF q, restOf, rest, is
<1> QED
  BY <1>3, <1>4, <1>6 DEF q, Counts

\* S is the clients l of model m through ps, those of the registry but for c, and
\* base is what c declares, unknown if c is not among them.
Regrouped(m, ps, c, base, l, S) ==
  /\ S \in SUBSET Clients
  /\ \A d \in Clients \ {c} :
       /\ l[d] = clients[d]
       /\ d \in S <=> clients[d].offer.times[m] > 0 /\ clients[d].offer.provider \in ps
  /\ base = IF c \in S THEN l[c].offer.web[m] ELSE "unknown"

LEMMA MergedDeclared ==
  ASSUME NEW c \in Clients, NEW m \in Models, NEW ps, NEW base, NEW l, NEW S,
         Regrouped(m, ps, c, base, l, S)
  PROVE  Merged(m, ps, c, base) = Declared(l, m, S)
<1> USE DEF Regrouped
<1> DEFINE A == {base} \cup {clients[d].offer.web[m] : d \in S \ {c}}
           B == {l[d].offer.web[m] : d \in S}
<1>1. Merged(m, ps, c, base) = Merge(A)
  <2>1. S \ {c} = {d \in Clients \ {c} : /\ clients[d].offer.times[m] > 0
                                         /\ clients[d].offer.provider \in ps}
    OBVIOUS
  <2> QED
    BY <2>1 DEF Merged
<1>2. Declared(l, m, S) = Merge(B)
  BY DEF Declared
<1>3. ASSUME NEW v \in {"yes", "no"} PROVE v \in A <=> v \in B
  <2>1. CASE c \in S
    BY <2>1
  <2>2. CASE c \notin S
    BY <2>2
  <2> QED
    BY <2>1, <2>2
<1>4. Merge(A) = Merge(B)
  <2>1. /\ "yes" \in A <=> "yes" \in B
        /\ "no" \in A <=> "no" \in B
    BY <1>3
  <2> HIDE DEF A, B
  <2> QED
    BY <2>1, MergeSame
<1> QED
  BY <1>1, <1>2, <1>4

\* The capabilities of a reconciled registration.
LEMMA ReconciledCapable ==
  ASSUME RegistryTypes, NEW c \in Clients, NEW new \in Offering,
         NEW l \in ClientsType, l[c].offer = new,
         \A d \in Clients \ {c} : l[d] = clients[d],
         NEW m \in Models, Exact(models[m], clients, m)
  PROVE  Capable(Reconciled(m, c, new), l, m)
<1> DEFINE old == clients[c].offer
           was == old.times[m]
           is == new.times[m]
           r == models[m]
           q == Reconciled(m, c, new)
           moved == old.provider # new.provider
           base == IF is > 0 THEN new.web[m] ELSE "unknown"
<1>1. /\ clients \in ClientsType
      /\ was \in Nat /\ is \in Nat
      /\ r \in RegistrationType
      /\ \A d \in Clients : clients[d].offer.times[m] > 0 => clients[d].offer.provider \in Providers
      /\ is > 0 => new.provider \in Providers
  <2>1. clients \in ClientsType /\ r \in RegistrationType
    BY DEF RegistryTypes, ClientsType
  <2>2. \A d \in Clients : clients[d].offer \in Offering
    BY <2>1 DEF ClientsType
  <2> QED
    BY <2>1, <2>2 DEF Offering, OfferType, NoOffer
<1>2. /\ MembersOf(l, m) \ {c} = MembersOf(clients, m) \ {c}
      /\ \A p \in Providers : Through(l, m, p) \ {c} = Through(clients, m, p) \ {c}
  BY <1>1, OthersSame
<1>3. /\ MembersOf(l, m) \in SUBSET Clients
      /\ c \in MembersOf(l, m) <=> is > 0
      /\ c \in MembersOf(clients, m) <=> was > 0
      /\ \A p \in Providers :
           /\ Through(l, m, p) \in SUBSET Clients
           /\ Through(clients, m, p) \in SUBSET Clients
           /\ c \in Through(l, m, p) <=> is > 0 /\ new.provider = p
           /\ c \in Through(clients, m, p) <=> was > 0 /\ old.provider = p
  BY DEF MembersOf, Through
<1>4. Merged(m, Providers, c, base) = Declared(l, m, MembersOf(l, m))
  <2>1. Regrouped(m, Providers, c, base, l, MembersOf(l, m))
    BY <1>1, <1>3 DEF Regrouped, MembersOf
  <2> QED
    BY <2>1, MergedDeclared
<1>5. ASSUME NEW p \in Providers, NEW b,
             b = IF c \in Through(l, m, p) THEN new.web[m] ELSE "unknown"
      PROVE  Merged(m, {p}, c, b) = Declared(l, m, Through(l, m, p))
  <2>1. Regrouped(m, {p}, c, b, l, Through(l, m, p))
    BY <1>3, <1>5 DEF Regrouped, MembersOf, Through
  <2> QED
    BY <2>1, MergedDeclared
<1>6. ASSUME NEW S \in SUBSET Clients, c \notin S
      PROVE  Declared(l, m, S) = Declared(clients, m, S)
  <2>1. {l[d].offer.web[m] : d \in S} = {clients[d].offer.web[m] : d \in S}
    BY <1>6
  <2> QED
    BY <2>1 DEF Declared
<1>7. \A k : Declared(k, m, {}) = "unknown"
  BY DEF Declared, Merge
<1>8. Counts(q, l, m)
  BY ReconciledCounts DEF Exact
<1>9. /\ r.web = Declared(clients, m, MembersOf(clients, m))
      /\ \A p \in Providers : r.webOf[p] = Declared(clients, m, Through(clients, m, p))
  BY DEF Exact, Capable
<1>10. CASE was + is = 0
  <2>1. was = 0 /\ is = 0
    BY <1>1, <1>10
  <2>2. q = r
    BY <2>1 DEF Reconciled, Reconcile
  <2>3. /\ c \notin MembersOf(clients, m)
        /\ MembersOf(l, m) = MembersOf(clients, m)
    <3>1. c \notin MembersOf(clients, m) /\ c \notin MembersOf(l, m)
      BY <1>3, <2>1
    <3> QED
      BY <1>2, <3>1
  <2>4. ASSUME NEW p \in Providers
        PROVE  /\ c \notin Through(clients, m, p)
               /\ Through(l, m, p) = Through(clients, m, p)
    <3>1. c \notin Through(clients, m, p) /\ c \notin Through(l, m, p)
      BY <1>3, <2>1
    <3> QED
      BY <1>2, <3>1
  <2> QED
    BY <1>3, <1>6, <1>9, <2>2, <2>3, <2>4 DEF Capable
<1>11. CASE was + is > 0 /\ r.count + is = was
  <2>1. q = NoModel
    BY <1>11 DEF Reconciled, Reconcile
  <2>2. MembersOf(l, m) = {}
    <3>1. q.count = 0
      BY <2>1 DEF NoModel
    <3>2. /\ SumFunctionOnSet(Times(l, m), MembersOf(l, m)) = 0
      BY <1>8, <3>1 DEF Counts
    <3>3. /\ SumFunctionOnSet(Times(l, m), MembersOf(l, m) \ {c}) \in Nat
          /\ SumFunctionOnSet(Times(l, m), MembersOf(l, m) \ {c}) = 0 =>
               MembersOf(l, m) \ {c} = {}
          /\ SumFunctionOnSet(Times(l, m), MembersOf(l, m)) =
               (IF c \in MembersOf(l, m) THEN is ELSE 0)
               + SumFunctionOnSet(Times(l, m), MembersOf(l, m) \ {c})
      BY MembersApart
    <3> HIDE DEF is
    <3> QED
      BY <1>1, <1>3, <3>2, <3>3
  <2>3. \A p \in Providers : Through(l, m, p) = {}
    BY <2>2 DEF Through
  <2>4. q.web = "unknown" /\ \A p \in Providers : q.webOf[p] = "unknown"
    BY <2>1 DEF NoModel
  <2> QED
    BY <1>7, <2>2, <2>3, <2>4 DEF Capable
<1>12. CASE was + is > 0 /\ r.count + is # was
  <2>1. /\ q.web = Merged(m, Providers, c, base)
        /\ \A p \in Providers : q.webOf[p] =
             IF p = new.provider /\ is > 0 THEN Merged(m, {p}, c, base)
             ELSE IF p = old.provider /\ was > 0 /\ (moved \/ is = 0)
             THEN IF q.providers[p] = 0 THEN "unknown" ELSE Merged(m, {p}, c, "unknown")
             ELSE r.webOf[p]
    <3> HIDE DEF base
    <3>1. /\ q.web = Merged(m, Providers, c, base)
          /\ \A p \in Providers : q.webOf[p] =
             CASE p = new.provider /\ is > 0 -> Merged(m, {p}, c, base)
               [] p = old.provider /\ was > 0 /\ (moved \/ is = 0) ->
                    IF q.providers[p] = 0 THEN "unknown" ELSE Merged(m, {p}, c, "unknown")
               [] OTHER -> r.webOf[p]
      BY <1>1, <1>12 DEF Reconciled, Reconcile, RegistrationType, base
    <3> HIDE DEF was, is, old, q, r
    <3> QED
      BY <1>1, <3>1
  <2>2. ASSUME NEW p \in Providers
        PROVE  q.webOf[p] = Declared(l, m, Through(l, m, p))
    <3> DEFINE first == p = new.provider /\ is > 0
               second == p = old.provider /\ was > 0 /\ (moved \/ is = 0)
    <3>0. q.webOf[p] = IF first THEN Merged(m, {p}, c, base)
                       ELSE IF second
                       THEN IF q.providers[p] = 0 THEN "unknown"
                            ELSE Merged(m, {p}, c, "unknown")
                       ELSE r.webOf[p]
      BY <2>1
    <3>1. CASE p = new.provider /\ is > 0
      <4>1. c \in Through(l, m, p) /\ base = new.web[m]
        BY <1>3, <3>1
      <4>2. q.webOf[p] = Merged(m, {p}, c, base)
        BY <2>1, <3>1
      <4> HIDE DEF base
      <4> QED
        BY <1>5, <4>1, <4>2
    <3>2. CASE p # new.provider \/ is = 0
      <4>1. c \notin Through(l, m, p)
        BY <1>3, <3>2
      <4>2. Merged(m, {p}, c, "unknown") = Declared(l, m, Through(l, m, p))
        BY <1>5, <4>1
      <4>3. CASE p = old.provider /\ was > 0 /\ (moved \/ is = 0)
        <5>1. q.webOf[p] = IF q.providers[p] = 0 THEN "unknown"
                           ELSE Merged(m, {p}, c, "unknown")
          <6>1. ~first /\ second
            BY <1>1, <3>2, <4>3
          <6> HIDE DEF first, second, q
          <6> QED
            BY <3>0, <6>1
        <5>2. q.providers[p] = 0 => Through(l, m, p) = {}
          <6>1. q.providers[p] = SumFunctionOnSet(Times(l, m), Through(l, m, p))
            BY <1>8 DEF Counts
          <6>2. Through(l, m, p) \in SUBSET MembersOf(l, m) /\ Through(l, m, p) \ {c} = Through(l, m, p)
            BY <4>1 DEF Through
          <6>3. SumFunctionOnSet(Times(l, m), Through(l, m, p) \ {c}) = 0 =>
                  Through(l, m, p) \ {c} = {}
            BY <6>2, MembersApart
          <6> QED
            BY <6>1, <6>2, <6>3
        <5> QED
          BY <1>7, <4>2, <5>1, <5>2
      <4>4. CASE ~(p = old.provider /\ was > 0 /\ (moved \/ is = 0))
        <5>1. q.webOf[p] = r.webOf[p]
          <6>1. ~first /\ ~second
            BY <1>1, <3>2, <4>4
          <6> HIDE DEF first, second, q
          <6> QED
            BY <3>0, <6>1
        <5>2. c \notin Through(clients, m, p)
          <6> HIDE DEF was, is
          <6> QED
            BY <1>1, <1>3, <3>2, <4>4
        <5>3. Through(l, m, p) = Through(clients, m, p)
          BY <1>2, <4>1, <5>2
        <5> QED
          BY <1>3, <1>6, <1>9, <5>1, <5>2, <5>3
      <4> QED
        BY <4>3, <4>4
    <3> QED
      BY <1>1, <3>1, <3>2
  <2> QED
    BY <1>4, <2>1, <2>2 DEF Capable
<1> HIDE DEF was, is
<1> QED
  BY <1>1, <1>10, <1>11, <1>12

LEMMA RegistrationFields ==
  ASSUME NEW r \in RegistrationType, NEW c \in Clients,
         NEW n \in Nat, NEW ps \in [Providers -> Nat], NEW w \in WebSearch,
         NEW ws \in [Providers -> WebSearch], NEW u \in Nat, NEW v \in {"no"} \cup Reason
  PROVE  [r EXCEPT !.count = n, !.providers = ps, !.web = w, !.webOf = ws,
            !.quota[c] = u, !.suspended[c] = v] \in RegistrationType
<1> DEFINE qs == [r.quota EXCEPT ![c] = u]
           ss == [r.suspended EXCEPT ![c] = v]
           x == [r EXCEPT !.count = n, !.providers = ps, !.web = w, !.webOf = ws,
                   !.quota[c] = u, !.suspended[c] = v]
           y == [r EXCEPT !.count = n, !.providers = ps, !.web = w, !.webOf = ws,
                   !.quota = qs, !.suspended = ss]
<1>1. qs \in [Clients -> Nat] /\ ss \in [Clients -> {"no"} \cup Reason]
  BY DEF RegistrationType
<1>2. x = y
  BY DEF RegistrationType
<1>3. y \in RegistrationType
  <2> HIDE DEF qs, ss
  <2> QED
    BY <1>1 DEF RegistrationType
<1> HIDE DEF x, y
<1> QED
  BY <1>2, <1>3 DEF x

LEMMA ReconciledType ==
  ASSUME RegistryTypes, NEW c \in Clients, NEW new \in Offering,
         NEW l \in ClientsType, NEW m \in Models, Exact(Reconciled(m, c, new), l, m)
  PROVE  Reconciled(m, c, new) \in RegistrationType
<1> DEFINE q == Reconciled(m, c, new)
           r == models[m]
           old == clients[c].offer
<1>1. r \in RegistrationType
  BY DEF RegistryTypes
<1>2. q.count \in Nat /\ \A p \in Providers : q.providers[p] \in Nat
  <2>1. ASSUME NEW S \in SUBSET MembersOf(l, m)
        PROVE  SumFunctionOnSet(Times(l, m), S) \in Nat
    <3> DEFINE F == Times(l, m)
    <3>1. IsFiniteSet(S) /\ \A d \in S : F[d] \in Nat
      BY ModelRegistryAssumption, FS_Subset
      DEF ClientsType, Offering, OfferType, NoOffer, Times, MembersOf
    <3> HIDE DEF F
    <3>2. SumFunctionOnSet(F, S) \in Nat
      BY <3>1, SumType
    <3> QED
      BY <3>2 DEF F
  <2>2. \A p \in Providers : Through(l, m, p) \in SUBSET MembersOf(l, m)
    BY DEF Through
  <2> QED
    BY <2>1, <2>2 DEF Exact, Counts
<1>3. q.web \in WebSearch /\ \A p \in Providers : q.webOf[p] \in WebSearch
  BY MergeType DEF Exact, Capable, Declared
<1> DEFINE was == old.times[m]
           is == new.times[m]
           moved == old.provider # new.provider
           kept == IF moved THEN 0 ELSE Min({was, is})
           left == IF was = kept THEN r.providers
                   ELSE [r.providers EXCEPT ![old.provider] = Less(@, was - kept)]
           n == r.count + is - was
           ps == IF is = kept THEN left
                 ELSE [left EXCEPT ![new.provider] = @ + (is - kept)]
           base == IF is > 0 THEN new.web[m] ELSE "unknown"
           w == Merged(m, Providers, c, base)
           ws == [p \in Providers |->
                   CASE p = new.provider /\ is > 0 -> Merged(m, {p}, c, base)
                     [] p = old.provider /\ was > 0 /\ (moved \/ is = 0) ->
                          IF ps[p] = 0 THEN "unknown" ELSE Merged(m, {p}, c, "unknown")
                     [] OTHER -> r.webOf[p]]
           u == IF old # NoOffer THEN 0 ELSE r.quota[c]
           v == IF old # NoOffer THEN "no" ELSE r.suspended[c]
           x == [r EXCEPT !.count = n, !.providers = ps, !.web = w, !.webOf = ws,
                   !.quota[c] = u, !.suspended[c] = v]
<1>4. q = r \/ q = NoModel \/ q = x
  <2>1. q = IF ~(was + is > 0) THEN r
            ELSE IF r.count + is = was THEN NoModel
            ELSE [r EXCEPT !.count = @ + is - was, !.providers = ps, !.web = w,
                    !.webOf = [p \in Providers |->
                       CASE p = new.provider /\ is > 0 -> Merged(m, {p}, c, base)
                         [] p = old.provider /\ was > 0 /\ (moved \/ is = 0) ->
                              IF ps[p] = 0 THEN "unknown" ELSE Merged(m, {p}, c, "unknown")
                         [] OTHER -> @[p]],
                    !.quota[c] = IF old # NoOffer THEN 0 ELSE @,
                    !.suspended[c] = IF old # NoOffer THEN "no" ELSE @]
    BY DEF Reconciled, Reconcile
  <2> HIDE DEF q, was, is, moved, ps, w, base
  <2> QED
    BY <1>1, <2>1 DEF RegistrationType
<1>5. CASE q = r
  BY <1>1, <1>5
<1>6. CASE q = NoModel
  BY <1>6, NoModelType
<1>7. CASE q = x
  <2>1. ps = [p \in Providers |-> ps[p]]
    <3>1. r.providers \in [Providers -> Nat]
      BY <1>1 DEF RegistrationType
    <3>2. left = [p \in Providers |-> left[p]]
      <4> HIDE DEF kept, was
      <4> QED
        BY <3>1
    <3> HIDE DEF kept, is, left
    <3> QED
      BY <3>2
  <2>2. ws = [p \in Providers |-> ws[p]]
    OBVIOUS
  <2>3. u \in Nat /\ v \in {"no"} \cup Reason
    BY <1>1 DEF RegistrationType
  <2> HIDE DEF q, n, ps, w, ws, u, v
  <2>4. q.count = n /\ q.providers = ps /\ q.web = w /\ q.webOf = ws
    BY <1>1, <1>7 DEF RegistrationType
  <2>5. n \in Nat /\ ps \in [Providers -> Nat] /\ w \in WebSearch /\ ws \in [Providers -> WebSearch]
    BY <1>2, <1>3, <2>1, <2>2, <2>4
  <2>6. x \in RegistrationType
    <3> HIDE DEF r
    <3> QED
      BY <1>1, <2>3, <2>5, RegistrationFields
  <2> HIDE DEF x
  <2> QED
    BY <1>7, <2>6 DEF q
<1> HIDE DEF q, x
<1> QED
  BY <1>4, <1>5, <1>6, <1>7 DEF q

\* Replacing an offer keeps every registration exact, and its type.
LEMMA ReplaceExact ==
  ASSUME RegistryTypes, RegistrationsExact, NEW c \in Clients, NEW new \in Offering,
         NEW e \in Nat, Replace(c, new, e)
  PROVE  /\ models' \in [Models -> RegistrationType]
         /\ clients' \in ClientsType
         /\ RegistrationsExact'
<1> DEFINE l == clients'
<1>1. /\ clients \in ClientsType
      /\ l \in ClientsType /\ l[c].offer = new /\ \A d \in Clients \ {c} : l[d] = clients[d]
  BY DEF RegistryTypes, ClientsType, Replace
<1>2. ASSUME NEW m \in Models
      PROVE  models'[m] \in RegistrationType /\ Exact(models'[m], l, m)
  <2>1. models'[m] = Reconciled(m, c, new)
    BY DEF Replace
  <2>2. Exact(models[m], clients, m) /\ Counts(models[m], clients, m)
    BY ExactParts DEF Exact
  <2> HIDE DEF l
  <2>3. Exact(Reconciled(m, c, new), l, m)
    BY <1>1, <2>2, ReconciledCounts, ReconciledCapable DEF Exact
  <2> QED
    BY <1>1, <2>1, <2>3, ReconciledType
<1>3. models' = [m \in Models |-> models'[m]]
  BY DEF Replace
<1> QED
  BY <1>1, <1>2, <1>3, ExactParts

-----------------------------------------------------------------------------
(* What the actions do to the registry, and the types.                     *)

\* A mark touches the quota or the suspensions of one model.
Marking(m, r) ==
  /\ Mark(m, r)
  /\ r.count = models[m].count /\ r.providers = models[m].providers
  /\ r.web = models[m].web /\ r.webOf = models[m].webOf

LEMMA CallParts ==
  ASSUME NEW k \in Call
  PROVE  /\ k[1] \in {"clear", "resume", "quota", "suspend"}
         /\ k[2] \in Clients /\ k[3] \in Models
         /\ k[1] = "suspend" => k[4] \in Reason
  BY DEF Call

LEMMA ApplyMarkChange ==
  ASSUME TypeOK, NEW k \in marks, ApplyMark(k)
  PROVE  \/ UNCHANGED registry
         \/ \E m \in Models, r \in RegistrationType : Marking(m, r)
<1> DEFINE c == Head(k)[2]
           m == Head(k)[3]
<1>1. Head(k) \in Call
  BY DEF TypeOK, MarkTypes
<1>2. /\ Head(k)[1] \in {"clear", "resume", "quota", "suspend"}
      /\ c \in Clients /\ m \in Models
      /\ Head(k)[1] = "suspend" => Head(k)[4] \in Reason
  BY <1>1, CallParts
<1>3. models[m] \in RegistrationType /\ clock \in Nat
  BY <1>2 DEF TypeOK, RegistryTypes
<1>4. ASSUME NEW n \in Nat
      PROVE  LET r == [models[m] EXCEPT !.quota[c] = n] IN
             /\ r \in RegistrationType
             /\ Mark(m, r) => Marking(m, r)
  <2> DEFINE qs == [models[m].quota EXCEPT ![c] = n]
  <2>1. qs \in [Clients -> Nat]
    BY <1>3 DEF RegistrationType
  <2>2. [models[m] EXCEPT !.quota = qs] \in RegistrationType
    <3> HIDE DEF qs
    <3> QED
      BY <1>3, <2>1 DEF RegistrationType
  <2> QED
    BY <1>3, <2>2 DEF RegistrationType, Marking
<1>5. ASSUME NEW n \in {"no"} \cup Reason
      PROVE  LET r == [models[m] EXCEPT !.suspended[c] = n] IN
             /\ r \in RegistrationType
             /\ Mark(m, r) => Marking(m, r)
  <2> DEFINE ss == [models[m].suspended EXCEPT ![c] = n]
  <2>1. ss \in [Clients -> {"no"} \cup Reason]
    BY <1>3 DEF RegistrationType
  <2>2. [models[m] EXCEPT !.suspended = ss] \in RegistrationType
    <3> HIDE DEF ss
    <3> QED
      BY <1>3, <2>1 DEF RegistrationType
  <2> QED
    BY <1>3, <2>2 DEF RegistrationType, Marking
<1>6. CASE Head(k)[1] = "clear"
  <2>1. ClearModelQuotaExceeded(c, m)
    BY <1>6 DEF ApplyMark
  <2> QED
    BY <1>2, <1>4, <2>1 DEF ClearModelQuotaExceeded
<1>7. CASE Head(k)[1] = "resume"
  <2>1. ResumeClientModel(c, m)
    BY <1>7 DEF ApplyMark
  <2> QED
    BY <1>2, <1>5, <2>1 DEF ResumeClientModel
<1>8. CASE Head(k)[1] = "quota"
  <2>1. SetModelQuotaExceeded(c, m)
    BY <1>8 DEF ApplyMark
  <2> QED
    BY <1>2, <1>3, <1>4, <2>1 DEF SetModelQuotaExceeded
<1>9. CASE Head(k)[1] = "suspend"
  <2>1. SuspendClientModel(c, m, Head(k)[4])
    BY <1>9 DEF ApplyMark
  <2> QED
    BY <1>2, <1>5, <1>9, <2>1 DEF SuspendClientModel
<1> QED
  BY <1>2, <1>6, <1>7, <1>8, <1>9

\* Every step replaces the offer of the credential, marks one model, lists the
\* models, or leaves the registry alone; only in the last case may time pass.
LEMMA RegistryActions ==
  ASSUME TypeOK, [Next]_vars
  PROVE  \/ /\ \/ \E new \in Offering, e \in Nat : Replace(Auth, new, e)
               \/ \E m \in Models, r \in RegistrationType : Marking(m, r)
               \/ GetAvailableModels
            /\ clock' = clock
         \/ UNCHANGED registry /\ clock' \in {clock, clock + 1}
<1>1. \A w \in Worker : workers[w].offer \in Offering
  BY DEF TypeOK, FlowTypes, WorkerType
<1>2. clients[Auth].epoch \in Nat
  BY ModelRegistrationAssumption DEF TypeOK, RegistryTypes
<1>3. ASSUME NEW new \in Offering, RegisterClient(Auth, new)
      PROVE  \E x \in Offering, e \in Nat : Replace(Auth, x, e)
  <2>1. NoOffer \in Offering
    BY OfferTypes
  <2> QED
    BY <1>2, <1>3, <2>1 DEF RegisterClient, UnregisterClient
<1>4. CASE ApplyRemoval
  <2>1. UnregisterClient(Auth) /\ clock' = clock
    BY <1>4 DEF ApplyRemoval
  <2>2. RegisterClient(Auth, NoOffer)
    BY <2>1 DEF RegisterClient
  <2> QED
    BY <1>3, <2>1, <2>2, OfferTypes
<1>5. CASE \E w \in Worker : Publish(w)
  BY <1>1, <1>3, <1>5 DEF Publish
<1>6. CASE \E k \in marks : ApplyMark(k)
  BY <1>6, ApplyMarkChange DEF ApplyMark
<1>7. CASE ListModels
  BY <1>7 DEF ListModels, GetAvailableModels
<1>8. CASE Tick
  BY <1>8 DEF Tick
<1>9. CASE \/ \E i \in Inputs \cup {Off} : ApplyUpdate(i)
           \/ Forget
           \/ CatalogChanges
           \/ \E w \in Worker : Snapshot(w) \/ TakeFence(w) \/ Resolve(w)
           \/ \E c \in Clients, m \in Models : Dispatch(c, m)
           \/ \E r \in running, o \in {"ok", "quota", "other"} : MarkResult(r, o)
           \/ UNCHANGED vars
  BY <1>9 DEF ApplyUpdate, Forget, CatalogChanges, Snapshot, TakeFence, Resolve,
              Dispatch, MarkResult, Only, vars
<1> QED
  BY <1>4, <1>5, <1>6, <1>7, <1>8, <1>9 DEF Next

-----------------------------------------------------------------------------
(* The initial state.                                                      *)

LEMMA SumConstant ==
  ASSUME NEW S, IsFiniteSet(S), NEW t \in Nat, NEW F, \A x \in S : F[x] = t
  PROVE  SumFunctionOnSet(F, S) = t * Cardinality(S)
<1> DEFINE Bad == {T \in SUBSET S : SumFunctionOnSet(F, T) # t * Cardinality(T)}
<1> SUFFICES ASSUME Bad # {} PROVE FALSE
  OBVIOUS
<1>1. PICK T \in Bad : \A U \in Bad : U \subseteq T => U = T
  <2>1. Bad \in SUBSET SUBSET S
    OBVIOUS
  <2> HIDE DEF Bad
  <2> QED
    BY <2>1, MinSubset
<1>2. IsFiniteSet(T)
  BY FS_Subset
<1>3. T # {}
  <2>1. SumFunctionOnSet(F, {}) = 0 /\ Cardinality({}) = 0 /\ t * 0 = 0
    BY SumEmpty, FS_EmptySet
  <2> QED
    BY <2>1
<1> DEFINE U == T \ {Chosen(T)}
<1>4. /\ U \in SUBSET S /\ U # T /\ Chosen(T) \in S /\ IsFiniteSet(U)
      /\ SumFunctionOnSet(F, T) = F[Chosen(T)] + SumFunctionOnSet(F, U)
  BY <1>2, <1>3, ChosenIn, SumChosen, FS_Subset
<1>5. SumFunctionOnSet(F, U) = t * Cardinality(U)
  BY <1>1, <1>4
<1>6. Cardinality(U) \in Nat /\ Cardinality(T) = Cardinality(U) + 1
  <2>1. Cardinality(U) = Cardinality(T) - 1 /\ Cardinality(T) \in Nat
    BY <1>2, <1>3, ChosenIn, FS_RemoveElement, FS_CardinalityType
  <2>2. Cardinality(U) \in Nat
    BY <1>4, FS_CardinalityType
  <2> QED
    BY <2>1, <2>2
<1>7. F[Chosen(T)] = t
  BY <1>4
<1>8. ASSUME NEW n \in Nat PROVE t + t * n = t * (n + 1)
  OBVIOUS
<1>9. SumFunctionOnSet(F, T) = t * Cardinality(T)
  <2> HIDE DEF U
  <2> QED
    BY <1>4, <1>5, <1>6, <1>7, <1>8
<1> QED
  BY <1>9

LEMMA InitRegistry ==
  ASSUME Init
  PROVE  RegistryTypes /\ RegistrationsExact
<1> DEFINE others == Clients \ {Auth}
           t(m) == OtherOffer.times[m]
           of(m) == t(m) * Cardinality(others)
           at == OtherOffer.provider
<1>1. OtherOffer \in OfferType /\ Auth \in Clients
  BY ModelRegistrationAssumption
<1>2. /\ at \in Providers
      /\ \A m \in Models : t(m) \in Nat /\ OtherOffer.web[m] \in WebSearch
  BY <1>1 DEF OfferType
<1>3. IsFiniteSet(others) /\ Cardinality(others) \in Nat
  BY ModelRegistryAssumption, FS_Subset, FS_CardinalityType
<1>4. /\ clients = [c \in Clients |-> [offer |-> IF c = Auth THEN NoOffer ELSE OtherOffer,
                                       epoch |-> IF c = Auth THEN 0 ELSE 1]]
      /\ clients \in ClientsType
  BY OfferTypes DEF Init, ClientsType
<1>5. ASSUME NEW m \in Models
      PROVE  /\ models[m] \in RegistrationType
             /\ Exact(models[m], clients, m)
  <2>1. of(m) \in Nat
    <3>1. \A x, y \in Nat : x * y \in Nat
      OBVIOUS
    <3> QED
      BY <1>2, <1>3, <3>1
  <2>2. ASSUME NEW S \in SUBSET others
        PROVE  /\ SumFunctionOnSet(Times(clients, m), S) = t(m) * Cardinality(S)
               /\ S # {} => Declared(clients, m, S) = OtherOffer.web[m]
               /\ S = {} => Declared(clients, m, S) = "unknown"
    <3> DEFINE F == Times(clients, m)
               x == t(m)
    <3>1. IsFiniteSet(S)
      BY <1>3, FS_Subset
    <3>2. \A c \in S : F[c] = x
      BY <1>4 DEF Times
    <3>3. SumFunctionOnSet(F, S) = x * Cardinality(S)
      <4>1. x \in Nat
        BY <1>2
      <4> HIDE DEF F, x
      <4> QED
        BY <3>1, <3>2, <4>1, SumConstant
    <3>4. S # {} => {clients[c].offer.web[m] : c \in S} = {OtherOffer.web[m]}
      BY <1>4
    <3>5. \A w \in WebSearch : Merge({w}) = w
      BY DEF Merge, WebSearch
    <3>6. S = {} => Declared(clients, m, S) = "unknown"
      BY DEF Declared, Merge
    <3> QED
      BY <1>2, <3>3, <3>4, <3>5, <3>6 DEF Declared
  <2>3. models[m] = IF of(m) = 0 THEN NoModel
                    ELSE [NoModel EXCEPT !.count = of(m), !.providers[at] = of(m),
                            !.web = OtherOffer.web[m], !.webOf[at] = OtherOffer.web[m]]
    BY DEF Init
  <2>4. /\ MembersOf(clients, m) = IF t(m) > 0 THEN others ELSE {}
        /\ \A p \in Providers : Through(clients, m, p) =
             IF p = at THEN MembersOf(clients, m) ELSE {}
    <3>1. \A c \in Clients : clients[c].offer.times[m] > 0 <=> c # Auth /\ t(m) > 0
      BY <1>4 DEF NoOffer
    <3>2. MembersOf(clients, m) = IF t(m) > 0 THEN others ELSE {}
      BY <3>1 DEF MembersOf
    <3> QED
      BY <1>4, <3>2 DEF Through
  <2>5. CASE of(m) = 0
    <3>1. MembersOf(clients, m) = {}
      <4>1. t(m) = 0 \/ Cardinality(others) = 0
        <5>1. \A x, y \in Nat : x * y = 0 => x = 0 \/ y = 0
          OBVIOUS
        <5> QED
          BY <1>2, <1>3, <2>5, <5>1
      <4>2. Cardinality(others) = 0 => others = {}
        BY <1>3, FS_EmptySet
      <4> HIDE DEF t, others
      <4> QED
        BY <2>4, <4>1, <4>2
    <3>2. \A p \in Providers : Through(clients, m, p) = {}
      BY <2>4, <3>1
    <3>3. /\ SumFunctionOnSet(Times(clients, m), {}) = 0
          /\ Declared(clients, m, {}) = "unknown"
      BY <2>2, SumEmpty
    <3>4. models[m] = NoModel
      BY <2>3, <2>5
    <3>5. /\ NoModel.count = 0 /\ NoModel.web = "unknown"
          /\ \A p \in Providers : NoModel.providers[p] = 0 /\ NoModel.webOf[p] = "unknown"
      BY DEF NoModel
    <3>6. Exact(NoModel, clients, m)
      BY <3>1, <3>2, <3>3, <3>5 DEF Exact, Counts, Capable
    <3> QED
      BY <3>4, <3>6, NoModelType
  <2>6. CASE of(m) # 0
    <3>1. t(m) > 0 /\ others # {}
      <4>1. \A y \in Nat : 0 * y = 0
        OBVIOUS
      <4>2. \A x \in Nat : x * 0 = 0
        OBVIOUS
      <4>3. t(m) # 0 /\ Cardinality(others) # 0
        BY <1>2, <1>3, <2>6, <4>1, <4>2
      <4> QED
        BY <1>2, <4>3, FS_EmptySet
    <3>2. MembersOf(clients, m) = others
      BY <2>4, <3>1
    <3> DEFINE n == of(m)
               w == OtherOffer.web[m]
               r == models[m]
    <3>3. /\ r.count = n /\ r.web = w
          /\ \A p \in Providers : /\ r.providers[p] = IF p = at THEN n ELSE 0
                                  /\ r.webOf[p] = IF p = at THEN w ELSE "unknown"
      <4>1. r = [NoModel EXCEPT !.count = n, !.providers[at] = n, !.web = w, !.webOf[at] = w]
        BY <2>3, <2>6
      <4>2. \A p \in Providers : NoModel.providers[p] = 0 /\ NoModel.webOf[p] = "unknown"
        BY DEF NoModel
      <4> HIDE DEF n, w, at, r
      <4>3. /\ r.count = n /\ r.web = w
            /\ r.providers = [NoModel.providers EXCEPT ![at] = n]
            /\ r.webOf = [NoModel.webOf EXCEPT ![at] = w]
        BY <4>1, NoModelType DEF RegistrationType
      <4>4. NoModel.providers \in [Providers -> Nat] /\ NoModel.webOf \in [Providers -> WebSearch]
        BY NoModelType DEF RegistrationType
      <4> QED
        BY <1>2, <4>2, <4>3, <4>4
    <3>4. r \in RegistrationType
      <4>1. n \in Nat /\ w \in WebSearch
        BY <1>2, <2>1
      <4>2. r = [NoModel EXCEPT !.count = n, !.providers[at] = n, !.web = w, !.webOf[at] = w]
        BY <2>3, <2>6
      <4> DEFINE ps == [NoModel.providers EXCEPT ![at] = n]
                 ws == [NoModel.webOf EXCEPT ![at] = w]
      <4>3. ps \in [Providers -> Nat] /\ ws \in [Providers -> WebSearch]
        <5> HIDE DEF n, w, at
        <5> QED
          BY <1>2, <4>1, NoModelType DEF RegistrationType
      <4>4. r = [NoModel EXCEPT !.count = n, !.providers = ps, !.web = w, !.webOf = ws]
        <5> HIDE DEF n, w, at, r
        <5> QED
          BY <4>2, NoModelType DEF RegistrationType
      <4> HIDE DEF n, w, r, ps, ws
      <4> QED
        BY <4>1, <4>3, <4>4, NoModelType DEF RegistrationType
    <3>5. /\ SumFunctionOnSet(Times(clients, m), others) = n
          /\ Declared(clients, m, others) = w
      BY <2>2, <3>1
    <3>6. /\ SumFunctionOnSet(Times(clients, m), {}) = 0
          /\ Declared(clients, m, {}) = "unknown"
      BY <2>2, SumEmpty
    <3>7. Exact(r, clients, m)
      <4> HIDE DEF r, n, w, others, at
      <4> QED
        BY <2>4, <3>2, <3>3, <3>5, <3>6 DEF Exact, Counts, Capable
    <3> QED
      BY <3>4, <3>7
  <2> QED
    BY <2>5, <2>6
<1>6. models \in [Models -> RegistrationType]
  <2>1. models = [m \in Models |-> models[m]]
    BY DEF Init
  <2> QED
    BY <1>5, <2>1
<1>7. clock \in Nat /\ cache \in [valid : BOOLEAN, list : SUBSET Models, expires : Nat]
  BY DEF Init, NoCache
<1>8. RegistryTypes
  BY <1>4, <1>6, <1>7 DEF RegistryTypes, ClientsType
<1> QED
  BY <1>5, <1>8, ExactParts

-----------------------------------------------------------------------------
(* The list of available models and its cache.                             *)

\* A non-empty set of natural numbers has a least one.
LEMMA LeastOf ==
  ASSUME NEW S \in SUBSET Nat, S # {}
  PROVE  Min(S) \in S /\ \A x \in S : Min(S) <= x
<1>1. PICK b \in S : TRUE
  OBVIOUS
<1> DEFINE T == {0..k : k \in {j \in S : j <= b}}
           B == 0..b
<1>2. T \in SUBSET SUBSET B /\ T # {}
  <2>1. 0..b \in T
    BY <1>1
  <2>2. \A k \in S : k <= b => 0..k \in SUBSET (0..b)
    BY <1>1
  <2> QED
    BY <2>1, <2>2
<1>3. IsFiniteSet(B)
  BY FS_Interval
<1>4. \E x \in T : \A y \in T : y \subseteq x => y = x
  <2> HIDE DEF T, B
  <2> QED
    BY <1>2, <1>3, MinSubset
<1>5. PICK k \in S : /\ k <= b
                     /\ \A y \in T : y \subseteq 0..k => y = 0..k
  BY <1>4
<1>6. ASSUME NEW j \in S PROVE k <= j
  <2> SUFFICES ASSUME j < k PROVE FALSE
    OBVIOUS
  <2>1. j <= b /\ 0..j \subseteq 0..k
    BY <1>1, <1>5
  <2>2. 0..j = 0..k
    BY <1>5, <2>1
  <2>3. k \in 0..k /\ k \notin 0..j
    OBVIOUS
  <2> QED
    BY <2>2, <2>3
<1>7. \E x \in S : \A y \in S : x <= y
  BY <1>6
<1> QED
  BY <1>7 DEF Min

\* The list is to be built anew when the first client recovers.
LEMMA RecoveryBound ==
  ASSUME clock \in Nat, models \in [Models -> RegistrationType]
  PROVE  /\ NextRecovery \in Nat
         /\ \A m \in Models : \A c \in OutOfQuota(m) :
              /\ NextRecovery # 0
              /\ NextRecovery <= models[m].quota[c] + QuotaWindow
<1> DEFINE recoveries ==
             UNION {{models[m].quota[c] + QuotaWindow : c \in OutOfQuota(m)} : m \in Models}
<1>1. QuotaWindow \in Nat \ {0}
  BY ModelRegistryAssumption
<1>2. \A m \in Models, c \in Clients : models[m].quota[c] \in Nat
  BY DEF RegistrationType
<1>3. /\ recoveries \in SUBSET (Nat \ {0})
      /\ \A m \in Models : \A c \in OutOfQuota(m) :
           models[m].quota[c] + QuotaWindow \in recoveries
  BY <1>1, <1>2 DEF OutOfQuota
<1>4. NextRecovery = IF recoveries = {} THEN 0 ELSE Min(recoveries)
  BY DEF NextRecovery
<1> HIDE DEF recoveries
<1>5. recoveries # {} => /\ Min(recoveries) \in recoveries
                         /\ \A x \in recoveries : Min(recoveries) <= x
  BY <1>3, LeastOf
<1> QED
  BY <1>3, <1>4, <1>5

-----------------------------------------------------------------------------
(* Types and exactness, together: a count is a natural number because it   *)
(* counts what is there.                                                   *)

LEMMA InitTypes ==
  ASSUME Init
  PROVE  TypeOK
<1>1. RegistryTypes
  BY InitRegistry
<1>2. NoAuth \in AuthType /\ IdleWorker \in WorkerType
  BY OfferTypes DEF NoAuth, AuthType, IdleWorker, WorkerType
<1>3. FlowTypes /\ FlowSound
  <2>1. 1 \in 1..MaxCatalog
    BY ModelRegistrationAssumption
  <2> QED
    BY <1>2, <2>1
    DEF Init, FlowTypes, FlowSound, Busy, Worker, IdleWorker
<1>4. MarkTypes
  BY DEF Init, MarkTypes
<1> QED
  BY <1>1, <1>3, <1>4 DEF TypeOK

LEMMA RegistryStep ==
  ASSUME TypeOK, RegistrationsExact, [Next]_vars
  PROVE  RegistryTypes' /\ RegistrationsExact'
<1>1. /\ clock \in Nat /\ models \in [Models -> RegistrationType]
      /\ clients \in ClientsType
      /\ cache \in [valid : BOOLEAN, list : SUBSET Models, expires : Nat]
  BY DEF TypeOK, RegistryTypes, ClientsType
<1>2. NoCache \in [valid : BOOLEAN, list : SUBSET Models, expires : Nat]
  BY DEF NoCache
<1>3. CASE clock' = clock /\ \E new \in Offering, e \in Nat : Replace(Auth, new, e)
  <2>1. PICK new \in Offering, e \in Nat : Replace(Auth, new, e)
    BY <1>3
  <2>2. cache' = NoCache
    BY <2>1 DEF Replace, Invalidate
  <2>3. RegistryTypes /\ Auth \in Clients
    BY ModelRegistrationAssumption DEF TypeOK
  <2>4. /\ models' \in [Models -> RegistrationType]
        /\ clients' \in ClientsType
        /\ RegistrationsExact'
    BY <2>1, <2>3, ReplaceExact
  <2> QED
    BY <1>1, <1>2, <1>3, <2>2, <2>4 DEF RegistryTypes, ClientsType
<1>4. CASE clock' = clock /\ \E m \in Models, r \in RegistrationType : Marking(m, r)
  <2>1. PICK m \in Models, r \in RegistrationType : Marking(m, r)
    BY <1>4
  <2>2. /\ models' = [models EXCEPT ![m] = r] /\ cache' = NoCache /\ clients' = clients
    BY <2>1 DEF Marking, Mark, Invalidate
  <2>3. RegistryTypes'
    BY <1>1, <1>2, <1>4, <2>2 DEF RegistryTypes, ClientsType
  <2>4. ASSUME NEW x \in Models
        PROVE  /\ models'[x].count = models[x].count
               /\ models'[x].providers = models[x].providers
               /\ models'[x].web = models[x].web
               /\ models'[x].webOf = models[x].webOf
    BY <1>1, <2>1, <2>2 DEF Marking
  <2>5. RegistrationsExact'
    BY <2>2, <2>4, ExactParts DEF Exact, Counts, Capable
  <2> QED
    BY <2>3, <2>5
<1>5. CASE clock' = clock /\ GetAvailableModels
  <2>1. NextRecovery \in Nat
    BY <1>1, RecoveryBound
  <2>2. Available \in SUBSET Models
    BY DEF Available
  <2>3. UNCHANGED <<clock, models, clients>>
    BY <1>5 DEF GetAvailableModels
  <2>4. cache' \in [valid : BOOLEAN, list : SUBSET Models, expires : Nat]
    BY <1>5, <2>1, <2>2 DEF GetAvailableModels
  <2> QED
    BY <1>1, <2>3, <2>4, ExactParts DEF RegistryTypes, ClientsType
<1>6. CASE UNCHANGED registry /\ clock' \in {clock, clock + 1}
  BY <1>1, <1>6, ExactParts DEF registry, RegistryTypes, ClientsType
<1> QED
  BY <1>3, <1>4, <1>5, <1>6, RegistryActions

LEMMA FlowStep ==
  ASSUME TypeOK, [Next]_vars
  PROVE  FlowTypes' /\ FlowSound'
<1>1. /\ catalog \in 1..MaxCatalog /\ auth \in AuthType
      /\ workers \in [Worker -> WorkerType] /\ FlowSound
      /\ "updates" \in Worker /\ "catalog" \in Worker
      /\ clients[Auth].epoch \in Nat
      /\ MaxCatalog \in Nat
  BY ModelRegistrationAssumption
  DEF TypeOK, FlowTypes, RegistryTypes, Worker
<1> DEFINE begun == [IdleWorker EXCEPT !.pc = "snapshot", !.left = 2]
<1>2. /\ IdleWorker \in WorkerType /\ IdleWorker.pc = "idle"
      /\ begun \in WorkerType /\ begun.pc = "snapshot" /\ begun.left = 2
  <2>1. NoAuth \in AuthType /\ 2 \in 0..2 /\ 0 \in 0..2
    BY DEF NoAuth, AuthType
  <2>2. IdleWorker \in WorkerType /\ IdleWorker.pc = "idle"
    BY <2>1, OfferTypes DEF IdleWorker, WorkerType
  <2> QED
    BY <2>1, <2>2 DEF WorkerType
\* What a goroutine goes to, and what else has to hold of it.
<1>3. ASSUME NEW w \in Worker, NEW r \in WorkerType, Go(w, r), UNCHANGED <<catalog, auth>>,
             r.pc \in Busy => r.left \in {1, 2},
             r.pc \in {"fence", "resolve"} => r.snap.inputs # Gone,
             w = "updates" /\ r.pc \in Busy => Present,
             w = "catalog" => r.pc # "forget"
      PROVE  FlowTypes' /\ FlowSound'
  <2>1. workers' = [workers EXCEPT ![w] = r]
    BY <1>3 DEF Go
  <2>2. workers' \in [Worker -> WorkerType] /\ workers'[w] = r
        /\ \A x \in Worker \ {w} : workers'[x] = workers[x]
    BY <1>1, <2>1
  <2> QED
    BY <1>1, <1>3, <2>2 DEF FlowTypes, FlowSound, Present
<1>4. ASSUME NEW i \in Inputs \cup {Off}, ApplyUpdate(i)
      PROVE  FlowTypes' /\ FlowSound'
  <2>1. /\ auth' \in AuthType /\ auth'.inputs = i /\ i # Gone /\ catalog' = catalog
    BY <1>1, <1>4, ModelRegistrationAssumption DEF ApplyUpdate, AuthType
  <2>2. workers' = [workers EXCEPT !["updates"] = begun]
    BY <1>4 DEF ApplyUpdate, Begin, Go
  <2> HIDE DEF begun
  <2>3. workers' \in [Worker -> WorkerType]
        /\ workers'["updates"].pc = "snapshot" /\ workers'["updates"].left = 2
        /\ workers'["catalog"] = workers["catalog"]
    BY <1>1, <1>2, <2>2
  <2> QED
    BY <1>1, <2>1, <2>3 DEF FlowTypes, FlowSound, Present, Worker
<1>5. CASE ApplyRemoval
  <2>1. /\ Go("updates", [workers["updates"] EXCEPT !.pc = "forget"])
        /\ UNCHANGED <<catalog, auth>>
    BY <1>5 DEF ApplyRemoval, Step
  <2>2. [workers["updates"] EXCEPT !.pc = "forget"] \in WorkerType
        /\ [workers["updates"] EXCEPT !.pc = "forget"].pc = "forget"
    BY <1>1 DEF WorkerType
  <2> QED
    BY <1>1, <1>3, <2>1, <2>2 DEF Busy
<1>6. CASE Forget
  <2>1. /\ workers' = [workers EXCEPT !["updates"] = [workers["updates"] EXCEPT !.pc = "idle"]]
        /\ auth' = [auth EXCEPT !.inputs = Gone] /\ catalog' = catalog
    BY <1>6 DEF Forget, Step, Go
  <2>2. workers' \in [Worker -> WorkerType]
        /\ workers'["updates"].pc = "idle"
        /\ workers'["catalog"] = workers["catalog"]
    BY <1>1, <2>1 DEF WorkerType
  <2>3. auth' \in AuthType
    BY <1>1, <2>1 DEF AuthType
  <2> QED
    BY <1>1, <2>1, <2>2, <2>3 DEF FlowTypes, FlowSound, Busy, Worker
<1>7. CASE CatalogChanges
  <2>1. workers' = [workers EXCEPT !["catalog"] = begun]
        /\ catalog' \in 1..MaxCatalog /\ auth' = auth
    BY <1>1, <1>7 DEF CatalogChanges, Begin, Go
  <2> HIDE DEF begun
  <2>2. workers' \in [Worker -> WorkerType]
        /\ workers'["catalog"].pc = "snapshot" /\ workers'["catalog"].left = 2
        /\ workers'["updates"] = workers["updates"]
    BY <1>1, <1>2, <2>1
  <2> QED
    BY <1>1, <2>1, <2>2 DEF FlowTypes, FlowSound, Present, Worker
<1>8. ASSUME NEW w \in Worker, Snapshot(w)
      PROVE  FlowTypes' /\ FlowSound'
  <2>1. workers[w].pc = "snapshot" /\ UNCHANGED <<catalog, auth>>
    BY <1>8 DEF Snapshot, Only
  <2>2. CASE Go(w, IdleWorker)
    BY <1>2, <1>3, <2>1, <2>2 DEF Busy
  <2>4. w = "catalog" /\ ~Present => Go(w, IdleWorker)
    BY <1>8 DEF Snapshot
  <2> DEFINE r == [workers[w] EXCEPT !.snap = auth, !.pc = "fence"]
  <2>3. CASE ~(w = "catalog" /\ ~Present) /\ Go(w, r)
    <3>1. r \in WorkerType /\ r.pc = "fence" /\ r.left = workers[w].left /\ r.snap = auth
      BY <1>1 DEF WorkerType
    <3>2. Present
      BY <1>1, <2>1, <2>3 DEF FlowSound, Busy, Worker
    <3> HIDE DEF r
    <3> QED
      BY <1>1, <1>3, <2>1, <2>3, <3>1, <3>2 DEF FlowSound, Busy, Present
  <2> QED
    BY <1>8, <2>2, <2>3, <2>4 DEF Snapshot
<1>9. ASSUME NEW w \in Worker, TakeFence(w)
      PROVE  FlowTypes' /\ FlowSound'
  <2> DEFINE r == [workers[w] EXCEPT !.fence = clients[Auth].epoch, !.pc = "resolve"]
  <2>1. workers[w].pc = "fence" /\ Go(w, r) /\ UNCHANGED <<catalog, auth>>
    BY <1>9 DEF TakeFence, Only
  <2>2. r \in WorkerType /\ r.pc = "resolve" /\ r.left = workers[w].left /\ r.snap = workers[w].snap
    BY <1>1 DEF WorkerType
  <2> HIDE DEF r
  <2> QED
    BY <1>1, <1>3, <2>1, <2>2 DEF FlowSound, Busy
<1>10. ASSUME NEW w \in Worker, NEW b, AfterAttempt(w, b), UNCHANGED <<catalog, auth>>,
              workers[w].pc \in Busy
       PROVE  FlowTypes' /\ FlowSound'
  <2> DEFINE r == [workers[w] EXCEPT !.pc = "snapshot", !.left = 1]
  <2>1. Go(w, r) \/ Go(w, IdleWorker)
    BY <1>10 DEF AfterAttempt
  <2>2. r \in WorkerType /\ r.pc = "snapshot" /\ r.left = 1
    <3>1. 1 \in 0..2
      OBVIOUS
    <3> QED
      BY <1>1, <3>1 DEF WorkerType
  <2>3. CASE Go(w, IdleWorker)
    BY <1>2, <1>3, <1>10, <2>3 DEF Busy
  <2>4. CASE Go(w, r)
    <3> HIDE DEF r
    <3> QED
      BY <1>1, <1>3, <1>10, <2>2, <2>4 DEF FlowSound
  <2> QED
    BY <2>1, <2>3, <2>4
<1>11. ASSUME NEW w \in Worker, Resolve(w)
       PROVE  FlowTypes' /\ FlowSound'
  <2> DEFINE s == workers[w].snap.inputs
             r(o) == [workers[w] EXCEPT !.offer = o, !.pc = "publish"]
  <2>1. workers[w].pc = "resolve" /\ UNCHANGED <<catalog, auth>>
    BY <1>11 DEF Resolve, Only
  <2>2. s \in Inputs \cup {Off} /\ workers[w].left \in {1, 2}
    BY <1>1, <2>1 DEF FlowSound, Busy, WorkerType, AuthType
  <2>3. \/ \E b : AfterAttempt(w, b)
        \/ Go(w, r(NoOffer))
        \/ s \in Inputs /\ Go(w, r(Offers[s][catalog]))
    BY <1>11, <2>2 DEF Resolve
  <2>4. ASSUME NEW o \in Offering, Go(w, r(o))
        PROVE  FlowTypes' /\ FlowSound'
    <3>1. r(o) \in WorkerType /\ r(o).pc = "publish" /\ r(o).left = workers[w].left
      BY <1>1 DEF WorkerType
    <3> HIDE DEF r
    <3> QED
      BY <1>1, <1>3, <2>1, <2>4, <3>1 DEF FlowSound, Busy
  <2>5. CASE \E b : AfterAttempt(w, b)
    BY <1>10, <2>1, <2>5 DEF Busy
  <2> QED
    BY <1>1, <2>3, <2>4, <2>5, OfferTypes
<1>12. ASSUME NEW w \in Worker, Publish(w)
       PROVE  FlowTypes' /\ FlowSound'
  BY <1>10, <1>12 DEF Publish, Busy
<1>13. CASE UNCHANGED flow
  BY <1>1, <1>13 DEF flow, FlowTypes, FlowSound, Present
<1> QED
  BY <1>4, <1>5, <1>6, <1>7, <1>8, <1>9, <1>11, <1>12, <1>13
  DEF Next, vars, Tick, ListModels, Dispatch, MarkResult, ApplyMark

LEMMA MarksStep ==
  ASSUME TypeOK, [Next]_vars
  PROVE  MarkTypes'
<1>1. running \subseteq Clients \X Models /\ marks \subseteq Seq(Call) \ {<<>>}
  BY DEF TypeOK, MarkTypes
<1>2. CASE \E c \in Clients, m \in Models : Dispatch(c, m)
  BY <1>1, <1>2 DEF Dispatch, MarkTypes
<1>3. ASSUME NEW r \in running, NEW o \in {"ok", "quota", "other"}, MarkResult(r, o)
      PROVE  MarkTypes'
  <2>1. r[1] \in Clients /\ r[2] \in Models
    BY <1>1
  <2>2. Marks(r[1], r[2], o) \in Seq(Call) \ {<<>>}
    <3> DEFINE c == r[1]
               m == r[2]
    <3>1. /\ <<"clear", c, m>> \in Call /\ <<"resume", c, m>> \in Call
          /\ <<"quota", c, m>> \in Call /\ <<"suspend", c, m, "quota">> \in Call
          /\ <<"suspend", c, m, "other">> \in Call
      BY <2>1 DEF Call, Reason
    <3> HIDE DEF c, m
    <3>2. Marks(c, m, o) \in Seq(Call) \ {<<>>}
      BY <3>1 DEF Marks
    <3> QED
      BY <3>2 DEF c, m
  <2> QED
    BY <1>1, <1>3, <2>2 DEF MarkResult, MarkTypes
<1>4. ASSUME NEW k \in marks, ApplyMark(k)
      PROVE  MarkTypes'
  <2>1. ASSUME Len(k) > 1 PROVE Tail(k) \in Seq(Call) \ {<<>>}
    <3>1. k \in Seq(Call) /\ k # <<>>
      BY <1>1
    <3>2. Tail(k) \in Seq(Call) /\ Len(Tail(k)) = Len(k) - 1 /\ Len(k) \in Nat
      BY <3>1
    <3>3. Len(Tail(k)) # 0 /\ Len(<<>>) = 0
      BY <2>1, <3>2
    <3>4. Tail(k) # <<>>
      BY <3>3
    <3> QED
      BY <3>2, <3>4
  <2> QED
    BY <1>1, <1>4, <2>1 DEF ApplyMark, MarkTypes
<1>5. CASE UNCHANGED executions
  BY <1>1, <1>5 DEF executions, MarkTypes
<1> QED
  BY <1>2, <1>3, <1>4, <1>5
  DEF Next, vars, Tick, ListModels, ApplyUpdate, ApplyRemoval, Forget, CatalogChanges,
      Snapshot, TakeFence, Resolve, Publish, Only

LEMMA TypesAndCounts == Spec => [](TypeOK /\ RegistrationsExact)
<1>1. Init => TypeOK /\ RegistrationsExact
  BY InitTypes, InitRegistry
<1>2. TypeOK /\ RegistrationsExact /\ [Next]_vars => (TypeOK /\ RegistrationsExact)'
  BY RegistryStep, FlowStep, MarksStep DEF TypeOK
<1> QED
  BY <1>1, <1>2, PTL DEF Spec

\* TypeOK: what the registry, the goroutines and the results hold is of its type,
\* whatever the clients, their offers and the bounds are.
THEOREM TypesCorrect == Spec => []TypeOK
  BY TypesAndCounts, PTL

\* RegistrationsExact: registerClientLocked, unregisterClientInternal and the
\* helpers between them move the counts of a registration by differences; they stay
\* what counting the clients anew would yield.
THEOREM CountsAreExact == Spec => []RegistrationsExact
  BY TypesAndCounts, PTL

\* While the list may be served, no client that was out of quota has recovered.
CacheBound ==
  cache.valid =>
    \A m \in Models : \A c \in OutOfQuota(m) :
      cache.expires # 0 /\ cache.expires <= models[m].quota[c] + QuotaWindow

LEMMA CacheStep ==
  ASSUME TypeOK, CacheCurrent, CacheBound, [Next]_vars
  PROVE  CacheCurrent' /\ CacheBound'
<1>1. /\ clock \in Nat /\ models \in [Models -> RegistrationType]
      /\ cache \in [valid : BOOLEAN, list : SUBSET Models, expires : Nat]
      /\ QuotaWindow \in Nat \ {0}
      /\ \A m \in Models, c \in Clients : models[m].quota[c] \in Nat
  BY ModelRegistryAssumption DEF TypeOK, RegistryTypes, RegistrationType
<1>2. CASE cache' = NoCache
  BY <1>2 DEF NoCache, CacheCurrent, CacheBound, Fresh
<1>3. CASE GetAvailableModels /\ clock' = clock
  <2>1. /\ models' = models /\ clock' = clock
        /\ cache' = [valid |-> TRUE, list |-> Available, expires |-> NextRecovery]
    BY <1>3 DEF GetAvailableModels
  <2>2. Available' = Available /\ \A m \in Models : OutOfQuota(m)' = OutOfQuota(m)
    BY <2>1 DEF Available, Offered, OutOfQuota, Suspended, Cooling, Exists
  <2>3. \A m \in Models : \A c \in OutOfQuota(m) :
          /\ NextRecovery # 0
          /\ NextRecovery <= models[m].quota[c] + QuotaWindow
    BY <1>1, RecoveryBound
  <2> QED
    BY <2>1, <2>2, <2>3 DEF CacheCurrent, CacheBound
<1>4. CASE UNCHANGED registry /\ clock' = clock
  <2>1. models' = models /\ cache' = cache /\ clock' = clock
    BY <1>4 DEF registry
  <2>2. Available' = Available /\ \A m \in Models : OutOfQuota(m)' = OutOfQuota(m)
    BY <2>1 DEF Available, Offered, OutOfQuota, Suspended, Cooling, Exists
  <2> QED
    BY <2>1, <2>2 DEF CacheCurrent, CacheBound, Fresh
<1>5. CASE UNCHANGED registry /\ clock' = clock + 1
  <2>1. models' = models /\ cache' = cache /\ clock' = clock + 1
    BY <1>5 DEF registry
  <2>2. \A m \in Models : OutOfQuota(m)' \subseteq OutOfQuota(m)
    BY <1>1, <2>1 DEF OutOfQuota
  <2>3. CacheBound'
    BY <2>1, <2>2 DEF CacheBound
  <2>4. ASSUME Fresh'
        PROVE  cache'.list = Available'
    <3>1. cache.valid /\ (cache.expires = 0 \/ clock + 1 < cache.expires)
      BY <2>1, <2>4 DEF Fresh
    <3>2. ASSUME NEW m \in Models
          PROVE  OutOfQuota(m)' = OutOfQuota(m)
      <4>1. ASSUME NEW c \in OutOfQuota(m)
            PROVE  c \in OutOfQuota(m)'
        <5>1. /\ c \in Clients /\ models[m].quota[c] > 0
              /\ cache.expires # 0 /\ cache.expires <= models[m].quota[c] + QuotaWindow
          BY <3>1 DEF CacheBound, OutOfQuota
        <5>2. clock + 1 < models[m].quota[c] + QuotaWindow
          BY <1>1, <3>1, <5>1
        <5> QED
          BY <2>1, <5>1, <5>2 DEF OutOfQuota
      <4> QED
        BY <2>2, <4>1
    <3>3. Available' = Available
      BY <2>1, <3>2 DEF Available, Offered, Suspended, Cooling, Exists
    <3>4. Fresh
      BY <1>1, <3>1 DEF Fresh
    <3> QED
      BY <2>1, <3>3, <3>4 DEF CacheCurrent
  <2> QED
    BY <2>3, <2>4 DEF CacheCurrent
<1>6. ASSUME NEW new, NEW e, Replace(Auth, new, e) PROVE cache' = NoCache
  BY <1>6 DEF Replace, Invalidate
<1>7. ASSUME NEW m, NEW r, Marking(m, r) PROVE cache' = NoCache
  BY <1>7 DEF Marking, Mark, Invalidate
<1> QED
  BY <1>2, <1>3, <1>4, <1>5, <1>6, <1>7, RegistryActions

\* CacheCurrent: Register, Unregister and the marks invalidate the list, and
\* GetAvailableModels gives it the time of the first recovery, so that what it
\* serves is what it would build.
THEOREM CacheIsCurrent == Spec => []CacheCurrent
<1>1. Init => CacheCurrent /\ CacheBound
  <2>1. Init => cache = NoCache
    BY DEF Init
  <2> QED
    BY <2>1 DEF NoCache, CacheCurrent, CacheBound, Fresh
<1>2. TypeOK /\ CacheCurrent /\ CacheBound /\ [Next]_vars => CacheCurrent' /\ CacheBound'
  BY CacheStep
<1> QED
  BY <1>1, <1>2, TypesCorrect, PTL DEF Spec

\* An exact count is not exceeded by the clients that bear a mark.
LEMMA UnmarkedOffered ==
  ASSUME RegistryTypes, RegistrationsExact, NEW m \in Models,
         Marked(m) \subseteq Members(m), Members(m) \ Marked(m) # {}
  PROVE  Offered(m)
<1> DEFINE Q == OutOfQuota(m)
           S == Suspended(m)
           M == Members(m)
           F == Times(clients, m)
<1>1. M = MembersOf(clients, m) /\ models[m].count = SumFunctionOnSet(F, M)
  <2>1. M = MembersOf(clients, m)
    BY DEF Members, MembersOf
  <2> QED
    BY <2>1, ExactParts DEF Exact, Counts
<1>2. IsFiniteSet(M) /\ \A c \in M : F[c] \in Nat \ {0}
  BY ModelRegistryAssumption, FS_Subset
  DEF Members, Times, RegistryTypes, Offering, OfferType, NoOffer
<1>3. models[m].count \in Nat /\ models[m].count >= Cardinality(M)
  <2>1. models[m].count \in Nat
    BY DEF RegistryTypes, RegistrationType
  <2> HIDE DEF F, M
  <2> QED
    BY <1>1, <1>2, <2>1, SumAtLeast
<1>4. Q \cup S \subseteq M /\ Q \cup S # M
  BY DEF OutOfQuota, Suspended, Marked, Members
<1>5. /\ IsFiniteSet(Q) /\ IsFiniteSet(S)
      /\ Cardinality(Q \cup S) < Cardinality(M)
      /\ Cardinality(M) \in Nat /\ Cardinality(Q \cup S) \in Nat
  <2> HIDE DEF Q, S, M
  <2>1. Q \subseteq M /\ S \subseteq M
    BY <1>4
  <2>2. IsFiniteSet(Q) /\ IsFiniteSet(S) /\ IsFiniteSet(Q \cup S)
    BY <1>2, <1>4, <2>1, FS_Subset
  <2>3. Cardinality(M) \in Nat /\ Cardinality(Q \cup S) \in Nat
    BY <1>2, <2>2, FS_CardinalityType
  <2>4. /\ Cardinality(Q \cup S) <= Cardinality(M)
        /\ Cardinality(Q \cup S) = Cardinality(M) => Q \cup S = M
    BY <1>2, <1>4, FS_Subset
  <2> QED
    BY <1>4, <2>2, <2>3, <2>4
<1>6. Cardinality(Q \cup S) = Cardinality(Q) + Cardinality(S) - Cardinality(Q \cap S)
  <2> HIDE DEF Q, S
  <2> QED
    BY <1>5, FS_Union
<1>7. models[m].count > Cardinality(Q) + Cardinality(S) - Cardinality(Q \cap S)
  <2> HIDE DEF Q, S, M
  <2> QED
    BY <1>3, <1>5, <1>6
<1> QED
  BY <1>7 DEF Offered

\* UnmarkedIsListed: buildAvailableModelsLocked takes the clients out of quota and
\* those suspended from the count; whoever has two marks, or offers a model twice,
\* cannot hide another client.
THEOREM UnmarkedAreListed == Spec => []UnmarkedIsListed
<1>1. TypeOK /\ RegistrationsExact => UnmarkedIsListed
  BY UnmarkedOffered DEF TypeOK, UnmarkedIsListed, Available
<1> QED
  BY <1>1, TypesAndCounts, PTL

-----------------------------------------------------------------------------
(* What is registered when both goroutines are done.                       *)

updater == workers["updates"]
follower == workers["catalog"]

OfferFor(i) == IF i \in Inputs THEN Offers[i][catalog] ELSE NoOffer
Done == clients[Auth].offer = OfferFor(auth.inputs)

Fenced(w) == clients[Auth].epoch = w.fence
Attempting(w) == w.pc \in {"fence", "resolve", "publish"}

\* The goroutine of updates will make the registration current, unless the other
\* one does so first.
UpdaterWill ==
  \/ updater.pc \in {"snapshot", "fence", "forget"}
  \/ updater.pc = "resolve" /\ (Fenced(updater) \/ updater.left = 2)
  \/ updater.pc = "publish" /\ IF Fenced(updater) THEN updater.offer = OfferFor(auth.inputs)
                               ELSE updater.left = 2

\* The goroutine of the catalog will: it tries twice in any case.
FollowerWill ==
  \/ follower.pc = "snapshot"
  \/ Attempting(follower) /\ follower.left = 2
  \/ follower.pc = "fence" /\ follower.snap = auth
  \/ follower.pc \in {"resolve", "publish"} /\ follower.snap = auth /\ Fenced(follower)

\* The goroutine of updates is about to publish what an older catalog yielded.
Stale ==
  updater.pc = "publish" /\ Fenced(updater) /\ updater.offer # OfferFor(auth.inputs)

\* The first attempt of the other, which began later, succeeds unless the stale
\* offer is published before it.
FirstAttempt ==
  /\ follower.left = 2 /\ (follower.pc = "snapshot" \/ Attempting(follower))
  /\ Attempting(follower) => follower.snap = auth
  /\ follower.pc \in {"resolve", "publish"} => Fenced(follower)

Attempts ==
  /\ updater.fence <= clients[Auth].epoch /\ follower.fence <= clients[Auth].epoch
  /\ Attempting(updater) => updater.snap = auth
  /\ updater.pc = "publish" /\ auth.inputs = Off => updater.offer = NoOffer
  /\ updater.pc = "forget" => crossed \/ clients[Auth].offer = NoOffer
  /\ Attempting(follower) /\ follower.left = 2 => follower.snap.inputs \in Inputs
  /\ follower.pc = "publish" => follower.offer = OfferFor(follower.snap.inputs)

\* Unless the removal of the credential was crossed by a registration.
Promised ==
  \/ Done \/ UpdaterWill
  \/ auth.inputs \in Inputs /\ FollowerWill
  \/ auth.inputs = Gone /\ crossed
Ordered == Stale => FirstAttempt
Registering == Attempts /\ Promised /\ Ordered

\* A disabled credential has nothing stale to publish.
LEMMA NothingStale ==
  ASSUME TypeOK, Attempts, auth.inputs \notin Inputs
  PROVE  ~Stale
<1>1. auth.inputs \in {Off, Gone}
  BY DEF TypeOK, FlowTypes, AuthType
<1>2. updater.pc = "publish" => auth.inputs # Gone
  BY DEF TypeOK, FlowSound, Busy, Present, updater
<1> QED
  BY <1>1, <1>2 DEF Attempts, Stale, OfferFor

\* What is registered is what is published, and its epoch moves with it.
LEMMA Registers ==
  ASSUME TypeOK, NEW new \in Offering, RegisterClient(Auth, new)
  PROVE  /\ clients'[Auth].offer = new
         /\ clients[Auth].epoch \in Nat
         /\ clients'[Auth].epoch \in {clients[Auth].epoch, clients[Auth].epoch + 1}
         /\ new # NoOffer => clients'[Auth].epoch = clients[Auth].epoch + 1
<1>1. clients \in ClientsType /\ Auth \in Clients
  BY ModelRegistrationAssumption DEF TypeOK, RegistryTypes, ClientsType
<1>2. clients[Auth].epoch \in Nat
  BY <1>1 DEF ClientsType
<1>3. CASE new = NoOffer
  <2>1. PICK e : /\ clients' = [clients EXCEPT ![Auth] = [offer |-> NoOffer, epoch |-> e]]
                 /\ e \in {clients[Auth].epoch, clients[Auth].epoch + 1}
    BY <1>3 DEF RegisterClient, UnregisterClient, Replace
  <2> QED
    BY <1>1, <1>2, <1>3, <2>1 DEF ClientsType
<1>4. CASE new # NoOffer
  <2>1. clients' = [clients EXCEPT ![Auth] = [offer |-> new, epoch |-> clients[Auth].epoch + 1]]
    BY <1>4 DEF RegisterClient, Replace
  <2> QED
    BY <1>1, <1>2, <2>1 DEF ClientsType
<1> QED
  BY <1>3, <1>4

\* What else Attempts and the promises are about, if neither goroutine moves.
LEMMA RegisteringSame ==
  ASSUME Registering, UNCHANGED <<catalog, auth, workers, crossed>>, clients' = clients
  PROVE  Registering'
  BY DEF Registering, Attempts, Promised, Ordered, Done, UpdaterWill, FollowerWill,
         Stale, FirstAttempt, updater, follower, OfferFor, Fenced, Attempting

\* A goroutine moves, the other stays.
LEMMA Moves ==
  ASSUME TypeOK, NEW w \in Worker, NEW r, Go(w, r)
  PROVE  /\ w = "updates" => updater' = r /\ follower' = follower
         /\ w = "catalog" => follower' = r /\ updater' = updater
  BY DEF TypeOK, FlowTypes, Worker, Go, updater, follower

\* The goroutines as records, and the outcome of an attempt.
LEMMA WorkerFacts ==
  ASSUME TypeOK
  PROVE  /\ updater \in WorkerType /\ follower \in WorkerType
         /\ auth.inputs \in Inputs \cup {Off, Gone}
         /\ Off \notin Inputs /\ Gone \notin Inputs /\ Off # Gone
         /\ updater.pc \in Busy => auth.inputs # Gone /\ updater.left \in {1, 2}
         /\ follower.pc \in Busy => follower.left \in {1, 2}
         /\ follower.pc \in {"fence", "resolve"} => follower.snap.inputs # Gone
         /\ follower.pc # "forget"
         /\ follower.snap.inputs \in Inputs \cup {Off, Gone}
         /\ clients[Auth].epoch \in Nat
         /\ updater.fence \in Nat /\ follower.fence \in Nat
  BY ModelRegistrationAssumption
  DEF TypeOK, FlowTypes, FlowSound, RegistryTypes, AuthType, WorkerType, Worker, Busy,
      Present, updater, follower

LEMMA AttemptEnds ==
  ASSUME TypeOK, NEW b, NEW w \in Worker, AfterAttempt(w, b)
  PROVE  LET x == workers'[w] IN
         /\ \A y \in Worker \ {w} : workers'[y] = workers[y]
         /\ IF workers[w].left = 2 /\ (w = "catalog" \/ ~b)
            THEN x.pc = "snapshot" /\ x.left = 1 /\ x.fence = workers[w].fence
            ELSE x.pc = "idle" /\ x.fence = 0
<1> DEFINE again == workers[w].left = 2 /\ (w = "catalog" \/ ~b)
           r == [workers[w] EXCEPT !.pc = "snapshot", !.left = 1]
<1>1. workers \in [Worker -> WorkerType]
  BY DEF TypeOK, FlowTypes
<1>2. workers' = [workers EXCEPT ![w] = IF again THEN r ELSE IdleWorker]
  BY DEF AfterAttempt, Go
<1>3. r.pc = "snapshot" /\ r.left = 1 /\ r.fence = workers[w].fence
  BY <1>1 DEF WorkerType
<1>4. IdleWorker.pc = "idle" /\ IdleWorker.fence = 0
  BY DEF IdleWorker
<1> HIDE DEF r
<1> QED
  BY <1>1, <1>2, <1>3, <1>4

LEMMA Begins ==
  ASSUME TypeOK, NEW w \in Worker, Begin(w)
  PROVE  /\ w = "updates" => /\ updater'.pc = "snapshot" /\ updater'.fence = 0
                             /\ follower' = follower
         /\ w = "catalog" => /\ follower'.pc = "snapshot" /\ follower'.fence = 0
                             /\ follower'.left = 2 /\ updater' = updater
<1> DEFINE r == [IdleWorker EXCEPT !.pc = "snapshot", !.left = 2]
<1>1. r.pc = "snapshot" /\ r.fence = 0 /\ r.left = 2
  BY DEF IdleWorker
<1>2. Go(w, r)
  BY DEF Begin
<1> HIDE DEF r
<1> QED
  BY <1>1, <1>2, Moves

LEMMA UpdateStep ==
  ASSUME TypeOK, Registering, NEW i \in Inputs \cup {Off}, ApplyUpdate(i)
  PROVE  Registering'
<1>1. Begin("updates") /\ UNCHANGED <<catalog, clients>>
  BY DEF ApplyUpdate, registry
<1>2. updater'.pc = "snapshot" /\ updater'.fence = 0 /\ follower' = follower
  BY <1>1, Begins DEF Worker
<1> QED
  BY <1>1, <1>2, WorkerFacts
  DEF Registering, Attempts, Promised, Ordered, UpdaterWill, Stale, OfferFor, Attempting

LEMMA RemovalStep ==
  ASSUME TypeOK, Registering, ApplyRemoval
  PROVE  Registering'
<1>1. /\ Go("updates", [updater EXCEPT !.pc = "forget"])
      /\ UNCHANGED <<catalog, auth>> /\ RegisterClient(Auth, NoOffer)
  BY OfferTypes DEF ApplyRemoval, Step, RegisterClient, updater
<1>2. updater'.pc = "forget" /\ updater'.fence = updater.fence /\ follower' = follower
  BY <1>1, Moves, WorkerFacts DEF Worker, WorkerType
<1>3. /\ clients'[Auth].offer = NoOffer /\ clients[Auth].epoch \in Nat
      /\ clients'[Auth].epoch \in {clients[Auth].epoch, clients[Auth].epoch + 1}
  BY <1>1, OfferTypes, Registers
<1> QED
  BY <1>1, <1>2, <1>3, WorkerFacts
  DEF Registering, Attempts, Promised, Ordered, UpdaterWill, Stale, OfferFor, Attempting

LEMMA ForgetStep ==
  ASSUME TypeOK, Registering, Forget
  PROVE  Registering'
<1>1. /\ Go("updates", [updater EXCEPT !.pc = "idle"])
      /\ UNCHANGED <<catalog, clients>> /\ updater.pc = "forget"
      /\ auth'.inputs = Gone /\ crossed' = crossed
  BY DEF Forget, Step, registry, updater, TypeOK, FlowTypes, AuthType
<1>2. updater'.pc = "idle" /\ updater'.fence = updater.fence /\ follower' = follower
  BY <1>1, Moves, WorkerFacts DEF Worker, WorkerType
<1>3. crossed \/ clients[Auth].offer = NoOffer
  BY <1>1 DEF Registering, Attempts
<1> QED
  BY <1>1, <1>2, <1>3, WorkerFacts
  DEF Registering, Attempts, Promised, Ordered, Done, Stale, OfferFor, Attempting

LEMMA CatalogStep ==
  ASSUME TypeOK, Registering, CatalogChanges
  PROVE  Registering'
<1>1. Begin("catalog") /\ UNCHANGED <<auth, clients, crossed>>
  BY DEF CatalogChanges, registry, updater
<1>2. /\ follower'.pc = "snapshot" /\ follower'.left = 2 /\ follower'.fence = 0
      /\ updater' = updater
  BY <1>1, Begins DEF Worker
<1>3. Attempts'
  BY <1>1, <1>2, WorkerFacts DEF Registering, Attempts, Attempting
<1>4. Promised'
  <2>1. CASE auth.inputs \in Inputs
    BY <1>1, <1>2, <2>1 DEF Promised, FollowerWill
  <2>2. CASE auth.inputs \notin Inputs
    BY <1>1, <1>2, <2>2 DEF Registering, Promised, Done, UpdaterWill, OfferFor, Fenced
  <2> QED
    BY <2>1, <2>2
<1>5. Ordered'
  BY <1>1, <1>2 DEF Ordered, FirstAttempt, Attempting
<1> QED
  BY <1>3, <1>4, <1>5 DEF Registering

LEMMA SnapshotStep ==
  ASSUME TypeOK, Registering, NEW w \in Worker, Snapshot(w)
  PROVE  Registering'
<1>1. UNCHANGED <<catalog, auth, clients, crossed>> /\ workers[w].pc = "snapshot"
  BY DEF Snapshot, Only, registry
<1> DEFINE r == [workers[w] EXCEPT !.snap = auth, !.pc = "fence"]
<1>2. r.pc = "fence" /\ r.snap = auth /\ r.left = workers[w].left /\ r.fence = workers[w].fence
  BY DEF TypeOK, FlowTypes, WorkerType
<1>3. Go(w, r) \/ Go(w, IdleWorker)
  BY DEF Snapshot
<1>4. CASE w = "updates"
  <2>1. Go(w, r)
    BY <1>4 DEF Snapshot
  <2> HIDE DEF r
  <2>2. updater' = r /\ follower' = follower /\ updater = workers[w]
    BY <1>4, <2>1, Moves DEF updater
  <2> QED
    BY <1>1, <1>2, <2>2, WorkerFacts
    DEF Registering, Attempts, Promised, Ordered, UpdaterWill, Stale, OfferFor, Attempting
<1>5. CASE w = "catalog" /\ Go(w, IdleWorker)
  <2>1. ~Present \/ (auth.inputs = Off /\ follower.left = 2)
    <3>1. IdleWorker.pc = "idle" /\ r.pc = "fence" /\ workers \in [Worker -> WorkerType]
      BY DEF IdleWorker, TypeOK, FlowTypes, WorkerType
    <3>2. Go(w, r) => FALSE
      <4> HIDE DEF r
      <4> QED
        BY <1>5, <3>1 DEF Go
    <3> QED
      BY <1>5, <3>2 DEF Snapshot, follower
  <2>2. auth.inputs \notin Inputs
    BY <2>1, WorkerFacts DEF Present
  <2>3. follower'.pc = "idle" /\ follower'.fence = 0 /\ updater' = updater
    BY <1>5, Moves DEF IdleWorker
  <2>4. ~Stale /\ follower.fence \in Nat /\ clients[Auth].epoch \in Nat
    BY <2>2, NothingStale, WorkerFacts DEF Registering
  <2> QED
    BY <1>1, <2>2, <2>3, <2>4
    DEF Registering, Attempts, Promised, Ordered, Done, UpdaterWill, Stale, OfferFor,
        Fenced, Attempting
<1>6. CASE w = "catalog" /\ Go(w, r) /\ ~Go(w, IdleWorker)
  <2>1. Present /\ ~(auth.inputs = Off /\ follower.left = 2)
    BY <1>6 DEF Snapshot, follower
  <2> HIDE DEF r
  <2>2. follower' = r /\ updater' = updater /\ follower = workers[w]
    BY <1>6, Moves DEF follower
  <2>3. Attempts'
    BY <1>1, <1>2, <2>1, <2>2, WorkerFacts
    DEF Registering, Attempts, Attempting, OfferFor, Present
  <2>4. Promised'
    BY <1>1, <1>2, <2>2
    DEF Registering, Promised, Done, UpdaterWill, FollowerWill, OfferFor, Fenced, Attempting
  <2>5. Ordered'
    BY <1>1, <1>2, <2>2
    DEF Registering, Ordered, Stale, FirstAttempt, OfferFor, Fenced, Attempting
  <2> QED
    BY <2>3, <2>4, <2>5 DEF Registering
<1> QED
  BY <1>3, <1>4, <1>5, <1>6 DEF Worker

LEMMA FenceStep ==
  ASSUME TypeOK, Registering, NEW w \in Worker, TakeFence(w)
  PROVE  Registering'
<1> DEFINE r == [workers[w] EXCEPT !.fence = clients[Auth].epoch, !.pc = "resolve"]
<1>1. UNCHANGED <<catalog, auth, clients, crossed>> /\ workers[w].pc = "fence" /\ Go(w, r)
  BY DEF TakeFence, Only, registry
<1>2. /\ r.pc = "resolve" /\ r.fence = clients[Auth].epoch
      /\ r.left = workers[w].left /\ r.snap = workers[w].snap
  BY DEF TypeOK, FlowTypes, WorkerType
<1> HIDE DEF r
<1>3. CASE w = "updates"
  <2>1. updater' = r /\ follower' = follower /\ updater = workers[w]
    BY <1>1, <1>3, Moves DEF updater
  <2> QED
    BY <1>1, <1>2, <2>1, WorkerFacts
    DEF Registering, Attempts, Promised, Ordered, UpdaterWill, Stale, OfferFor,
        Attempting, Fenced
<1>4. CASE w = "catalog"
  <2>1. follower' = r /\ updater' = updater /\ follower = workers[w]
    BY <1>1, <1>4, Moves DEF follower
  <2>2. Attempts'
    BY <1>1, <1>2, <2>1, WorkerFacts DEF Registering, Attempts, Attempting, OfferFor
  <2>3. Promised'
    BY <1>1, <1>2, <2>1
    DEF Registering, Promised, Done, UpdaterWill, FollowerWill, OfferFor, Fenced, Attempting
  <2>4. Ordered'
    BY <1>1, <1>2, <2>1
    DEF Registering, Ordered, Stale, FirstAttempt, OfferFor, Fenced, Attempting
  <2> QED
    BY <2>2, <2>3, <2>4 DEF Registering
<1> QED
  BY <1>3, <1>4 DEF Worker

LEMMA ResolveStep ==
  ASSUME TypeOK, Registering, NEW w \in Worker, Resolve(w)
  PROVE  Registering'
<1> DEFINE s == workers[w].snap.inputs
           r(o) == [workers[w] EXCEPT !.offer = o, !.pc = "publish"]
<1>1. UNCHANGED <<catalog, auth, clients, crossed>> /\ workers[w].pc = "resolve"
  BY DEF Resolve, Only, registry
<1>2. ASSUME NEW o
      PROVE  /\ r(o).pc = "publish" /\ r(o).offer = o /\ r(o).fence = workers[w].fence
             /\ r(o).left = workers[w].left /\ r(o).snap = workers[w].snap
  BY DEF TypeOK, FlowTypes, WorkerType
<1>3. CASE w = "updates"
  <2>1. updater = workers[w] /\ s = auth.inputs /\ auth.inputs \in Inputs \cup {Off}
    BY <1>1, <1>3, WorkerFacts DEF updater, Registering, Attempts, Attempting, Busy
  <2>2. Go(w, r(OfferFor(auth.inputs)))
    BY <2>1, WorkerFacts, <1>3 DEF Resolve, OfferFor
  <2> HIDE DEF r
  <2>3. updater' = r(OfferFor(auth.inputs)) /\ follower' = follower
    BY <1>3, <2>2, Moves
  <2>4. /\ updater'.pc = "publish" /\ updater'.offer = OfferFor(auth.inputs)
        /\ updater'.fence = updater.fence /\ updater'.left = updater.left
        /\ updater'.snap = updater.snap /\ updater.pc = "resolve"
    BY <1>1, <1>2, <2>1, <2>3
  <2>5. Attempts'
    BY <1>1, <2>3, <2>4, WorkerFacts
    DEF Registering, Attempts, Attempting, OfferFor
  <2>6. Promised'
    BY <1>1, <2>3, <2>4
    DEF Registering, Promised, Done, UpdaterWill, FollowerWill, OfferFor, Fenced, Attempting
  <2>7. Ordered'
    BY <1>1, <2>4 DEF Ordered, Stale, OfferFor
  <2> QED
    BY <2>5, <2>6, <2>7 DEF Registering
<1>4. CASE w = "catalog"
  <2>1. /\ follower = workers[w] /\ follower.pc = "resolve"
        /\ s \in Inputs \cup {Off} /\ follower.left \in {1, 2}
        /\ s = Off => follower.left = 1
    BY <1>1, <1>4, WorkerFacts DEF follower, Registering, Attempts, Attempting, Busy
  <2>2. CASE s # Off /\ auth.inputs \notin Inputs
    <3>1. AfterAttempt(w, TRUE)
      BY <2>2 DEF Resolve
    <3>2. /\ updater' = updater
          /\ follower'.pc \in {"snapshot", "idle"}
          /\ follower'.fence \in {0, follower.fence}
      BY <1>4, <2>1, <3>1, AttemptEnds DEF updater, follower, Worker
    <3>3. ~Stale
      BY <2>2, NothingStale DEF Registering
    <3>4. Attempts'
      BY <1>1, <2>1, <3>2, WorkerFacts DEF Registering, Attempts, Attempting, OfferFor
    <3>5. Promised' /\ Ordered'
      BY <1>1, <2>2, <3>2, <3>3
      DEF Registering, Promised, Ordered, Done, UpdaterWill, Stale, OfferFor, Fenced
    <3> QED
      BY <3>4, <3>5 DEF Registering
  <2>3. CASE s = Off \/ auth.inputs \in Inputs
    <3>1. Go(w, r(OfferFor(s)))
      <4>1. CASE s = Off
        <5>1. s \notin Inputs /\ workers[w].left = 1
          BY <2>1, <4>1, WorkerFacts
        <5>2. Go(w, r(NoOffer))
          BY <4>1, <5>1 DEF Resolve
        <5> QED
          BY <5>1, <5>2 DEF OfferFor
      <4>2. CASE s # Off
        <5>1. s \in Inputs /\ auth.inputs \in Inputs
          BY <2>1, <2>3, <4>2
        <5>2. Go(w, r(Offers[s][catalog]))
          BY <4>2, <5>1 DEF Resolve
        <5> QED
          BY <5>1, <5>2 DEF OfferFor
      <4> QED
        BY <4>1, <4>2
    <3> HIDE DEF r
    <3>2. follower' = r(OfferFor(s)) /\ updater' = updater
      BY <1>4, <3>1, Moves
    <3>3. /\ follower'.pc = "publish" /\ follower'.offer = OfferFor(s)
          /\ follower'.fence = follower.fence /\ follower'.left = follower.left
          /\ follower'.snap = follower.snap
      BY <1>2, <2>1, <3>2
    <3>4. Attempts'
      BY <1>1, <2>1, <3>2, <3>3, WorkerFacts
      DEF Registering, Attempts, Attempting, OfferFor
    <3>5. Promised'
      BY <1>1, <2>1, <3>2, <3>3
      DEF Registering, Promised, Done, UpdaterWill, FollowerWill, OfferFor, Fenced, Attempting
    <3>6. Ordered'
      BY <1>1, <2>1, <3>2, <3>3
      DEF Registering, Ordered, Stale, FirstAttempt, OfferFor, Fenced, Attempting
    <3> QED
      BY <3>4, <3>5, <3>6 DEF Registering
  <2> QED
    BY <2>1, <2>2, <2>3
<1> QED
  BY <1>3, <1>4 DEF Worker

LEMMA PublishUpdates ==
  ASSUME TypeOK, Registering, Publish("updates")
  PROVE  Registering'
<1>0. crossed => crossed'
  BY DEF Publish
<1>1. /\ UNCHANGED <<catalog, auth>> /\ updater.pc = "publish"
      /\ AfterAttempt("updates", Current("updates"))
      /\ updater.snap = auth /\ updater.offer \in Offering
      /\ auth.inputs \in Inputs \cup {Off}
      /\ Current("updates") <=> Fenced(updater)
  BY WorkerFacts
  DEF Publish, Registering, Attempts, Attempting, Current, Fenced, updater, Busy, WorkerType
<1>2. /\ follower' = follower
      /\ IF updater.left = 2 /\ ~Fenced(updater)
         THEN updater'.pc = "snapshot" /\ updater'.left = 1 /\ updater'.fence = updater.fence
         ELSE updater'.pc = "idle" /\ updater'.fence = 0
  <2>1. LET x == workers'["updates"] IN
        /\ \A y \in Worker \ {"updates"} : workers'[y] = workers[y]
        /\ IF workers["updates"].left = 2 /\ ("updates" = "catalog" \/ ~Current("updates"))
           THEN x.pc = "snapshot" /\ x.left = 1 /\ x.fence = workers["updates"].fence
           ELSE x.pc = "idle" /\ x.fence = 0
    BY <1>1, AttemptEnds DEF Worker
  <2> QED
    BY <1>1, <2>1 DEF updater, follower, Worker
<1>3. CASE Fenced(updater)
  <2>1. RegisterClient(Auth, updater.offer)
    BY <1>1, <1>3 DEF Publish, updater
  <2>2. /\ clients'[Auth].offer = updater.offer /\ clients[Auth].epoch \in Nat
        /\ clients'[Auth].epoch \in {clients[Auth].epoch, clients[Auth].epoch + 1}
    BY <1>1, <2>1, Registers
  <2>3. updater'.pc = "idle" /\ updater'.fence = 0
    BY <1>2, <1>3
  <2>4. Attempts' /\ Ordered'
    BY <1>1, <1>2, <2>2, <2>3, WorkerFacts
    DEF Registering, Attempts, Attempting, Ordered, Stale, OfferFor
  <2>5. CASE updater.offer = OfferFor(auth.inputs)
    BY <1>1, <2>2, <2>4, <2>5 DEF Registering, Promised, Done, OfferFor
  <2>6. CASE updater.offer # OfferFor(auth.inputs)
    <3>1. Stale
      BY <1>1, <1>3, <2>6 DEF Stale
    <3>2. auth.inputs \in Inputs /\ FirstAttempt
      BY <3>1, NothingStale DEF Registering, Ordered
    <3>3. FollowerWill' /\ auth'.inputs \in Inputs
      BY <1>1, <1>2, <3>2 DEF FirstAttempt, FollowerWill, Attempting
    <3> QED
      BY <2>4, <3>3 DEF Registering, Promised
  <2> QED
    BY <2>5, <2>6
<1>4. CASE ~Fenced(updater)
  <2>1. clients' = clients
    BY <1>1, <1>4 DEF Publish, registry
  <2>2. updater'.pc \in {"snapshot", "idle"} /\ updater'.fence \in {0, updater.fence}
    BY <1>2
  <2>3. Attempts' /\ Ordered'
    BY <1>1, <1>2, <2>1, <2>2, WorkerFacts
    DEF Registering, Attempts, Attempting, Ordered, Stale, OfferFor
  <2>4. CASE updater.left = 2
    BY <1>2, <1>4, <2>3, <2>4 DEF Registering, Promised, UpdaterWill
  <2>5. CASE updater.left # 2
    <3>1. ~UpdaterWill
      BY <1>1, <1>4, <2>5 DEF UpdaterWill
    <3> QED
      BY <1>0, <1>1, <1>2, <2>1, <2>3, <3>1
      DEF Registering, Promised, Done, FollowerWill, OfferFor, Fenced, Attempting
  <2> QED
    BY <2>4, <2>5
<1> QED
  BY <1>3, <1>4

LEMMA PublishCatalog ==
  ASSUME TypeOK, Registering, Publish("catalog")
  PROVE  Registering'
<1>0. /\ crossed => crossed'
      /\ Current("catalog") /\ updater.pc = "forget" => crossed'
  BY DEF Publish, updater
<1>1. /\ UNCHANGED <<catalog, auth>> /\ follower.pc = "publish"
      /\ AfterAttempt("catalog", Current("catalog"))
      /\ follower.offer = OfferFor(follower.snap.inputs) /\ follower.offer \in Offering
      /\ follower.left \in {1, 2}
      /\ Current("catalog") <=> auth = follower.snap /\ Fenced(follower)
  BY WorkerFacts
  DEF Publish, Registering, Attempts, Attempting, Current, Fenced, follower, Busy, WorkerType
<1>2. /\ updater' = updater
      /\ IF follower.left = 2
         THEN follower'.pc = "snapshot" /\ follower'.left = 1 /\ follower'.fence = follower.fence
         ELSE follower'.pc = "idle" /\ follower'.fence = 0
  BY <1>1, AttemptEnds DEF updater, follower, Worker
<1>3. follower'.pc \in {"snapshot", "idle"} /\ follower'.fence \in {0, follower.fence}
  BY <1>2
<1>4. CASE Current("catalog")
  <2>1. RegisterClient(Auth, follower.offer)
    BY <1>4 DEF Publish, follower
  <2>2. /\ clients'[Auth].offer = follower.offer /\ clients[Auth].epoch \in Nat
        /\ clients'[Auth].epoch \in {clients[Auth].epoch, clients[Auth].epoch + 1}
        /\ follower.offer # NoOffer => clients'[Auth].epoch = clients[Auth].epoch + 1
    BY <1>1, <2>1, Registers
  <2>3. follower.offer = OfferFor(auth.inputs)
    BY <1>1, <1>4
  <2>4. Attempts'
    BY <1>0, <1>1, <1>2, <1>3, <1>4, <2>2, WorkerFacts
    DEF Registering, Attempts, Attempting, OfferFor
  <2>5. Promised'
    BY <1>1, <2>2, <2>3 DEF Promised, Done, OfferFor
  <2>6. ~Stale'
    <3>1. CASE auth.inputs \in Inputs
      <4>1. follower.offer # NoOffer
        BY <2>3, <3>1, OfferTypes, ModelRegistrationAssumption
        DEF OfferFor, TypeOK, FlowTypes
      <4>2. updater.fence < clients'[Auth].epoch
        BY <2>2, <4>1, WorkerFacts DEF Registering, Attempts
      <4> QED
        BY <1>2, <2>2, <4>2, WorkerFacts DEF Stale, Fenced
    <3>2. CASE auth.inputs \notin Inputs
      <4>1. updater.pc = "publish" => updater.offer = NoOffer
        BY <3>2, WorkerFacts DEF Registering, Attempts, Busy
      <4> QED
        BY <1>1, <1>2, <3>2, <4>1 DEF Stale, OfferFor
    <3> QED
      BY <3>1, <3>2
  <2> QED
    BY <2>4, <2>5, <2>6 DEF Registering, Ordered
<1>5. CASE ~Current("catalog")
  <2>1. clients' = clients
    BY <1>5 DEF Publish, registry
  <2>2. Attempts'
    BY <1>0, <1>1, <1>2, <1>3, <2>1, WorkerFacts
    DEF Registering, Attempts, Attempting, OfferFor
  <2>3. Promised'
    <3>1. CASE follower.left = 2 /\ auth.inputs \in Inputs
      BY <1>1, <1>2, <3>1 DEF Promised, FollowerWill
    <3>2. CASE follower.left = 1 \/ auth.inputs \notin Inputs
      <4>1. ~(auth.inputs \in Inputs /\ FollowerWill)
        BY <1>1, <1>5, <3>2 DEF FollowerWill, Attempting
      <4> QED
        BY <1>0, <1>1, <1>2, <2>1, <4>1
        DEF Registering, Promised, Done, UpdaterWill, OfferFor, Fenced
    <3> QED
      BY <1>1, <3>1, <3>2
  <2>4. ~Stale'
    <3>1. ~FirstAttempt
      BY <1>1, <1>5 DEF FirstAttempt, Attempting
    <3> QED
      BY <1>1, <1>2, <2>1, <3>1 DEF Registering, Ordered, Stale, OfferFor, Fenced
  <2> QED
    BY <2>2, <2>3, <2>4 DEF Registering, Ordered
<1> QED
  BY <1>4, <1>5

LEMMA RegisteringStep ==
  ASSUME TypeOK, Registering, [Next]_vars
  PROVE  Registering'
<1>1. CASE \/ Tick \/ ListModels \/ UNCHANGED vars
           \/ \E c \in Clients, m \in Models : Dispatch(c, m)
           \/ \E r \in running, o \in {"ok", "quota", "other"} : MarkResult(r, o)
  <2>1. UNCHANGED <<catalog, auth, workers, clients, crossed>>
    BY <1>1 DEF Tick, ListModels, GetAvailableModels, Dispatch, MarkResult, vars, registry, flow
  <2> QED
    BY <2>1, RegisteringSame
<1>2. ASSUME NEW k \in marks, ApplyMark(k)
      PROVE  Registering'
  <2>1. UNCHANGED flow
    BY <1>2 DEF ApplyMark
  <2>2. clients' = clients
    BY <1>2, ApplyMarkChange DEF Marking, Mark, registry
  <2> QED
    BY <2>1, <2>2, RegisteringSame DEF flow
<1> QED
  BY <1>1, <1>2, UpdateStep, RemovalStep, ForgetStep, CatalogStep, SnapshotStep,
     FenceStep, ResolveStep, PublishUpdates, PublishCatalog
  DEF Next, Worker

\* RegisteredIsCurrent: of the two goroutines that register the models of a
\* credential, neither with a lock over its work, the fence of
\* modelRegistrationFence and the second attempts let none leave behind what an
\* older snapshot or catalog yielded.  Only a credential that is gone may have
\* something left, if its removal was crossed by a registration of the other.
THEOREM RegisteredBecomesCurrent == Spec => []RegisteredIsCurrent
<1>1. Init => Registering
  <2>1. ASSUME Init PROVE /\ updater = IdleWorker /\ follower = IdleWorker
                          /\ auth = NoAuth /\ clients[Auth].offer = NoOffer
                          /\ clients[Auth].epoch = 0
    BY <2>1, ModelRegistrationAssumption DEF Init, updater, follower, Worker
  <2> QED
    BY <2>1, ModelRegistrationAssumption
    DEF Registering, Attempts, Promised, Ordered, Done, Stale, OfferFor, Attempting,
        IdleWorker, NoAuth
<1>2. TypeOK /\ Registering /\ [Next]_vars => Registering'
  BY RegisteringStep
<1>3. Registering => RegisteredIsCurrent
  BY DEF Registering, Promised, Done, UpdaterWill, FollowerWill, Attempting, Idle,
         RegisteredIsCurrent, OfferFor, updater, follower, Worker, Present
<1> QED
  BY <1>1, <1>2, <1>3, TypesCorrect, PTL DEF Spec

=============================================================================
