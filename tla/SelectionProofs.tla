---------------------------- MODULE SelectionProofs ----------------------------
(***************************************************************************)
(* Theorems about Selection, for any finite set of credentials with any    *)
(* profiles, any providers, cooldowns and sets of credentials tried.       *)
(***************************************************************************)
EXTENDS Selection, FiniteSetTheorems, WellFoundedInduction, TLAPS

-----------------------------------------------------------------------------
(* Numbers and finite sets.                                                *)

\* The naturals are well ordered.
LEMMA LeastNumber ==
  ASSUME NEW S, S \subseteq Nat, S # {}
  PROVE  \E m \in S : \A k \in S : m <= k
<1>1. PICK m \in S : \A k \in S : ~ (<<k, m>> \in OpToRel(<, Nat))
  BY NatLessThanWellFounded, WFMin
<1>2. \A k \in S : ~ (k < m)
  BY <1>1 DEF OpToRel
<1> QED
  BY <1>2

\* A non-empty set of subsets of a finite set has a minimal member.
LEMMA MinSubset ==
  ASSUME NEW S, IsFiniteSet(S), NEW T \in SUBSET SUBSET S, T # {}
  PROVE  \E x \in T : \A y \in T : y \subseteq x => y = x
<1>1. T \subseteq FiniteSubsetsOf(S)
  BY FS_FiniteSubsetsOfFinite
<1>2. \E x \in T : \A y \in T : ~ (<<y, x>> \in StrictSubsetOrdering(S))
  BY <1>1, FS_StrictSubsetOrderingWellFounded, WFMin
<1> QED
  BY <1>2 DEF StrictSubsetOrdering

\* What Min chooses.
LEMMA MinIsLeast ==
  ASSUME NEW S, S \subseteq Nat, S # {}
  PROVE  Min(S) \in S /\ \A k \in S : Min(S) <= k
  BY LeastNumber DEF Min

Chosen(s) == CHOOSE x \in s : TRUE

\* f is the recursive function by which MapThenSumSet adds F up over S.
Adds(f, F, S) ==
  f = [s \in SUBSET S |-> IF s = {} THEN 0 ELSE F[Chosen(s)] + f[s \ {Chosen(s)}]]

\* What it chooses is one of them.
LEMMA ChosenIn ==
  ASSUME NEW s, s # {}
  PROVE  Chosen(s) \in s
  BY DEF Chosen

\* Two such functions agree on the sets they both have.
LEMMA AddsUnique ==
  ASSUME NEW F, NEW S, NEW T, NEW f, NEW g, Adds(f, F, S), Adds(g, F, T),
         NEW U, IsFiniteSet(U), U \subseteq S, U \subseteq T
  PROVE  f[U] = g[U]
<1> DEFINE Bad == {s \in SUBSET U : f[s] # g[s]}
<1> SUFFICES ASSUME Bad # {} PROVE FALSE
  OBVIOUS
<1>1. PICK s \in Bad : \A t \in Bad : t \subseteq s => t = s
  <2>1. Bad \in SUBSET SUBSET U
    OBVIOUS
  <2> HIDE DEF Bad
  <2> QED
    BY <2>1, MinSubset
<1>2. s \in SUBSET S /\ s \in SUBSET T
  OBVIOUS
<1>3. /\ f[s] = IF s = {} THEN 0 ELSE F[Chosen(s)] + f[s \ {Chosen(s)}]
      /\ g[s] = IF s = {} THEN 0 ELSE F[Chosen(s)] + g[s \ {Chosen(s)}]
  BY <1>2 DEF Adds
<1>4. CASE s = {}
  BY <1>3, <1>4
<1>5. CASE s # {}
  <2>1. /\ s \ {Chosen(s)} # s /\ s \ {Chosen(s)} \subseteq s
        /\ s \ {Chosen(s)} \in SUBSET U
    BY <1>5, ChosenIn
  <2>2. f[s \ {Chosen(s)}] = g[s \ {Chosen(s)}]
    BY <1>1, <2>1
  <2> QED
    BY <1>3, <1>5, <2>2
<1> QED
  BY <1>4, <1>5

\* There is such a function for every finite set.
LEMMA AddsExists ==
  ASSUME NEW F, NEW S, IsFiniteSet(S)
  PROVE  \E f : Adds(f, F, S)
<1> DEFINE Bad == {T \in SUBSET S : ~\E f : Adds(f, F, T)}
<1> SUFFICES ASSUME Bad # {} PROVE FALSE
  OBVIOUS
<1>1. PICK T \in Bad : \A U \in Bad : U \subseteq T => U = T
  <2>1. Bad \in SUBSET SUBSET S
    OBVIOUS
  <2> HIDE DEF Bad
  <2> QED
    BY <2>1, MinSubset
<1> DEFINE g(U) == CHOOSE f : Adds(f, F, U)
           h == [s \in SUBSET T |->
                  IF s = {} THEN 0
                  ELSE F[Chosen(s)] + g(s \ {Chosen(s)})[s \ {Chosen(s)}]]
<1>2. ASSUME NEW U \in SUBSET T, U # T
      PROVE  Adds(g(U), F, U)
  <2>1. \E f : Adds(f, F, U)
    BY <1>1, <1>2
  <2> QED
    BY <2>1
<1>3. ASSUME NEW s \in SUBSET T, s # {}
      PROVE  h[s] = F[Chosen(s)] + h[s \ {Chosen(s)}]
  <2> DEFINE u == s \ {Chosen(s)}
  <2>1. u \in SUBSET T /\ u # T /\ IsFiniteSet(u)
    BY <1>3, ChosenIn, FS_Subset
  <2>2. h[s] = F[Chosen(s)] + g(u)[u]
    BY <1>3
  <2>3. h[u] = g(u)[u]
    <3> HIDE DEF u
    <3>1. Adds(g(u), F, u)
      BY <1>2, <2>1
    <3>2. u \in SUBSET u
      OBVIOUS
    <3>3. g(u)[u] = IF u = {} THEN 0
                    ELSE F[Chosen(u)] + g(u)[u \ {Chosen(u)}]
      <4> HIDE DEF g
      <4> QED
        BY <3>1, <3>2 DEF Adds
    <3>4. CASE u = {}
      <4>1. h[u] = 0
        BY <2>1, <3>4
      <4> HIDE DEF g, h
      <4> QED
        BY <3>3, <3>4, <4>1
    <3>5. CASE u # {}
      <4> DEFINE v == u \ {Chosen(u)}
      <4>1. v \in SUBSET T /\ v # T /\ IsFiniteSet(v) /\ v \subseteq u
        BY <2>1, <3>5, ChosenIn, FS_Subset
      <4>2. h[u] = F[Chosen(u)] + g(v)[v]
        BY <2>1, <3>5
      <4>3. g(u)[v] = g(v)[v]
        <5>1. Adds(g(v), F, v)
          BY <1>2, <4>1
        <5> HIDE DEF g, v
        <5> QED
          BY <3>1, <4>1, <5>1, AddsUnique
      <4> HIDE DEF g, h
      <4> QED
        BY <3>3, <3>5, <4>2, <4>3
    <3> QED
      BY <3>4, <3>5
  <2> HIDE DEF g, h
  <2> QED
    BY <2>2, <2>3
<1>4. Adds(h, F, T)
  <2>1. h = [s \in SUBSET T |-> IF s = {} THEN 0
                                ELSE F[Chosen(s)] + h[s \ {Chosen(s)}]]
    <3> DEFINE k == [s \in SUBSET T |-> IF s = {} THEN 0
                                        ELSE F[Chosen(s)] + h[s \ {Chosen(s)}]]
    <3>1. DOMAIN h = SUBSET T /\ h = [s \in SUBSET T |-> h[s]]
      OBVIOUS
    <3>2. h[{}] = 0
      OBVIOUS
    <3> HIDE DEF h
    <3>3. \A s \in SUBSET T : h[s] = k[s]
      BY <1>3, <3>2
    <3> QED
      BY <3>1, <3>3
  <2> HIDE DEF h
  <2> QED
    BY <2>1 DEF Adds
<1> HIDE DEF h
<1> QED
  BY <1>1, <1>4

\* MapThenSumSet(LAMBDA x : F[x], S), without the operator parameter.
Total(F, S) == (CHOOSE f : Adds(f, F, S))[S]

\* A sum of naturals is a natural, and no less than any of them.
LEMMA SumFacts ==
  ASSUME NEW S, IsFiniteSet(S), NEW F, \A x \in S : F[x] \in Nat
  PROVE  Total(F, S) \in Nat /\ \A x \in S : F[x] <= Total(F, S)
<1> DEFINE f == CHOOSE f : Adds(f, F, S)
<1>1. Adds(f, F, S)
  BY AddsExists
<1>2. Total(F, S) = f[S]
  BY DEF Total
<1> HIDE DEF f
<1>3. \A T \in SUBSET S : f[T] = IF T = {} THEN 0 ELSE F[Chosen(T)] + f[T \ {Chosen(T)}]
  BY <1>1 DEF Adds
<1> DEFINE Sums(T) == f[T] \in Nat /\ \A x \in T : F[x] <= f[T]
           Bad == {T \in SUBSET S : ~Sums(T)}
<1>4. ASSUME Bad # {} PROVE FALSE
  <2>1. PICK T \in Bad : \A U \in Bad : U \subseteq T => U = T
    <3>1. Bad \in SUBSET SUBSET S
      OBVIOUS
    <3> HIDE DEF Bad
    <3> QED
      BY <1>4, <3>1, MinSubset
  <2>2. T \subseteq S /\ ~Sums(T)
    BY <2>1
  <2>3. CASE T = {}
    <3>1. f[T] = 0
      <4> HIDE DEF Sums
      <4> QED
        BY <1>3, <2>2, <2>3
    <3> QED
      BY <2>2, <2>3, <3>1
  <2>4. CASE T # {}
    <3>1. PICK c, U : c = Chosen(T) /\ U = T \ {c}
      OBVIOUS
    <3>2. c \in T /\ U \subseteq T /\ U # T
      BY <2>4, <3>1, ChosenIn
    <3>3. Sums(U)
      <4>1. U \in SUBSET S
        BY <2>2, <3>2
      <4> HIDE DEF Sums
      <4> QED
        BY <2>1, <3>2, <4>1
    <3>4. f[T] = F[c] + f[U]
      BY <1>3, <2>2, <2>4, <3>1
    <3>5. F[c] \in Nat /\ \A x \in T : F[x] \in Nat /\ (x = c \/ x \in U)
      BY <2>2, <3>1, <3>2
    <3> QED
      BY <2>2, <3>3, <3>4, <3>5
  <2> QED
    BY <2>3, <2>4
<1>5. Sums(S)
  <2>1. S \in SUBSET S
    OBVIOUS
  <2> HIDE DEF Sums
  <2> QED
    BY <1>4, <2>1
<1> QED
  BY <1>2, <1>5

\* What holds of a set whenever it holds of the set without the member that is added up
\* first holds of every finite set.
LEMMA SumInduction ==
  ASSUME NEW S, NEW Good, IsFiniteSet(S),
         \A T \in SUBSET S : T = {} \/ T \ {Chosen(T)} \in Good => T \in Good
  PROVE  S \in Good
<1> DEFINE Bad == {T \in SUBSET S : T \notin Good}
<1>1. ASSUME Bad # {} PROVE FALSE
  <2>1. PICK T \in Bad : \A U \in Bad : U \subseteq T => U = T
    <3>1. Bad \in SUBSET SUBSET S
      OBVIOUS
    <3> HIDE DEF Bad
    <3> QED
      BY <1>1, <3>1, MinSubset
  <2>2. T \in SUBSET S /\ T \notin Good /\ T # {}
    BY <2>1
  <2>3. PICK U : U = T \ {Chosen(T)}
    OBVIOUS
  <2>4. U \subseteq T /\ U # T
    BY <2>2, <2>3, ChosenIn
  <2>5. U \in Good
    BY <2>1, <2>2, <2>4
  <2> QED
    BY <2>2, <2>3, <2>5
<1> QED
  BY <1>1

\* f has the sums of the subsets of S.
Sums(f, F, S) ==
  \A T \in SUBSET S : f[T] = IF T = {} THEN 0 ELSE F[Chosen(T)] + f[T \ {Chosen(T)}]

LEMMA TotalIsSum ==
  ASSUME NEW S, IsFiniteSet(S), NEW F
  PROVE  \E f : Total(F, S) = f[S] /\ Sums(f, F, S)
<1> DEFINE f == CHOOSE f : Adds(f, F, S)
<1>1. Adds(f, F, S)
  BY AddsExists
<1>2. Total(F, S) = f[S]
  BY DEF Total
<1> HIDE DEF f
<1>3. Sums(f, F, S)
  BY <1>1 DEF Adds, Sums
<1> QED
  BY <1>2, <1>3

LEMMA SumOfNone ==
  ASSUME NEW S, NEW f, NEW F, Sums(f, F, S)
  PROVE  f[{}] = 0
<1>1. {} \in SUBSET S
  OBVIOUS
<1> QED
  BY <1>1 DEF Sums

\* Sums are additive.
LEMMA TotalAdds ==
  ASSUME NEW S, NEW F, NEW G, NEW H, IsFiniteSet(S),
         \A x \in S : F[x] \in Int /\ G[x] \in Int /\ H[x] = F[x] + G[x]
  PROVE  /\ Total(F, S) \in Int /\ Total(G, S) \in Int
         /\ Total(H, S) = Total(F, S) + Total(G, S)
<1>1. PICK f : Total(F, S) = f[S] /\ Sums(f, F, S)
  BY TotalIsSum
<1>2. PICK g : Total(G, S) = g[S] /\ Sums(g, G, S)
  BY TotalIsSum
<1>3. PICK h : Total(H, S) = h[S] /\ Sums(h, H, S)
  BY TotalIsSum
<1> DEFINE Good == {T \in SUBSET S : f[T] \in Int /\ g[T] \in Int /\ h[T] = f[T] + g[T]}
<1>4. ASSUME NEW T \in SUBSET S, T = {} \/ T \ {Chosen(T)} \in Good PROVE T \in Good
  <2>1. CASE T = {}
    <3>1. f[{}] = 0 /\ g[{}] = 0 /\ h[{}] = 0
      BY <1>1, <1>2, <1>3, SumOfNone
    <3> QED
      BY <2>1, <3>1
  <2>2. CASE T # {}
    <3>1. PICK c, U : c = Chosen(T) /\ U = T \ {c}
      OBVIOUS
    <3>2. c \in S
      BY <2>2, <3>1, ChosenIn
    <3>3. f[U] \in Int /\ g[U] \in Int /\ h[U] = f[U] + g[U]
      BY <1>4, <2>2, <3>1
    <3>4. f[T] = F[c] + f[U]
      BY <1>1, <2>2, <3>1 DEF Sums
    <3>5. g[T] = G[c] + g[U]
      BY <1>2, <2>2, <3>1 DEF Sums
    <3>6. h[T] = H[c] + h[U]
      BY <1>3, <2>2, <3>1 DEF Sums
    <3>7. F[c] \in Int /\ G[c] \in Int /\ H[c] = F[c] + G[c]
      BY <3>2
    <3> QED
      BY <3>3, <3>4, <3>5, <3>6, <3>7
  <2> QED
    BY <2>1, <2>2
<1>5. S \in Good
  <2> HIDE DEF Good
  <2> QED
    BY <1>4, SumInduction
<1> QED
  BY <1>1, <1>2, <1>3, <1>5

\* What one of them gives away is missing from the sum.
LEMMA TotalPays ==
  ASSUME NEW S, NEW F, NEW G, NEW w \in S, NEW v \in Int, IsFiniteSet(S),
         \A x \in S : F[x] \in Int /\ G[x] = IF x = w THEN F[x] - v ELSE F[x]
  PROVE  Total(G, S) = Total(F, S) - v
<1>1. PICK f : Total(F, S) = f[S] /\ Sums(f, F, S)
  BY TotalIsSum
<1>2. PICK g : Total(G, S) = g[S] /\ Sums(g, G, S)
  BY TotalIsSum
<1> DEFINE Good == {T \in SUBSET S :
                      f[T] \in Int /\ g[T] = IF w \in T THEN f[T] - v ELSE f[T]}
<1>3. ASSUME NEW T \in SUBSET S, T = {} \/ T \ {Chosen(T)} \in Good PROVE T \in Good
  <2>1. CASE T = {}
    <3>1. f[{}] = 0 /\ g[{}] = 0
      BY <1>1, <1>2, SumOfNone
    <3> QED
      BY <2>1, <3>1
  <2>2. CASE T # {}
    <3>1. PICK c, U : c = Chosen(T) /\ U = T \ {c}
      OBVIOUS
    <3>2. c \in T
      BY <2>2, <3>1, ChosenIn
    <3>3. f[U] \in Int /\ g[U] = IF w \in U THEN f[U] - v ELSE f[U]
      BY <1>3, <2>2, <3>1
    <3>4. f[T] = F[c] + f[U]
      BY <1>1, <2>2, <3>1 DEF Sums
    <3>5. g[T] = G[c] + g[U]
      BY <1>2, <2>2, <3>1 DEF Sums
    <3>6. F[c] \in Int /\ G[c] = IF c = w THEN F[c] - v ELSE F[c]
      BY <3>2
    <3>7. CASE c = w
      <4>1. w \in T /\ w \notin U
        BY <3>1, <3>2, <3>7
      <4> QED
        BY <3>3, <3>4, <3>5, <3>6, <3>7, <4>1
    <3>8. CASE c # w
      <4>1. w \in T <=> w \in U
        BY <3>1, <3>8
      <4> QED
        BY <3>3, <3>4, <3>5, <3>6, <3>8, <4>1
    <3> QED
      BY <3>7, <3>8
  <2> QED
    BY <2>1, <2>2
<1>4. S \in Good
  <2> HIDE DEF Good
  <2> QED
    BY <1>3, SumInduction
<1> QED
  BY <1>1, <1>2, <1>4

\* A positive sum has a positive part.
LEMMA TotalPositive ==
  ASSUME NEW S, NEW F, IsFiniteSet(S), \A x \in S : F[x] \in Int, Total(F, S) > 0
  PROVE  \E x \in S : F[x] > 0
<1> SUFFICES ASSUME \A x \in S : F[x] <= 0 PROVE FALSE
  OBVIOUS
<1>1. PICK f : Total(F, S) = f[S] /\ Sums(f, F, S)
  BY TotalIsSum
<1> DEFINE Good == {T \in SUBSET S : f[T] \in Int /\ f[T] <= 0}
<1>2. ASSUME NEW T \in SUBSET S, T = {} \/ T \ {Chosen(T)} \in Good PROVE T \in Good
  <2>1. CASE T = {}
    <3>1. f[{}] = 0
      BY <1>1, SumOfNone
    <3> QED
      BY <2>1, <3>1
  <2>2. CASE T # {}
    <3>1. PICK c, U : c = Chosen(T) /\ U = T \ {c}
      OBVIOUS
    <3>2. f[T] = F[c] + f[U]
      BY <1>1, <2>2, <3>1 DEF Sums
    <3>3. F[c] \in Int /\ F[c] <= 0
      BY <2>2, <3>1, ChosenIn
    <3>4. f[U] \in Int /\ f[U] <= 0
      BY <1>2, <2>2, <3>1
    <3> QED
      BY <3>2, <3>3, <3>4
  <2> QED
    BY <2>1, <2>2
<1>3. S \in Good
  <2> HIDE DEF Good
  <2> QED
    BY <1>2, SumInduction
<1> QED
  BY <1>1, <1>3

\* If no part owes as much as v, the sum is more than as many times -v, and no part is
\* further above the sum.
LEMMA TotalBounds ==
  ASSUME NEW S, NEW F, NEW v \in Nat, IsFiniteSet(S),
         \A x \in S : F[x] \in Int /\ F[x] + v >= 0
  PROVE  \A x \in S : F[x] <= Total(F, S) + v * Cardinality(S)
<1>1. PICK f : Total(F, S) = f[S] /\ Sums(f, F, S)
  BY TotalIsSum
<1> DEFINE n(T) == Cardinality(T)
           Good == {T \in SUBSET S : /\ f[T] \in Int /\ f[T] + v * n(T) >= 0
                                     /\ \A x \in T : F[x] <= f[T] + v * n(T)}
<1>2. ASSUME NEW T \in SUBSET S, T = {} \/ T \ {Chosen(T)} \in Good PROVE T \in Good
  <2>1. CASE T = {}
    <3>1. f[T] = 0 /\ n(T) = 0
      BY <1>1, <2>1, SumOfNone, FS_EmptySet
    <3>2. v * n(T) = 0
      BY <3>1
    <3> QED
      BY <2>1, <3>1, <3>2
  <2>2. CASE T # {}
    <3>1. PICK c, U : c = Chosen(T) /\ U = T \ {c}
      OBVIOUS
    <3>2. c \in T
      BY <2>2, <3>1, ChosenIn
    <3>3. f[T] = F[c] + f[U]
      BY <1>1, <2>2, <3>1 DEF Sums
    <3>4. F[c] \in Int /\ F[c] + v >= 0
      BY <3>2
    <3>5. /\ f[U] \in Int /\ f[U] + v * n(U) >= 0
          /\ \A x \in U : F[x] <= f[U] + v * n(U)
      BY <1>2, <2>2, <3>1
    <3>6. n(U) \in Nat /\ n(T) = n(U) + 1
      <4>1. IsFiniteSet(T) /\ IsFiniteSet(U)
        BY <3>1, FS_Subset
      <4> QED
        BY <3>1, <3>2, <4>1, FS_RemoveElement, FS_CardinalityType
    <3> HIDE DEF n
    <3>7. PICK k : k = v * n(U) /\ k \in Nat
      BY <3>6
    <3>8. v * n(T) = k + v
      BY <3>6, <3>7
    <3>9. f[T] \in Int /\ f[T] + (k + v) >= 0
      BY <3>3, <3>4, <3>5, <3>7
    <3>10. ASSUME NEW x \in T PROVE F[x] <= f[T] + (k + v)
      <4>1. CASE x = c
        BY <3>3, <3>4, <3>5, <3>7, <4>1
      <4>2. CASE x # c
        <5>1. x \in U /\ F[x] \in Int
          BY <3>1, <4>2
        <5>2. F[x] <= f[U] + k
          BY <3>5, <3>7, <5>1
        <5> QED
          BY <3>3, <3>4, <3>5, <3>7, <5>1, <5>2
      <4> QED
        BY <4>1, <4>2
    <3> QED
      BY <3>8, <3>9, <3>10
  <2> QED
    BY <2>1, <2>2
<1>3. S \in Good
  <2> HIDE DEF Good
  <2> QED
    BY <1>2, SumInduction
<1> QED
  BY <1>1, <1>3

\* Some member of a finite set is the richest.
LEMMA SomeRichest ==
  ASSUME NEW S, IsFiniteSet(S), NEW f, \A x \in S : f[x] \in Int
  PROVE  \A T \in SUBSET S : T # {} => \E x \in T : \A y \in T : f[y] <= f[x]
<1> DEFINE Bad == {T \in SUBSET S : T # {} /\ ~\E x \in T : \A y \in T : f[y] <= f[x]}
<1> SUFFICES ASSUME Bad # {} PROVE FALSE
  OBVIOUS
<1>1. PICK T \in Bad : \A U \in Bad : U \subseteq T => U = T
  <2>1. Bad \in SUBSET SUBSET S
    OBVIOUS
  <2> HIDE DEF Bad
  <2> QED
    BY <2>1, MinSubset
<1>2. PICK z \in T : TRUE
  OBVIOUS
<1>3. \A x \in T : f[x] \in Int
  BY <1>1
<1>4. T \ {z} # {}
  BY <1>1, <1>2, <1>3
<1>5. T \ {z} \in SUBSET S /\ T \ {z} \notin Bad
  BY <1>1, <1>2
<1>6. PICK x \in T \ {z} : \A y \in T \ {z} : f[y] <= f[x]
  BY <1>4, <1>5
<1>7. CASE f[z] <= f[x]
  BY <1>1, <1>6, <1>7
<1>8. CASE ~(f[z] <= f[x])
  <2>1. \A y \in T : f[y] <= f[z]
    BY <1>2, <1>3, <1>6, <1>8
  <2> QED
    BY <1>1, <2>1
<1> QED
  BY <1>7, <1>8

-----------------------------------------------------------------------------
(* Shards.                                                                 *)

Cursor == [last : Nat, owed : SUBSET (Nat \X Nat)]
Entry == [state : {"out", "ready", "blocked"}, next : Nat]
Shard == [built : BOOLEAN, entries : [Auths -> Entry],
          ready : [Priorities -> [Views -> SUBSET Auths]], blocked : SUBSET Auths,
          cursors : [Priorities -> [Views -> Cursor]]]
Credential == [there : BOOLEAN, priority : Nat, weight : Nat, ws : BOOLEAN,
               retry : Nat, expires : Nat]
Credentials == {cs \in [Auths -> Credential] :
                  \A a \in Auths : cs[a].there => cs[a].priority \in Priorities}

\* Going round the credentials from waiting, one meets who no later than last.
Passed(waiting, who, last) ==
  IF waiting < last THEN waiting < who /\ who <= last
  ELSE last < waiting /\ (who > waiting \/ who <= last)

\* Who was picked while another was waiting is behind the one that waits.
InTurn(cursor) == \A o \in cursor.owed : Passed(o[2], o[1], cursor.last)
AllInTurn(s) == \A q \in Priorities, v \in Views : InTurn(s.cursors[q][v])

\* The views are made from the entries.
Indexed(s, cs) ==
  /\ \A q \in Priorities, v \in Views, a \in Auths :
       a \in s.ready[q][v] <=>
         s.entries[a].state = "ready" /\ cs[a].priority = q /\ (v = "ws" => cs[a].ws)
  /\ \A a \in Auths : a \in s.blocked <=> s.entries[a].state = "blocked"

\* An entry was right when it was made: time may have brought the end of its cooldown
\* or of its token since.
Entered(e, c, now) ==
  \/ e.state = "ready" /\ c.retry <= now
  \/ e.state = "blocked" /\ e.next = 0 /\ Expired(c, now)
  \/ e.state = "blocked" /\ e.next # 0 /\ e.next = c.retry

Entries(s, p, cs, now) ==
  \A a \in Auths : IF cs[a].there /\ ProviderOf[a] = p
                   THEN Entered(s.entries[a], cs[a], now)
                   ELSE s.entries[a].state = "out"

ShardOK(s, p, cs, now) ==
  /\ s \in Shard /\ AllInTurn(s)
  /\ s.built => Indexed(s, cs) /\ Entries(s, p, cs, now)

\* The same for a shard that has been built, and the credentials it is about.
Filled(s, p, cs, now) == ShardOK(s, p, cs, now) /\ s.built
Served(p, cs) == {a \in Auths : cs[a].there /\ ProviderOf[a] = p}

\* The assumption of Selection, as the proofs use it.
LEMMA Constants ==
  /\ Auths \subseteq Nat \ {0} /\ IsFiniteSet(Auths)
  /\ \A a \in Auths : ProviderOf[a] \in Provider
  /\ DOMAIN Providers \subseteq Nat \ {0} /\ IsFiniteSet(DOMAIN Providers)
<1>1. PICK n \in Nat : DOMAIN Providers = 1..n
  BY SelectionAssumption
<1>2. IsFiniteSet(1..n)
  BY FS_Interval
<1>3. 1..n \subseteq Nat \ {0}
  OBVIOUS
<1> QED
  BY <1>1, <1>2, <1>3, SelectionAssumption DEF Provider

\* A shard that has been dropped and a view without a history.
LEMMA CleanTypes ==
  /\ NoCursor \in Cursor /\ InTurn(NoCursor)
  /\ Out \in Entry
  /\ NoShard \in Shard /\ AllInTurn(NoShard) /\ ~NoShard.built
<1>1. NoCursor \in Cursor /\ InTurn(NoCursor)
  BY DEF NoCursor, Cursor, InTurn
<1>2. Out \in Entry
  BY DEF Out, Entry
<1>3. [q \in Priorities |-> NoBucket] \in [Priorities -> [Views -> SUBSET Auths]]
  BY DEF NoBucket
<1>4. PICK curs : curs = [q \in Priorities |-> [v \in Views |-> NoCursor]]
  OBVIOUS
<1>5. /\ curs \in [Priorities -> [Views -> Cursor]]
      /\ \A q \in Priorities, v \in Views : curs[q][v] = NoCursor
  BY <1>1, <1>4
<1>6. NoShard \in Shard /\ NoShard.cursors = curs /\ ~NoShard.built
  BY <1>2, <1>3, <1>4, <1>5 DEF NoShard, Shard
<1> QED
  BY <1>1, <1>2, <1>5, <1>6 DEF AllInTurn

\* The fields of credentials, shards and cursors, one by one.
LEMMA CredentialFields ==
  ASSUME NEW cs \in Credentials, NEW a \in Auths
  PROVE  /\ cs[a] \in Credential
         /\ cs[a].there \in BOOLEAN /\ cs[a].priority \in Nat /\ cs[a].weight \in Nat
         /\ cs[a].ws \in BOOLEAN /\ cs[a].retry \in Nat /\ cs[a].expires \in Nat
         /\ cs[a].there => cs[a].priority \in Priorities
  BY DEF Credentials, Credential

LEMMA ShardFields ==
  ASSUME NEW s \in Shard
  PROVE  /\ s.built \in BOOLEAN /\ s.entries \in [Auths -> Entry]
         /\ s.ready \in [Priorities -> [Views -> SUBSET Auths]] /\ s.blocked \subseteq Auths
         /\ s.cursors \in [Priorities -> [Views -> Cursor]]
         /\ \A q \in Priorities, v \in Views :
              s.cursors[q][v] \in Cursor /\ s.ready[q][v] \subseteq Auths
  BY DEF Shard

LEMMA CursorFields ==
  ASSUME NEW c \in Cursor
  PROVE  c.last \in Nat /\ c.owed \subseteq Nat \X Nat
  BY DEF Cursor

\* A rebuilt view keeps its place in the rotation.
LEMMA RestoredFacts ==
  ASSUME NEW cursor \in Cursor, NEW members, NEW c, c = Restored(cursor, members)
  PROVE  /\ c \in Cursor
         /\ InTurn(cursor) => InTurn(c)
<1>1. PICK owed : owed = {o \in cursor.owed : o[2] \in members}
  OBVIOUS
<1>2. c = [cursor EXCEPT !.owed = owed]
  BY <1>1 DEF Restored
<1>3. owed \subseteq cursor.owed /\ owed \subseteq Nat \X Nat
  BY <1>1, CursorFields
<1>4. c \in Cursor /\ c.last = cursor.last /\ c.owed = owed
  BY <1>2, <1>3 DEF Cursor
<1> QED
  BY <1>3, <1>4 DEF InTurn

\* rebuildIndexesLocked makes the views from the entries, whatever they were.
LEMMA RebuildFacts ==
  ASSUME NEW s \in Shard, NEW cs \in Credentials, NEW r, AllInTurn(s),
         r = RebuildIndexes(s, cs)
  PROVE  /\ r \in Shard /\ AllInTurn(r) /\ Indexed(r, cs)
         /\ r.entries = s.entries /\ (s.built => r.built)
<1>1. PICK ready : ready = {a \in Auths : s.entries[a].state = "ready"}
  OBVIOUS
<1>2. PICK bucket :
        bucket = [q \in Priorities |->
                    [v \in Views |-> {a \in ready : cs[a].priority = q /\ (v = "ws" => cs[a].ws)}]]
  OBVIOUS
<1>3. PICK blocked : blocked = {a \in Auths : s.entries[a].state = "blocked"}
  OBVIOUS
<1>4. PICK curs :
        curs = [q \in Priorities |-> [v \in Views |->
                  IF s.ready[q].all = {} \/ bucket[q].all = {} THEN NoCursor
                  ELSE Restored(s.cursors[q][v], bucket[q][v])]]
  OBVIOUS
<1>5. r = [s EXCEPT !.ready = bucket, !.blocked = blocked, !.cursors = curs]
  BY <1>1, <1>2, <1>3, <1>4 DEF RebuildIndexes
<1>6. ASSUME NEW q \in Priorities, NEW v \in Views
      PROVE  curs[q][v] \in Cursor /\ InTurn(curs[q][v])
  <2>1. curs[q][v] \in {NoCursor, Restored(s.cursors[q][v], bucket[q][v])}
    BY <1>4
  <2>2. s.cursors[q][v] \in Cursor /\ InTurn(s.cursors[q][v])
    BY ShardFields DEF AllInTurn
  <2> QED
    BY <2>1, <2>2, CleanTypes, RestoredFacts
<1>7. curs \in [Priorities -> [Views -> Cursor]]
  BY <1>4, <1>6
<1>8. bucket \in [Priorities -> [Views -> SUBSET Auths]] /\ blocked \subseteq Auths
  BY <1>1, <1>2, <1>3
<1>9. /\ r \in Shard /\ r.entries = s.entries /\ r.built = s.built
      /\ r.ready = bucket /\ r.blocked = blocked /\ r.cursors = curs
  BY <1>5, <1>7, <1>8 DEF Shard
<1>10. Indexed(r, cs)
  BY <1>1, <1>2, <1>3, <1>9 DEF Indexed
<1> QED
  BY <1>6, <1>9, <1>10 DEF AllInTurn

\* The same when some entries are set first.
LEMMA SetFacts ==
  ASSUME NEW s \in Shard, NEW cs \in Credentials, NEW who, NEW entry \in [Auths -> Entry],
         NEW r, AllInTurn(s), r = Set(s, cs, who, entry)
  PROVE  /\ r \in Shard /\ AllInTurn(r) /\ Indexed(r, cs) /\ (s.built => r.built)
         /\ \A a \in Auths : r.entries[a] = IF a \in who THEN entry[a] ELSE s.entries[a]
<1>1. PICK entries : entries = [a \in Auths |-> IF a \in who THEN entry[a] ELSE s.entries[a]]
  OBVIOUS
<1>2. PICK b : b = [s EXCEPT !.entries = entries]
  OBVIOUS
<1>3. entries \in [Auths -> Entry]
  BY <1>1, ShardFields
<1>4. b \in Shard /\ b.entries = entries /\ b.cursors = s.cursors /\ b.built = s.built
  BY <1>2, <1>3 DEF Shard
<1>5. r = RebuildIndexes(b, cs)
  BY <1>1, <1>2 DEF Set
<1>6. AllInTurn(b)
  BY <1>4 DEF AllInTurn
<1> QED
  BY <1>1, <1>4, <1>5, <1>6, RebuildFacts

\* isAuthBlockedForModel says ready exactly if nothing blocks the credential now.
LEMMA StateAtFacts ==
  ASSUME NEW c \in Credential, NEW now \in Nat
  PROVE  /\ StateAt(c, now) \in Entry /\ Entered(StateAt(c, now), c, now)
         /\ StateAt(c, now).state = "ready" <=> ~Expired(c, now) /\ c.retry <= now
         /\ StateAt(c, now).state \in {"ready", "blocked"}
<1>1. c.retry \in Nat /\ Expired(c, now) \in BOOLEAN
  BY DEF Credential, Expired
<1>2. CASE Expired(c, now)
  <2>1. StateAt(c, now) = [state |-> "blocked", next |-> 0]
    BY <1>2 DEF StateAt
  <2> QED
    BY <1>2, <2>1 DEF Entry, Entered
<1>3. CASE ~Expired(c, now) /\ c.retry > now
  <2>1. StateAt(c, now) = [state |-> "blocked", next |-> c.retry]
    BY <1>3 DEF StateAt
  <2> QED
    BY <1>1, <1>3, <2>1 DEF Entry, Entered
<1>4. CASE ~Expired(c, now) /\ ~(c.retry > now)
  <2>1. StateAt(c, now) = [state |-> "ready", next |-> 0]
    BY <1>1, <1>4 DEF StateAt
  <2> QED
    BY <1>1, <1>4, <2>1 DEF Entry, Entered
<1> QED
  BY <1>2, <1>3, <1>4

\* The same for all credentials.
LEMMA StatesAtFacts ==
  ASSUME NEW cs \in Credentials, NEW now \in Nat, NEW e, e = StatesAt(cs, now)
  PROVE  /\ e \in [Auths -> Entry]
         /\ \A a \in Auths : e[a] = StateAt(cs[a], now)
  BY CredentialFields, StateAtFacts DEF StatesAt

\* Some entries of an indexed shard are set to what they are now.
LEMMA ChangedFacts ==
  ASSUME NEW s, NEW p, NEW cs \in Credentials, NEW now \in Nat, NEW who, NEW r,
         Filled(s, p, cs, now), who \subseteq Served(p, cs),
         r = Changed(s, cs, who, StatesAt(cs, now))
  PROVE  /\ Filled(r, p, cs, now)
         /\ \A a \in Auths : r.entries[a] = IF a \in who THEN StateAt(cs[a], now)
                                            ELSE s.entries[a]
<1>1. /\ s \in Shard /\ AllInTurn(s) /\ Indexed(s, cs) /\ Entries(s, p, cs, now)
      /\ s.built
  BY DEF Filled, ShardOK
<1>2. CASE who = {}
  <2>1. r = s
    BY <1>2 DEF Changed
  <2> QED
    BY <1>2, <2>1
<1>3. CASE who # {}
  <2>1. PICK e : e = StatesAt(cs, now)
    OBVIOUS
  <2>2. e \in [Auths -> Entry] /\ \A a \in Auths : e[a] = StateAt(cs[a], now)
    BY <2>1, StatesAtFacts
  <2>3. r = Set(s, cs, who, e)
    BY <1>3, <2>1 DEF Changed
  <2>4. /\ r \in Shard /\ AllInTurn(r) /\ Indexed(r, cs) /\ r.built
        /\ \A a \in Auths : r.entries[a] = IF a \in who THEN e[a] ELSE s.entries[a]
    BY <1>1, <2>2, <2>3, SetFacts
  <2>5. Entries(r, p, cs, now)
    <3> SUFFICES ASSUME NEW a \in Auths
                 PROVE  IF cs[a].there /\ ProviderOf[a] = p
                        THEN Entered(r.entries[a], cs[a], now)
                        ELSE r.entries[a].state = "out"
      BY DEF Entries
    <3>1. CASE a \in who
      <4>1. r.entries[a] = StateAt(cs[a], now)
        BY <2>2, <2>4, <3>1
      <4>2. Entered(StateAt(cs[a], now), cs[a], now)
        BY CredentialFields, StateAtFacts
      <4> QED
        BY <3>1, <4>1, <4>2 DEF Served
    <3>2. CASE a \notin who
      <4>1. r.entries[a] = s.entries[a]
        BY <2>4, <3>2
      <4> QED
        BY <1>1, <4>1 DEF Entries
    <3> QED
      BY <3>1, <3>2
  <2> QED
    BY <2>2, <2>4, <2>5 DEF Filled, ShardOK
<1> QED
  BY <1>2, <1>3

\* Before a pick every entry is as it should be now.
UpToDate(s, p, cs, now) ==
  /\ Filled(s, p, cs, now)
  /\ \A a \in Auths : s.entries[a].state = "ready" <=>
       cs[a].there /\ ProviderOf[a] = p /\ StateAt(cs[a], now).state = "ready"

\* ensureModelLocked: whatever time has done, promotions and demotions bring every
\* entry up to date.
LEMMA EnsureFacts ==
  ASSUME NEW s, NEW p, NEW cs \in Credentials, NEW now \in Nat, NEW r,
         ShardOK(s, p, cs, now), r = EnsureModel(s, p, cs, now)
  PROVE  UpToDate(r, p, cs, now)
<1>1. CASE s.built
  <2>1. PICK due : due = {a \in s.blocked : s.entries[a].next \in 1..now}
    OBVIOUS
  <2>2. PICK b : b = Promoted(s, cs, now)
    OBVIOUS
  <2>3. /\ s \in Shard /\ Indexed(s, cs) /\ Entries(s, p, cs, now)
    BY <1>1 DEF ShardOK
  <2>4. due \subseteq Served(p, cs) /\ \A a \in due : s.entries[a].state = "blocked"
    BY <2>1, <2>3, ShardFields DEF Indexed, Entries, Served
  <2>5. Filled(s, p, cs, now)
    BY <1>1 DEF Filled
  <2>6. b = Changed(s, cs, due, StatesAt(cs, now))
    BY <2>1, <2>2 DEF Promoted
  <2>7. /\ Filled(b, p, cs, now)
        /\ \A a \in Auths : b.entries[a] = IF a \in due THEN StateAt(cs[a], now)
                                           ELSE s.entries[a]
    BY <2>4, <2>5, <2>6, ChangedFacts
  <2>8. PICK gone : gone = {a \in Auths : b.entries[a].state = "ready" /\ Expired(cs[a], now)}
    OBVIOUS
  <2>9. r = Changed(b, cs, gone, StatesAt(cs, now))
    BY <1>1, <2>2, <2>8 DEF EnsureModel, Demoted
  <2>10. gone \subseteq Served(p, cs)
    BY <2>7, <2>8 DEF Filled, ShardOK, Entries, Served
  <2>11. /\ Filled(r, p, cs, now)
        /\ \A a \in Auths : r.entries[a] = IF a \in gone THEN StateAt(cs[a], now)
                                           ELSE b.entries[a]
    BY <2>7, <2>9, <2>10, ChangedFacts
  <2>12. ASSUME NEW a \in Auths
         PROVE  r.entries[a].state = "ready" <=>
                  cs[a].there /\ ProviderOf[a] = p /\ StateAt(cs[a], now).state = "ready"
    <3>1. /\ StateAt(cs[a], now).state = "ready" <=>
               ~Expired(cs[a], now) /\ cs[a].retry <= now
          /\ cs[a].retry \in Nat
      BY CredentialFields, StateAtFacts
    <3>2. CASE a \in gone
      BY <2>10, <2>11, <3>2 DEF Served
    <3>3. CASE a \notin gone /\ a \in due
      BY <2>4, <2>7, <2>11, <3>3 DEF Served
    <3>4. CASE a \notin gone /\ a \notin due
      <4>1. r.entries[a] = s.entries[a] /\ s.entries[a] \in Entry
        BY <2>3, <2>7, <2>11, <3>4, ShardFields
      <4>2. CASE ~(cs[a].there /\ ProviderOf[a] = p)
        BY <2>3, <4>1, <4>2 DEF Entries
      <4>3. CASE cs[a].there /\ ProviderOf[a] = p
        <5>1. Entered(s.entries[a], cs[a], now)
          BY <2>3, <4>3 DEF Entries
        <5>2. CASE s.entries[a].state = "ready"
          <6>1. ~Expired(cs[a], now) /\ cs[a].retry <= now
            BY <2>7, <2>8, <3>4, <5>1, <5>2 DEF Entered
          <6> QED
            BY <3>1, <4>1, <4>3, <5>2, <6>1
        <5>3. CASE s.entries[a].state # "ready"
          <6>1. s.entries[a].next \notin 1..now /\ s.entries[a].next \in Nat
            BY <2>1, <2>3, <3>4, <4>1, <5>1, <5>3 DEF Indexed, Entered, Entry
          <6>2. Expired(cs[a], now) \/ cs[a].retry > now
            BY <3>1, <5>1, <5>3, <6>1 DEF Entered
          <6> QED
            BY <3>1, <4>1, <5>3, <6>2
        <5> QED
          BY <5>2, <5>3
      <4> QED
        BY <4>2, <4>3
    <3> QED
      BY <3>2, <3>3, <3>4
  <2> QED
    BY <2>11, <2>12 DEF UpToDate
<1>2. CASE ~s.built
  <2>1. PICK who : who = {a \in Auths : cs[a].there /\ ProviderOf[a] = p}
    OBVIOUS
  <2>2. PICK b, e : b = [NoShard EXCEPT !.built = TRUE] /\ e = StatesAt(cs, now)
    OBVIOUS
  <2>3. /\ b \in Shard /\ b.built /\ b.cursors = NoShard.cursors /\ b.entries = NoShard.entries
    BY <2>2, CleanTypes DEF Shard
  <2>4. AllInTurn(b)
    BY <2>3, CleanTypes DEF AllInTurn
  <2>5. e \in [Auths -> Entry] /\ \A a \in Auths : e[a] = StateAt(cs[a], now)
    BY <2>2, StatesAtFacts
  <2>6. r = Set(b, cs, who, e)
    BY <1>2, <2>1, <2>2 DEF EnsureModel
  <2>7. /\ r \in Shard /\ AllInTurn(r) /\ Indexed(r, cs) /\ r.built
        /\ \A a \in Auths : r.entries[a] = IF a \in who THEN e[a] ELSE b.entries[a]
    BY <2>3, <2>4, <2>5, <2>6, SetFacts
  <2>8. \A a \in Auths : b.entries[a].state = "out"
    BY <2>3 DEF NoShard, Out
  <2>9. ASSUME NEW a \in Auths
        PROVE  /\ IF cs[a].there /\ ProviderOf[a] = p
                  THEN Entered(r.entries[a], cs[a], now)
                  ELSE r.entries[a].state = "out"
               /\ r.entries[a].state = "ready" <=>
                    cs[a].there /\ ProviderOf[a] = p /\ StateAt(cs[a], now).state = "ready"
    <3>1. Entered(StateAt(cs[a], now), cs[a], now)
      BY CredentialFields, StateAtFacts
    <3> QED
      BY <2>1, <2>5, <2>7, <2>8, <3>1
  <2> QED
    BY <2>7, <2>9 DEF UpToDate, Filled, ShardOK, Entries
<1> QED
  BY <1>1, <1>2

\* One credential is written, and its shard told.
LEMMA UpsertFacts ==
  ASSUME NEW s, NEW p, NEW cs \in Credentials, NEW ds \in Credentials, NEW now \in Nat,
         NEW a \in Auths, NEW r, Filled(s, p, cs, now),
         \A b \in Auths : b # a => ds[b] = cs[b], a \in Served(p, ds),
         r = UpsertEntry(s, a, cs[a], ds, now)
  PROVE  Filled(r, p, ds, now)
<1>1. s \in Shard /\ AllInTurn(s) /\ Indexed(s, cs) /\ Entries(s, p, cs, now) /\ s.built
  BY DEF Filled, ShardOK
<1>2. /\ StateAt(ds[a], now) \in Entry /\ Entered(StateAt(ds[a], now), ds[a], now)
  BY CredentialFields, StateAtFacts
<1>3. CASE /\ s.entries[a] = StateAt(ds[a], now)
           /\ cs[a].priority = ds[a].priority /\ cs[a].ws = ds[a].ws
           /\ cs[a].weight = ds[a].weight
  <2>1. r = s
    BY <1>3 DEF UpsertEntry
  <2>2. \A b \in Auths : cs[b].priority = ds[b].priority /\ cs[b].ws = ds[b].ws
    BY <1>3
  <2>3. Indexed(s, ds)
    BY <1>1, <2>2 DEF Indexed
  <2>4. Entries(s, p, ds, now)
    BY <1>1, <1>2, <1>3 DEF Entries, Served
  <2> QED
    BY <1>1, <2>1, <2>3, <2>4 DEF Filled, ShardOK
<1>4. CASE ~ /\ s.entries[a] = StateAt(ds[a], now)
             /\ cs[a].priority = ds[a].priority /\ cs[a].ws = ds[a].ws
             /\ cs[a].weight = ds[a].weight
  <2>1. PICK e : e = StatesAt(ds, now)
    OBVIOUS
  <2>2. e \in [Auths -> Entry] /\ e[a] = StateAt(ds[a], now)
    BY <2>1, StatesAtFacts
  <2>3. r = Set(s, ds, {a}, e)
    BY <1>4, <2>1 DEF UpsertEntry
  <2>4. /\ r \in Shard /\ AllInTurn(r) /\ Indexed(r, ds) /\ (s.built => r.built)
        /\ \A b \in Auths : r.entries[b] = IF b \in {a} THEN e[b] ELSE s.entries[b]
    BY <1>1, <2>2, <2>3, SetFacts
  <2>5. Entries(r, p, ds, now)
    BY <1>1, <1>2, <2>2, <2>4 DEF Entries, Served
  <2> QED
    BY <1>1, <2>4, <2>5 DEF Filled, ShardOK
<1> QED
  BY <1>3, <1>4

\* One credential is removed, and its shard told.
LEMMA RemoveFacts ==
  ASSUME NEW s, NEW p, NEW cs \in Credentials, NEW ds \in Credentials, NEW now \in Nat,
         NEW a \in Auths, NEW e \in [Auths -> Entry], NEW r, Filled(s, p, cs, now),
         \A b \in Auths : b # a => ds[b] = cs[b], a \notin Served(p, ds), e[a].state = "out",
         r = Set(s, ds, {a}, e)
  PROVE  Filled(r, p, ds, now)
<1>1. s \in Shard /\ AllInTurn(s) /\ Indexed(s, cs) /\ Entries(s, p, cs, now) /\ s.built
  BY DEF Filled, ShardOK
<1>2. /\ r \in Shard /\ AllInTurn(r) /\ Indexed(r, ds) /\ (s.built => r.built)
      /\ \A b \in Auths : r.entries[b] = IF b \in {a} THEN e[b] ELSE s.entries[b]
  BY <1>1, SetFacts
<1>3. Entries(r, p, ds, now)
  BY <1>1, <1>2 DEF Entries, Served
<1> QED
  BY <1>1, <1>2, <1>3 DEF Filled, ShardOK

\* The shards of other providers need not be told.
LEMMA OtherShard ==
  ASSUME NEW s, NEW p, NEW cs \in Credentials, NEW ds \in Credentials, NEW now \in Nat,
         NEW a \in Auths, ShardOK(s, p, cs, now), ProviderOf[a] # p,
         \A b \in Auths : b # a => ds[b] = cs[b]
  PROVE  ShardOK(s, p, ds, now)
<1> SUFFICES ASSUME s.built PROVE Indexed(s, ds) /\ Entries(s, p, ds, now)
  BY DEF ShardOK
<1>1. Indexed(s, cs) /\ Entries(s, p, cs, now)
  BY DEF ShardOK
<1>2. s.entries[a].state = "out"
  BY <1>1 DEF Entries
<1>3. Entries(s, p, ds, now)
  BY <1>1, <1>2 DEF Entries
<1>4. Indexed(s, ds)
  BY <1>1, <1>2 DEF Indexed
<1> QED
  BY <1>3, <1>4

\* Time makes no entry wrong, only old.
LEMMA LaterShard ==
  ASSUME NEW s, NEW p, NEW cs \in Credentials, NEW now \in Nat, ShardOK(s, p, cs, now)
  PROVE  ShardOK(s, p, cs, now + 1)
<1> SUFFICES ASSUME s.built PROVE Entries(s, p, cs, now + 1)
  BY DEF ShardOK
<1>1. Entries(s, p, cs, now)
  BY DEF ShardOK
<1>2. ASSUME NEW a \in Auths, Entered(s.entries[a], cs[a], now)
      PROVE  Entered(s.entries[a], cs[a], now + 1)
  <2>1. cs[a].retry \in Nat /\ cs[a].expires \in Nat
    BY CredentialFields
  <2>2. Expired(cs[a], now) => Expired(cs[a], now + 1)
    BY <2>1 DEF Expired
  <2> QED
    BY <1>2, <2>1, <2>2 DEF Entered
<1> QED
  BY <1>1, <1>2 DEF Entries

-----------------------------------------------------------------------------
(* Picks.                                                                  *)

\* Going round from last, who is the first of ok, so that nobody in ok has been
\* passed on the way to it.
LEMMA SuccessorFacts ==
  ASSUME NEW last \in Nat, NEW ok, NEW who, \A x \in ok : x \in Nat, ok # {},
         who = Successor(last, ok)
  PROVE  /\ who \in ok
         /\ \A b \in ok \ {who} : ~Passed(b, who, last) /\ Passed(b, who, who)
         /\ \A b \in ok \ {who} : \A x \in Nat : Passed(b, x, last) => Passed(b, x, who)
<1>1. PICK later : later = {a \in ok : a > last}
  OBVIOUS
<1>2. CASE later = {}
  <2>1. who = Min(ok)
    BY <1>1, <1>2 DEF Successor
  <2>2. who \in ok /\ \A b \in ok : who <= b
    BY <2>1, MinIsLeast
  <2>3. \A b \in ok : b \in Nat /\ b <= last
    BY <1>1, <1>2
  <2> QED
    BY <2>2, <2>3 DEF Passed
<1>3. CASE later # {}
  <2>1. who = Min(later)
    BY <1>1, <1>3 DEF Successor
  <2>2. later \subseteq Nat
    BY <1>1
  <2>3. who \in later /\ \A b \in later : who <= b
    BY <1>3, <2>1, <2>2, MinIsLeast
  <2>4. who \in ok /\ who > last /\ \A b \in ok : b \in Nat /\ (b > last => who <= b)
    BY <1>1, <2>3
  <2> QED
    BY <2>4 DEF Passed
<1> QED
  BY <1>2, <1>3

\* pickRoundRobin keeps everybody in turn.
LEMMA RoundRobinFacts ==
  ASSUME NEW cursor \in Cursor, NEW ok \in SUBSET Auths, NEW x, InTurn(cursor), ok # {},
         x = PickRoundRobin(cursor, ok)
  PROVE  x.who \in ok /\ x.cursor \in Cursor /\ InTurn(x.cursor)
<1>1. PICK last, who : last = cursor.last /\ who = Successor(last, ok)
  OBVIOUS
<1>2. PICK owed : owed = {o \in cursor.owed : o[2] \in ok \ {who}} \cup ({who} \X (ok \ {who}))
  OBVIOUS
<1>3. PICK c : c = [cursor EXCEPT !.last = who, !.owed = owed]
  OBVIOUS
<1>4. x = [who |-> who, cursor |-> c]
  BY <1>1, <1>2, <1>3 DEF PickRoundRobin
<1>5. last \in Nat /\ cursor.owed \subseteq Nat \X Nat /\ \A a \in ok : a \in Nat
  BY <1>1, CursorFields, Constants
<1>6. /\ who \in ok
      /\ \A b \in ok \ {who} : Passed(b, who, who)
      /\ \A b \in ok \ {who} : \A y \in Nat : Passed(b, y, last) => Passed(b, y, who)
  BY <1>1, <1>5, SuccessorFacts
<1>7. c \in Cursor /\ c.last = who /\ c.owed = owed
  <2>1. owed \subseteq Nat \X Nat /\ who \in Nat
    BY <1>2, <1>5, <1>6
  <2> QED
    BY <1>3, <2>1 DEF Cursor
<1>8. InTurn(c)
  <2> SUFFICES ASSUME NEW o \in owed PROVE Passed(o[2], o[1], who)
    BY <1>7 DEF InTurn
  <2>1. CASE o \in cursor.owed /\ o[2] \in ok \ {who}
    <3>1. Passed(o[2], o[1], last) /\ o[1] \in Nat
      BY <1>1, <1>5, <2>1 DEF InTurn
    <3> QED
      BY <1>6, <2>1, <3>1
  <2>2. CASE o \in {who} \X (ok \ {who})
    BY <1>6, <2>2
  <2> QED
    BY <1>2, <2>1, <2>2
<1> QED
  BY <1>4, <1>6, <1>7, <1>8

\* Either strategy picks one of those it is given.
LEMMA PickFromFacts ==
  ASSUME NEW cursor \in Cursor, NEW ok \in SUBSET Auths, NEW x,
         InTurn(cursor), ok # {}, x = PickFrom(cursor, ok)
  PROVE  x.who \in ok /\ x.cursor \in Cursor /\ InTurn(x.cursor)
<1>1. CASE strategy # "fillFirst"
  BY <1>1, RoundRobinFacts DEF PickFrom
<1>2. CASE strategy = "fillFirst"
  <2>1. x = [who |-> Min(ok), cursor |-> cursor]
    BY <1>2 DEF PickFrom
  <2>2. Min(ok) \in ok
    BY Constants, MinIsLeast
  <2> QED
    BY <2>1, <2>2
<1> QED
  BY <1>1, <1>2

\* A request wants websockets, and some credentials have them.
Wants(ws, some) == ws /\ some # {}

\* A pick at a priority that has one of ok: only the place in the rotation changes, and
\* it is one with websockets if these are asked for and there is one.
PickedAt(x, s, p, cs, now, q, ws, ok) ==
  /\ Filled(x.shard, p, cs, now)
  /\ x.who \in s.ready[q]["all"] \cap ok
  /\ Wants(ws, s.ready[q]["ws"] \cap ok) => x.who \in s.ready[q]["ws"]

LEMMA PickAtFacts ==
  ASSUME NEW s, NEW p, NEW cs \in Credentials, NEW now \in Nat, NEW q \in Priorities,
         NEW ws, NEW ok \in SUBSET Auths, NEW x,
         Filled(s, p, cs, now), s.ready[q]["all"] \cap ok # {}, x = PickAt(s, q, ws, ok)
  PROVE  PickedAt(x, s, p, cs, now, q, ws, ok)
<1>1. /\ s \in Shard /\ AllInTurn(s) /\ Indexed(s, cs) /\ Entries(s, p, cs, now)
      /\ s.built
  BY DEF Filled, ShardOK
<1>2. PICK v : v = IF Wants(ws, s.ready[q]["ws"] \cap ok) THEN "ws" ELSE "all"
  OBVIOUS
<1>3. v \in Views /\ s.ready[q][v] \cap ok # {}
  BY <1>2 DEF Views, Wants
<1>4. PICK some : some = s.ready[q][v] \cap ok
  OBVIOUS
<1>5. PICK picked : picked = PickFrom(s.cursors[q][v], some)
  OBVIOUS
<1>6. PICK c, curs : c = picked.cursor /\ curs = [s.cursors EXCEPT ![q][v] = c]
  OBVIOUS
<1>7. x = [who |-> picked.who, shard |-> [s EXCEPT !.cursors = curs]]
  BY <1>2, <1>4, <1>5, <1>6 DEF PickAt, Wants
<1>8. /\ s.cursors[q][v] \in Cursor /\ InTurn(s.cursors[q][v])
      /\ some \subseteq Auths /\ some # {}
  BY <1>1, <1>3, <1>4, ShardFields DEF AllInTurn
<1>9. picked.who \in some /\ c \in Cursor /\ InTurn(c)
  BY <1>5, <1>6, <1>8, PickFromFacts
<1>10. /\ curs \in [Priorities -> [Views -> Cursor]]
       /\ \A k \in Priorities, u \in Views : curs[k][u] \in {c, s.cursors[k][u]}
  BY <1>1, <1>3, <1>6, <1>9, ShardFields
<1>11. PICK t : t = [s EXCEPT !.cursors = curs]
  OBVIOUS
<1>12. /\ t \in Shard /\ t.cursors = curs /\ t.entries = s.entries
       /\ t.ready = s.ready /\ t.blocked = s.blocked /\ (s.built => t.built)
  BY <1>1, <1>10, <1>11 DEF Shard
<1>13. AllInTurn(t)
  BY <1>1, <1>9, <1>10, <1>12 DEF AllInTurn
<1>14. Filled(t, p, cs, now)
  BY <1>1, <1>12, <1>13 DEF Filled, ShardOK, Indexed, Entries
<1>15. s.ready[q]["ws"] \subseteq s.ready[q]["all"]
  BY <1>1, ShardFields DEF Indexed, Views
<1>16. picked.who \in s.ready[q]["all"] \cap ok
  BY <1>2, <1>4, <1>9, <1>15
<1>17. Wants(ws, s.ready[q]["ws"] \cap ok) => picked.who \in s.ready[q]["ws"]
  BY <1>2, <1>4, <1>9
<1> QED
  BY <1>7, <1>11, <1>14, <1>16, <1>17 DEF PickedAt

\* The credentials of a provider, or of all, that a request may get.
Ready(cs, now) == {a \in Auths : cs[a].there /\ StateAt(cs[a], now).state = "ready"}
ReadyOf(p, cs, now) == {a \in Ready(cs, now) : ProviderOf[a] = p}
View(cs, q, v, who) == {a \in who : cs[a].priority = q /\ (v = "ws" => cs[a].ws)}
PrioritiesOf(cs, pool) == {cs[a].priority : a \in pool}
Top(cs, pool) == {a \in pool : \A b \in pool : cs[b].priority <= cs[a].priority}

\* After ensureModelLocked the views are what they would be if made now.
LEMMA ReadyFacts ==
  ASSUME NEW s, NEW p, NEW cs \in Credentials, NEW now \in Nat, UpToDate(s, p, cs, now)
  PROVE  \A q \in Priorities, v \in Views :
           s.ready[q][v] = View(cs, q, v, ReadyOf(p, cs, now))
<1>1. s \in Shard /\ Indexed(s, cs)
  BY DEF UpToDate, Filled, ShardOK
<1>2. \A a \in Auths : s.entries[a].state = "ready" <=> a \in ReadyOf(p, cs, now)
  BY DEF UpToDate, ReadyOf, Ready
<1>3. ReadyOf(p, cs, now) \subseteq Auths
  BY DEF ReadyOf, Ready
<1> SUFFICES ASSUME NEW q \in Priorities, NEW v \in Views
             PROVE  s.ready[q][v] = View(cs, q, v, ReadyOf(p, cs, now))
  OBVIOUS
<1>4. PICK members : members = s.ready[q][v]
  OBVIOUS
<1>5. members \subseteq Auths
  BY <1>1, <1>4, ShardFields
<1>6. \A a \in Auths : a \in members <=>
        s.entries[a].state = "ready" /\ cs[a].priority = q /\ (v = "ws" => cs[a].ws)
  BY <1>1, <1>4 DEF Indexed
<1> QED
  BY <1>2, <1>3, <1>4, <1>5, <1>6 DEF View

\* The priorities at which a view has credentials are those of the credentials.
LEMMA OffersFacts ==
  ASSUME NEW s, NEW p, NEW cs \in Credentials, NEW now \in Nat, NEW ok \in SUBSET Auths,
         NEW v \in Views, NEW pool, UpToDate(s, p, cs, now),
         pool = {a \in ReadyOf(p, cs, now) \cap ok : v = "ws" => cs[a].ws}
  PROVE  Offers(s, v, ok) = PrioritiesOf(cs, pool)
<1>1. PICK who : who = ReadyOf(p, cs, now)
  OBVIOUS
<1>2. \A q \in Priorities : s.ready[q][v] = View(cs, q, v, who)
  BY <1>1, ReadyFacts
<1>3. who \subseteq Auths /\ \A a \in who : cs[a].priority \in Priorities
  BY <1>1, CredentialFields DEF ReadyOf, Ready
<1>4. Offers(s, v, ok) = {q \in Priorities : View(cs, q, v, who) \cap ok # {}}
  BY <1>2 DEF Offers
<1>5. pool = {a \in who \cap ok : v = "ws" => cs[a].ws}
  BY <1>1
<1> QED
  BY <1>3, <1>4, <1>5 DEF View, PrioritiesOf

\* Those with the greatest priority are those that no other exceeds.
LEMMA TopFacts ==
  ASSUME NEW cs \in Credentials, NEW pool \in SUBSET Auths, NEW offers, NEW q, pool # {},
         offers = PrioritiesOf(cs, pool), q = Max(offers)
  PROVE  /\ q \in offers
         /\ \A a \in pool : cs[a].priority = q <=> a \in Top(cs, pool)
<1>1. PICK f : f = [a \in pool |-> cs[a].priority]
  OBVIOUS
<1>2. IsFiniteSet(pool) /\ \A a \in pool : f[a] \in Int
  <2>1. IsFiniteSet(pool)
    BY Constants, FS_Subset
  <2>2. \A a \in pool : cs[a].priority \in Nat
    BY CredentialFields
  <2> QED
    BY <1>1, <2>1, <2>2
<1>3. PICK x \in pool : \A a \in pool : f[a] <= f[x]
  <2>1. pool \in SUBSET pool
    OBVIOUS
  <2> QED
    BY <1>2, <2>1, SomeRichest
<1>4. f[x] \in offers /\ \A k \in offers : f[x] >= k
  BY <1>1, <1>2, <1>3 DEF PrioritiesOf
<1>5. q \in offers /\ \A k \in offers : q >= k
  BY <1>4 DEF Max
<1>6. PICK y \in pool : q = f[y]
  BY <1>1, <1>5 DEF PrioritiesOf
<1>7. \A a \in pool : f[a] <= q
  BY <1>1, <1>2, <1>5, <1>6 DEF PrioritiesOf
<1>8. \A a \in pool : a \in Top(cs, pool) <=> \A b \in pool : f[b] <= f[a]
  BY <1>1 DEF Top
<1>9. \A a \in pool : f[a] = q <=> a \in Top(cs, pool)
  BY <1>2, <1>6, <1>7, <1>8
<1> QED
  BY <1>1, <1>5, <1>9

ShardsOK(ss, cs, now) ==
  /\ DOMAIN ss = Provider /\ ss \in [Provider -> Shard]
  /\ \A p \in Provider : ShardOK(ss[p], p, cs, now)
\* What a pick among these may do.
Picks(x, cs, now, pool) ==
  /\ ShardsOK(x.shards, cs, now) /\ x.mixed \in Nat
  /\ IF pool = {} THEN x.who = 0 ELSE x.who \in Top(cs, pool)

\* pickSingle gets one of the best, with websockets if they are asked for and there are
\* any.
LEMMA PickSingleFacts ==
  ASSUME NEW ss, NEW m, NEW p \in Provider, NEW ws, NEW cs \in Credentials,
         NEW ok \in SUBSET Auths, NEW x, NEW pool, NEW wsPool, ShardsOK(ss, cs, clock),
         m \in Nat, clock \in Nat,
         x = PickSingle(ss, m, p, ws, cs, ok), pool = ReadyOf(p, cs, clock) \cap ok,
         wsPool = {a \in pool : cs[a].ws}
  PROVE  Picks(x, cs, clock, IF Wants(ws, wsPool) THEN wsPool ELSE pool)
<1>1. PICK s : s = EnsureModel(ss[p], p, cs, clock)
  OBVIOUS
<1>2. UpToDate(s, p, cs, clock)
  BY <1>1, EnsureFacts DEF ShardsOK
<1>3. pool = {a \in ReadyOf(p, cs, clock) \cap ok : "all" = "ws" => cs[a].ws}
  OBVIOUS
<1>4. wsPool = {a \in ReadyOf(p, cs, clock) \cap ok : "ws" = "ws" => cs[a].ws}
  OBVIOUS
<1>5. Offers(s, "all", ok) = PrioritiesOf(cs, pool)
  <2>1. "all" \in Views
    BY DEF Views
  <2> QED
    BY <1>2, <1>3, <2>1, OffersFacts
<1>6. Offers(s, "ws", ok) = PrioritiesOf(cs, wsPool)
  <2>1. "ws" \in Views
    BY DEF Views
  <2> QED
    BY <1>2, <1>4, <2>1, OffersFacts
<1>7. PICK best : best = IF Wants(ws, wsPool) THEN wsPool ELSE pool
  OBVIOUS
<1> SUFFICES Picks(x, cs, clock, best)
  BY <1>7
<1>8. PICK offers : offers = IF Wants(ws, Offers(s, "ws", ok)) THEN Offers(s, "ws", ok)
                             ELSE Offers(s, "all", ok)
  OBVIOUS
<1>9. offers = PrioritiesOf(cs, best)
  <2>1. Wants(ws, Offers(s, "ws", ok)) <=> Wants(ws, wsPool)
    BY <1>6 DEF Wants, PrioritiesOf
  <2> QED
    BY <1>5, <1>6, <1>7, <1>8, <2>1
<1>10. best \in SUBSET Auths /\ best \subseteq pool
  BY <1>7 DEF ReadyOf, Ready
<1>11. Filled(s, p, cs, clock)
  BY <1>2 DEF UpToDate
<1>12. \A t : ShardOK(t, p, cs, clock) => ShardsOK([ss EXCEPT ![p] = t], cs, clock)
  BY DEF ShardsOK, ShardOK
<1>13. CASE best = {}
  <2>1. x = Failed([ss EXCEPT ![p] = s], m)
    BY <1>1, <1>8, <1>9, <1>13 DEF PickSingle, Wants, PrioritiesOf
  <2>2. ShardsOK([ss EXCEPT ![p] = s], cs, clock)
    BY <1>12, <1>11 DEF Filled
  <2> QED
    BY <1>13, <2>1, <2>2 DEF Picks, Failed
<1>14. CASE best # {}
  <2>1. PICK q : q = Max(offers)
    OBVIOUS
  <2>2. q \in offers /\ \A a \in best : cs[a].priority = q <=> a \in Top(cs, best)
    BY <1>9, <1>10, <1>14, <2>1, TopFacts
  <2>3. PICK picked : picked = PickAt(s, q, ws, ok)
    OBVIOUS
  <2>4. x = [who |-> picked.who, shards |-> [ss EXCEPT ![p] = picked.shard], mixed |-> m]
    BY <1>1, <1>8, <1>9, <1>14, <2>1, <2>3 DEF PickSingle, Wants, PrioritiesOf
  <2>5. q \in Priorities
    BY <1>8, <2>2 DEF Offers
  <2>6. /\ s.ready[q]["all"] = View(cs, q, "all", ReadyOf(p, cs, clock))
        /\ s.ready[q]["ws"] = View(cs, q, "ws", ReadyOf(p, cs, clock))
    BY <1>2, <2>5, ReadyFacts DEF Views
  <2>7. \A a : /\ a \in s.ready[q]["all"] \cap ok <=> a \in pool /\ cs[a].priority = q
               /\ a \in s.ready[q]["ws"] \cap ok <=> a \in wsPool /\ cs[a].priority = q
    BY <2>6 DEF View
  <2>8. \E a \in best : cs[a].priority = q
    BY <1>9, <2>2 DEF PrioritiesOf
  <2>9. s.ready[q]["all"] \cap ok # {}
    BY <1>10, <2>7, <2>8
  <2>10. /\ Filled(picked.shard, p, cs, clock)
         /\ picked.who \in s.ready[q]["all"] \cap ok
         /\ Wants(ws, s.ready[q]["ws"] \cap ok) => picked.who \in s.ready[q]["ws"]
    <3>1. PickedAt(picked, s, p, cs, clock, q, ws, ok)
      BY <1>11, <2>3, <2>5, <2>9, PickAtFacts
    <3> QED
      BY <3>1 DEF PickedAt
  <2>11. picked.who \in best /\ cs[picked.who].priority = q
    <3>1. CASE Wants(ws, wsPool)
      <4>1. Wants(ws, s.ready[q]["ws"] \cap ok)
        BY <1>7, <2>7, <2>8, <3>1 DEF Wants
      <4> QED
        BY <1>7, <2>7, <2>10, <3>1, <4>1
    <3>2. CASE ~Wants(ws, wsPool)
      BY <1>7, <2>7, <2>10, <3>2
    <3> QED
      BY <3>1, <3>2
  <2>12. ShardsOK([ss EXCEPT ![p] = picked.shard], cs, clock)
    BY <1>12, <2>10 DEF Filled
  <2>13. /\ x.who = picked.who /\ x.mixed = m
         /\ x.shards = [ss EXCEPT ![p] = picked.shard]
    BY <2>4
  <2> QED
    BY <1>14, <2>2, <2>11, <2>12, <2>13 DEF Picks
<1> QED
  BY <1>13, <1>14

\* The shards are up to date, and top are the credentials of ok at a priority.
AtBest(ss, cs, now, q, ok, top) ==
  /\ DOMAIN ss = Provider /\ ss \in [Provider -> Shard]
  /\ \A p \in Provider : Filled(ss[p], p, cs, now)
  /\ \A p \in Provider : ss[p].ready[q]["all"] \cap ok = {a \in top : ProviderOf[a] = p}
  /\ \A p \in Provider : ss[p].ready[q]["all"] \subseteq Auths

\* A pick that changes nothing.
OnlyPicks(x, ss, m, top) == x.shards = ss /\ x.mixed = m /\ x.who \in top

\* The first provider that has one of the best.
LEMMA MixedFillFirstFacts ==
  ASSUME NEW ss, NEW m, NEW q, NEW cs \in Credentials, NEW now \in Nat,
         NEW ok \in SUBSET Auths, NEW top \in SUBSET Auths, NEW x,
         AtBest(ss, cs, now, q, ok, top), top # {}, x = PickMixedFillFirst(ss, m, q, ok)
  PROVE  OnlyPicks(x, ss, m, top)
<1>1. PICK turns :
        turns = {i \in DOMAIN Providers : ss[Providers[i]].ready[q]["all"] \cap ok # {}}
  OBVIOUS
<1>2. \E i \in DOMAIN Providers :
        Providers[i] \in Provider /\ \E a \in top : ProviderOf[a] = Providers[i]
  BY Constants DEF Provider
<1>3. turns # {}
  BY <1>1, <1>2 DEF AtBest
<1>4. PICK first : first = Min(turns)
  OBVIOUS
<1>5. first \in turns
  BY <1>1, <1>3, <1>4, Constants, MinIsLeast
<1>6. PICK some : some = ss[Providers[first]].ready[q]["all"] \cap ok
  OBVIOUS
<1>7. some # {} /\ some \subseteq top /\ Providers[first] \in Provider
  BY <1>1, <1>5, <1>6 DEF AtBest, Provider
<1>8. Min(some) \in some
  BY <1>7, Constants, MinIsLeast
<1>9. x = [who |-> Min(some), shards |-> ss, mixed |-> m]
  BY <1>1, <1>4, <1>6 DEF PickMixedFillFirst
<1> QED
  BY <1>7, <1>8, <1>9 DEF OnlyPicks

\* The turns of the providers add up to more than none, so that there is a slot.
LEMMA MixedRoundRobinFacts ==
  ASSUME NEW ss, NEW m, NEW q \in Priorities, NEW cs \in Credentials, NEW now \in Nat,
         NEW ok \in SUBSET Auths, NEW top \in SUBSET Auths, NEW x, m \in Nat,
         AtBest(ss, cs, now, q, ok, top), top # {},
         x = PickMixedRoundRobin(ss, m, q, ok)
  PROVE  ShardsOK(x.shards, cs, now) /\ x.mixed \in Nat /\ x.who \in top
<1> DEFINE P == DOMAIN Providers
           ready == [i \in P |-> ss[Providers[i]].ready[q].all]
           size == [i \in P |-> Cardinality(ready[i])]
           start == [i \in P |-> MapThenSumSet(LAMBDA j : size[j], 1..(i - 1))]
           total == MapThenSumSet(LAMBDA j : size[j], P)
           slot == m % total
           first == CHOOSE i \in P : slot \in start[i]..(start[i] + size[i] - 1)
           turns == {i \in P : ready[i] \cap ok # {}}
           turn == IF \E i \in turns : i >= first THEN Min({i \in turns : i >= first})
                   ELSE Min(turns)
           p == Providers[turn]
           picked == PickAt(ss[p], q, FALSE, ok)
           k == 1 + IF turn = first THEN slot ELSE start[turn]
<1>1. x = [who |-> picked.who, shards |-> [ss EXCEPT ![p] = picked.shard], mixed |-> k]
  BY DEF PickMixedRoundRobin
<1> HIDE DEF P, ready, size, start, total, slot, first, turns, turn, p, picked, k
<1>2. /\ IsFiniteSet(P) /\ P \subseteq Nat \ {0} /\ \A i \in P : 1..(i - 1) \subseteq P
  <2>1. PICK l \in Nat : P = 1..l
    BY SelectionAssumption DEF P
  <2> QED
    BY <2>1, Constants DEF P
<1>3. \A i \in P : /\ Providers[i] \in Provider /\ ready[i] \subseteq Auths
                    /\ ready[i] \cap ok = {a \in top : ProviderOf[a] = Providers[i]}
  BY DEF AtBest, Provider, P, ready
<1>4. turns # {} /\ turns \subseteq P
  <2>1. \E i \in P : \E a \in top : ProviderOf[a] = Providers[i]
    BY Constants DEF Provider, P
  <2> QED
    BY <1>3, <2>1 DEF turns
<1>5. turn \in turns
  <2>1. turns \subseteq Nat /\ {i \in turns : i >= first} \subseteq Nat
    BY <1>2, <1>4
  <2> QED
    BY <1>4, <2>1, MinIsLeast DEF turn
<1>6. \A i \in P : size[i] \in Nat /\ (ready[i] # {} => size[i] # 0)
  <2>1. \A i \in P : IsFiniteSet(ready[i])
    BY <1>3, Constants, FS_Subset
  <2> QED
    BY <2>1, FS_CardinalityType, FS_EmptySet DEF size
<1>7. total \in Nat \ {0}
  <2>1. total = Total(size, P)
    BY DEF total, Total, Adds, Chosen, MapThenSumSet, MapThenFoldSet
  <2>2. Total(size, P) \in Nat /\ \A i \in P : size[i] <= Total(size, P)
    BY <1>2, <1>6, SumFacts
  <2>3. \E i \in P : size[i] \in Nat \ {0}
    BY <1>4, <1>6 DEF turns
  <2> QED
    BY <2>1, <2>2, <2>3
<1>8. slot \in Nat
  BY <1>7 DEF slot
<1>9. turn \in P /\ start[turn] \in Nat
  <2>1. PICK I : I = 1..(turn - 1)
    OBVIOUS
  <2>2. turn \in P /\ I \subseteq P
    BY <1>2, <1>4, <1>5, <2>1
  <2>3. start[turn] = MapThenSumSet(LAMBDA j : size[j], I)
    BY <2>1, <2>2 DEF start
  <2>4. start[turn] = Total(size, I)
    BY <2>3 DEF Total, Adds, Chosen, MapThenSumSet, MapThenFoldSet
  <2>5. IsFiniteSet(I) /\ \A i \in I : size[i] \in Nat
    BY <1>2, <1>6, <2>2, FS_Subset
  <2> QED
    BY <2>2, <2>4, <2>5, SumFacts
<1>10. k \in Nat
  BY <1>8, <1>9 DEF k
<1>11. p \in Provider /\ ss[p].ready[q]["all"] \cap ok = {a \in top : ProviderOf[a] = p}
  BY <1>3, <1>9 DEF AtBest, p
<1>12. ss[p].ready[q]["all"] \cap ok # {}
  BY <1>5 DEF turns, ready, p
<1>13. Filled(picked.shard, p, cs, now) /\ picked.who \in ss[p].ready[q]["all"] \cap ok
  <2>1. Filled(ss[p], p, cs, now)
    BY <1>11 DEF AtBest
  <2>2. PICK s, ws : s = ss[p] /\ ws = FALSE
    OBVIOUS
  <2>3. picked = PickAt(s, q, ws, ok)
    BY <2>2 DEF picked
  <2>4. PickedAt(picked, s, p, cs, now, q, ws, ok)
    <3> HIDE DEF picked, p
    <3>1. Filled(s, p, cs, now) /\ s.ready[q]["all"] \cap ok # {}
      BY <1>12, <2>1, <2>2
    <3> QED
      BY <2>3, <3>1, PickAtFacts
  <2> QED
    BY <2>2, <2>4 DEF PickedAt
<1>14. ShardsOK([ss EXCEPT ![p] = picked.shard], cs, now)
  BY <1>11, <1>13 DEF AtBest, ShardsOK, Filled, ShardOK
<1> QED
  BY <1>1, <1>10, <1>11, <1>13, <1>14

\* pickMixed gets one of the best of all providers.
LEMMA PickMixedFacts ==
  ASSUME NEW ss, NEW m, NEW cs \in Credentials, NEW ok \in SUBSET Auths, NEW x, NEW pool,
         ShardsOK(ss, cs, clock), m \in Nat, clock \in Nat,
         x = PickMixed(ss, m, cs, ok), pool = Ready(cs, clock) \cap ok
  PROVE  Picks(x, cs, clock, pool)
<1>1. PICK es : es = [p \in Provider |-> EnsureModel(ss[p], p, cs, clock)]
  OBVIOUS
<1>2. \A p \in Provider : UpToDate(es[p], p, cs, clock)
  <2> SUFFICES ASSUME NEW p \in Provider PROVE UpToDate(es[p], p, cs, clock)
    OBVIOUS
  <2>1. PICK s, r : s = ss[p] /\ r = EnsureModel(s, p, cs, clock)
    OBVIOUS
  <2>2. ShardOK(s, p, cs, clock) /\ es[p] = r
    BY <1>1, <2>1 DEF ShardsOK
  <2> QED
    BY <2>1, <2>2, EnsureFacts
<1>3. \A p \in Provider : Filled(es[p], p, cs, clock)
  BY <1>2 DEF UpToDate
<1>4. DOMAIN es = Provider /\ es \in [Provider -> Shard]
  BY <1>1, <1>3 DEF Filled, ShardOK
<1>5. ShardsOK(es, cs, clock)
  BY <1>3, <1>4 DEF ShardsOK, Filled
<1>6. PICK offers : offers = UNION {Offers(es[p], "all", ok) : p \in Provider}
  OBVIOUS
<1>7. pool \in SUBSET Auths /\ \A a \in pool : ProviderOf[a] \in Provider
  BY Constants DEF Ready
<1>8. \A p \in Provider :
        Offers(es[p], "all", ok) = PrioritiesOf(cs, {a \in pool : ProviderOf[a] = p})
  <2> SUFFICES ASSUME NEW p \in Provider
               PROVE  Offers(es[p], "all", ok) =
                        PrioritiesOf(cs, {a \in pool : ProviderOf[a] = p})
    OBVIOUS
  <2>1. PICK v, s, some : v = "all" /\ s = es[p] /\ some = {a \in pool : ProviderOf[a] = p}
    OBVIOUS
  <2>2. some = {a \in ReadyOf(p, cs, clock) \cap ok : v = "ws" => cs[a].ws}
    BY <2>1 DEF ReadyOf
  <2>3. v \in Views /\ UpToDate(s, p, cs, clock)
    BY <1>2, <2>1 DEF Views
  <2>4. Offers(s, v, ok) = PrioritiesOf(cs, some)
    BY <2>2, <2>3, OffersFacts
  <2> QED
    BY <2>1, <2>4
<1>9. offers = PrioritiesOf(cs, pool)
  <2>1. ASSUME NEW q PROVE q \in offers <=> q \in PrioritiesOf(cs, pool)
    <3>1. q \in offers <=> \E p \in Provider : q \in Offers(es[p], "all", ok)
      BY <1>6
    <3>2. q \in offers <=>
            \E p \in Provider : q \in PrioritiesOf(cs, {a \in pool : ProviderOf[a] = p})
      BY <1>8, <3>1
    <3> QED
      BY <1>7, <3>2 DEF PrioritiesOf
  <2> QED
    BY <2>1 DEF PrioritiesOf
<1>10. CASE pool = {}
  <2>1. x = Failed(es, m)
    BY <1>1, <1>6, <1>9, <1>10 DEF PickMixed, PrioritiesOf
  <2> QED
    BY <1>5, <1>10, <2>1 DEF Picks, Failed
<1>11. CASE pool # {}
  <2>1. PICK q, top : q = Max(offers) /\ top = Top(cs, pool)
    OBVIOUS
  <2>2. q \in offers /\ \A a \in pool : cs[a].priority = q <=> a \in top
    BY <1>7, <1>9, <1>11, <2>1, TopFacts
  <2>3. top \in SUBSET Auths /\ top \subseteq pool
    BY <1>7, <2>1 DEF Top
  <2>4. top # {}
    BY <1>9, <2>2 DEF PrioritiesOf
  <2>5. q \in Priorities
    BY <1>6, <2>2 DEF Offers
  <2>6. AtBest(es, cs, clock, q, ok, top)
    <3>1. ASSUME NEW p \in Provider
          PROVE  /\ es[p].ready[q]["all"] \cap ok = {a \in top : ProviderOf[a] = p}
                 /\ es[p].ready[q]["all"] \subseteq Auths
      <4>1. PICK s : s = es[p]
        OBVIOUS
      <4>2. "all" \in Views /\ UpToDate(s, p, cs, clock)
        BY <1>2, <4>1 DEF Views
      <4>3. s.ready[q]["all"] = View(cs, q, "all", ReadyOf(p, cs, clock))
        BY <2>5, <4>2, ReadyFacts
      <4>4. /\ s.ready[q]["all"] \subseteq Auths
            /\ \A a : a \in s.ready[q]["all"] \cap ok <=>
                 a \in pool /\ ProviderOf[a] = p /\ cs[a].priority = q
        BY <4>3 DEF View, ReadyOf, Ready
      <4> QED
        BY <2>2, <2>3, <4>1, <4>4
    <3> QED
      BY <1>3, <1>4, <3>1 DEF AtBest
  <2>7. offers # {}
    BY <2>2
  <2>8. ShardsOK(x.shards, cs, clock) /\ x.mixed \in Nat /\ x.who \in top
    <3>1. CASE strategy = "fillFirst"
      <4>1. x = PickMixedFillFirst(es, m, q, ok)
        BY <1>1, <1>6, <2>1, <2>7, <3>1 DEF PickMixed
      <4>2. OnlyPicks(x, es, m, top)
        BY <2>3, <2>4, <2>6, <4>1, MixedFillFirstFacts
      <4> QED
        BY <1>5, <4>2 DEF OnlyPicks
    <3>2. CASE strategy # "fillFirst"
      <4>1. x = PickMixedRoundRobin(es, m, q, ok)
        BY <1>1, <1>6, <2>1, <2>7, <3>2 DEF PickMixed
      <4> QED
        BY <2>3, <2>4, <2>5, <2>6, <4>1, MixedRoundRobinFacts
    <3> QED
      BY <3>1, <3>2
  <2> QED
    BY <1>11, <2>1, <2>8 DEF Picks
<1> QED
  BY <1>10, <1>11

\* Whom a request may get, if it is one of those.
Pool(r, cs, now, ok) ==
  LET pool == (IF r.mixed THEN Ready(cs, now) ELSE ReadyOf(r.provider, cs, now)) \cap ok
      wsPool == {a \in pool : cs[a].ws}
  IN IF Wants(~r.mixed /\ r.ws, wsPool) THEN wsPool ELSE pool

\* Either pick.
LEMMA PickWithFacts ==
  ASSUME NEW ss, NEW m, NEW r \in Requests, NEW ok \in SUBSET Auths, NEW x,
         ShardsOK(ss, auths, clock), m \in Nat, clock \in Nat,
         auths \in Credentials, x = PickWith(ss, m, r, ok)
  PROVE  Picks(x, auths, clock, Pool(r, auths, clock, ok))
<1>1. CASE r.mixed
  <2>1. x = PickMixed(ss, m, auths, ok)
    BY <1>1 DEF PickWith
  <2>2. Pool(r, auths, clock, ok) = Ready(auths, clock) \cap ok
    BY <1>1 DEF Pool, Wants
  <2> QED
    BY <2>1, <2>2, PickMixedFacts
<1>2. CASE ~r.mixed
  <2>1. PICK p, ws : p = r.provider /\ ws = r.ws
    OBVIOUS
  <2>2. x = PickSingle(ss, m, p, ws, auths, ok)
    BY <1>2, <2>1 DEF PickWith
  <2>3. PICK pool, wsPool : /\ pool = ReadyOf(p, auths, clock) \cap ok
                            /\ wsPool = {a \in pool : auths[a].ws}
    OBVIOUS
  <2>4. p \in Provider
    BY <1>2, <2>1 DEF Requests
  <2>5. Picks(x, auths, clock, IF Wants(ws, wsPool) THEN wsPool ELSE pool)
    BY <2>2, <2>3, <2>4, PickSingleFacts
  <2>6. Pool(r, auths, clock, ok) = IF Wants(ws, wsPool) THEN wsPool ELSE pool
    BY <1>2, <2>1, <2>3 DEF Pool, Wants
  <2> QED
    BY <2>5, <2>6
<1> QED
  BY <1>1, <1>2

-----------------------------------------------------------------------------
(* The weighted selector.                                                  *)

Credits == [credits : [Auths -> Int], weights : [Auths -> Nat]]

\* An absent member weighs nothing.
LEMMA WeightsType ==
  ASSUME NEW cs \in Credentials, NEW members
  PROVE  Weights(cs, members) \in [Auths -> Nat]
  BY CredentialFields DEF Weights

\* Some credential is the richest, and the payment keeps the credits numbers.
LEMMA WeightedFacts ==
  ASSUME NEW state \in Credits, NEW cs \in Credentials, NEW ok \in SUBSET Auths, NEW x,
         ok # {}, x = PickWeighted(state, cs, ok)
  PROVE  x.who \in ok /\ x.state \in Credits
<1> DEFINE weights == Weights(cs, ok)
           credits == [a \in Auths |-> weights[a] +
                         IF Reconfigured(state.weights, weights) THEN 0
                         ELSE state.credits[a]]
           rich == {a \in ok : \A b \in ok : credits[b] <= credits[a]}
           who == Min(rich)
           total == MapThenSumSet(LAMBDA a : weights[a], ok)
           left == [credits EXCEPT ![who] = @ - total]
           c == [credits |-> left,
                 weights |-> [a \in Auths |-> IF a \in ok THEN weights[a]
                                              ELSE state.weights[a]]]
<1>1. x = [who |-> who, state |-> c]
  BY DEF PickWeighted
<1>2. /\ weights \in [Auths -> Nat] /\ IsFiniteSet(ok) /\ \A a \in ok : a \in Nat
      /\ state.credits \in [Auths -> Int] /\ state.weights \in [Auths -> Nat]
  <2>1. weights \in [Auths -> Nat]
    BY WeightsType
  <2>2. IsFiniteSet(ok) /\ \A a \in ok : a \in Nat
    BY Constants, FS_Subset
  <2> QED
    BY <2>1, <2>2 DEF Credits
<1>3. PICK w : w = [a \in Auths |-> IF a \in ok THEN weights[a] ELSE state.weights[a]]
  OBVIOUS
<1>4. c = [credits |-> left, weights |-> w]
  BY <1>3
<1> HIDE DEF weights
<1>5. credits \in [Auths -> Int]
  BY <1>2
<1>6. w \in [Auths -> Nat]
  BY <1>2, <1>3
<1> HIDE DEF credits
<1>7. rich # {} /\ rich \subseteq ok
  <2>1. \A a \in ok : credits[a] \in Int
    BY <1>5
  <2>2. ok \in SUBSET ok
    OBVIOUS
  <2> QED
    BY <1>2, <2>1, <2>2, SomeRichest
<1> HIDE DEF rich
<1>8. who \in ok
  BY <1>2, <1>7, MinIsLeast
<1> HIDE DEF who
<1>9. total \in Nat
  <2>1. \A a \in ok : weights[a] \in Nat
    BY <1>2
  <2>2. total = Total(weights, ok)
    BY DEF Total, Adds, Chosen, MapThenSumSet, MapThenFoldSet
  <2> HIDE DEF total
  <2> QED
    BY <1>2, <2>1, <2>2, SumFacts
<1> HIDE DEF total
<1>10. left \in [Auths -> Int]
  <2>1. PICK rest : rest = credits[who] - total
    OBVIOUS
  <2>2. rest \in Int /\ left = [credits EXCEPT ![who] = rest]
    BY <1>5, <1>8, <1>9, <2>1
  <2> HIDE DEF left
  <2> QED
    BY <1>5, <2>2
<1> HIDE DEF left, c
<1>11. c \in Credits
  BY <1>4, <1>6, <1>10 DEF Credits
<1> QED
  BY <1>1, <1>8, <1>11

\* pickNextLegacy gets one of the candidates and fails only if there is none.
LEMMA LegacyFacts ==
  ASSUME states \in [Kinds -> Credits], auths \in Credentials, NEW r \in Requests,
         NEW ok \in SUBSET Auths, NEW x, NEW candidates, x = PickLegacy(r, ok),
         candidates = PreferWebsockets(r, Best(Available(r, ok)))
  PROVE  /\ x.states \in [Kinds -> Credits]
         /\ IF candidates = {} THEN x.who = 0 ELSE x.who \in candidates
<1>1. PICK kind : kind = IF r.mixed THEN "mixed" ELSE r.provider
  OBVIOUS
<1>2. kind \in Kinds
  BY <1>1 DEF Kinds, Requests
<1>3. candidates \in SUBSET Auths
  BY DEF PreferWebsockets, Best, Available
<1>4. PICK state, picked :
        state = states[kind] /\ picked = PickWeighted(state, auths, candidates)
  OBVIOUS
<1>5. state \in Credits
  BY <1>2, <1>4
<1>6. CASE candidates = {}
  <2>1. x = [who |-> 0, states |-> states]
    BY <1>6 DEF PickLegacy
  <2> QED
    BY <1>6, <2>1
<1>7. CASE candidates # {}
  <2>1. picked.who \in candidates /\ picked.state \in Credits
    BY <1>3, <1>4, <1>5, <1>7, WeightedFacts
  <2>2. x = [who |-> picked.who, states |-> [states EXCEPT ![kind] = picked.state]]
    BY <1>1, <1>4, <1>7 DEF PickLegacy
  <2> QED
    BY <1>2, <1>7, <2>1, <2>2
<1> QED
  BY <1>6, <1>7

-----------------------------------------------------------------------------
(* The invariant.                                                          *)

\* The credentials are what may be written; the views of a shard that has been built
\* are made from its entries, every entry was right when it was made, and whoever was
\* picked while another was waiting is behind that other in the rotation.
IInv ==
  /\ clock \in Nat /\ strategy \in Strategies /\ auths \in Credentials
  /\ ShardsOK(shards, auths, clock)
  /\ mixed \in Nat /\ states \in [Kinds -> Credits]

\* Shards that have been dropped.
LEMMA RebuiltFacts ==
  ASSUME NEW cs, NEW now
  PROVE  ShardsOK(Rebuilt, cs, now) /\ NoStates \in [Kinds -> Credits]
<1>1. \A p : ShardOK(NoShard, p, cs, now)
  BY CleanTypes DEF ShardOK
<1>2. ShardsOK(Rebuilt, cs, now)
  BY <1>1, CleanTypes DEF ShardsOK, Rebuilt
<1>3. NoCredits \in Credits
  BY DEF NoCredits, Nothing, Credits
<1> QED
  BY <1>2, <1>3 DEF NoStates

\* The second pick, after the rebuild, is as good as the first.
LEMMA ScheduledFacts ==
  ASSUME IInv, NEW r \in Requests, NEW ok \in SUBSET Auths, NEW x, x = PickScheduled(r, ok)
  PROVE  Picks(x, auths, clock, Pool(r, auths, clock, ok))
<1>1. PICK y : y = PickWith(shards, mixed, r, ok)
  OBVIOUS
<1>2. CASE y.who # 0
  <2>1. x = y
    BY <1>1, <1>2 DEF PickScheduled
  <2> QED
    BY <1>1, <2>1, PickWithFacts DEF IInv
<1>3. CASE ~(y.who # 0)
  <2>1. PICK ss, m : ss = Rebuilt /\ m = 0
    OBVIOUS
  <2>2. x = PickWith(ss, m, r, ok)
    BY <1>1, <1>3, <2>1 DEF PickScheduled
  <2>3. ShardsOK(ss, auths, clock) /\ m \in Nat
    BY <2>1, RebuiltFacts
  <2> QED
    BY <2>2, <2>3, PickWithFacts DEF IInv
<1> QED
  BY <1>2, <1>3

\* No credential and no shard satisfy it.
LEMMA InitEstablishes ==
  ASSUME Init
  PROVE  IInv
<1>1. auths = [a \in Auths |-> Absent] /\ Absent \in Credential /\ ~Absent.there
  BY DEF Init, Absent, Credential
<1>2. auths \in Credentials
  BY <1>1 DEF Credentials
<1> QED
  BY <1>2, RebuiltFacts DEF Init, IInv

\* One credential is written or removed, and the shard of its provider told, if it has
\* been built.
LEMMA WriteFacts ==
  ASSUME IInv, NEW a \in Auths, NEW p \in Provider, NEW ds \in Credentials, NEW t, NEW ss,
         p = ProviderOf[a], \A b \in Auths : b # a => ds[b] = auths[b],
         shards[p].built => Filled(t, p, ds, clock),
         ss = IF shards[p].built THEN [shards EXCEPT ![p] = t] ELSE shards
  PROVE  ShardsOK(ss, ds, clock)
<1>1. /\ DOMAIN shards = Provider /\ shards \in [Provider -> Shard] /\ auths \in Credentials
      /\ \A k \in Provider : ShardOK(shards[k], k, auths, clock)
      /\ clock \in Nat
  BY DEF IInv, ShardsOK
<1>2. ASSUME NEW k \in Provider, k # p
      PROVE  ShardOK(shards[k], k, ds, clock)
  <2>1. PICK s : s = shards[k]
    OBVIOUS
  <2>2. ShardOK(s, k, auths, clock) /\ ProviderOf[a] # k
    BY <1>1, <1>2, <2>1
  <2> QED
    BY <1>1, <2>1, <2>2, OtherShard
<1>3. CASE shards[p].built
  <2>1. ss = [shards EXCEPT ![p] = t] /\ ShardOK(t, p, ds, clock)
    BY <1>3 DEF Filled
  <2>2. t \in Shard
    BY <2>1 DEF ShardOK
  <2> QED
    BY <1>1, <1>2, <2>1, <2>2 DEF ShardsOK
<1>4. CASE ~shards[p].built
  <2>1. ss = shards
    BY <1>4
  <2>2. ShardOK(shards[p], p, ds, clock)
    BY <1>1, <1>4 DEF ShardOK
  <2> QED
    BY <1>1, <1>2, <2>1, <2>2 DEF ShardsOK
<1> QED
  BY <1>3, <1>4

\* upsertAuth.
LEMMA UpsertAuthPreserves ==
  ASSUME IInv, UpsertAuth
  PROVE  IInv'
<1> DEFINE Written(a, profile, retry) ==
             /\ auths' = [auths EXCEPT ![a] =
                  [there |-> TRUE, priority |-> profile.priority, weight |-> profile.weight,
                   ws |-> profile.ws, retry |-> retry,
                   expires |-> IF a \in Expiring THEN clock + Life ELSE 0]]
             /\ shards' = IF shards[ProviderOf[a]].built
                          THEN [shards EXCEPT ![ProviderOf[a]] =
                                  UpsertEntry(@, a, auths[a], auths', clock)]
                          ELSE shards
             /\ UNCHANGED <<clock, strategy, mixed, states>>
<1>1. PICK a \in Auths : \E profile \in ProfilesOf[a], retry \in {0, clock + Cooldown} :
        Written(a, profile, retry)
  BY DEF UpsertAuth
<1>2. PICK profile \in ProfilesOf[a], retry \in {0, clock + Cooldown} :
        Written(a, profile, retry)
  BY <1>1
<1>3. PICK new : new = [there |-> TRUE, priority |-> profile.priority,
                        weight |-> profile.weight, ws |-> profile.ws, retry |-> retry,
                        expires |-> IF a \in Expiring THEN clock + Life ELSE 0]
  OBVIOUS
<1>4. PICK expires : expires = IF a \in Expiring THEN clock + Life ELSE 0
  OBVIOUS
<1>5. /\ profile \in [priority : Nat, weight : Nat \ {0}, ws : BOOLEAN]
      /\ profile.priority \in Priorities
  BY SelectionAssumption DEF Priorities
<1>6. retry \in Nat /\ expires \in Nat
  BY <1>4, SelectionAssumption DEF IInv
<1>7. new \in Credential /\ new.there /\ new.priority \in Priorities
  BY <1>3, <1>4, <1>5, <1>6 DEF Credential
<1>8. PICK cs, ds : cs = auths /\ ds = auths'
  OBVIOUS
<1>9. /\ cs \in Credentials /\ ds = [cs EXCEPT ![a] = new]
  BY <1>2, <1>3, <1>8 DEF IInv
<1>10. ds \in Credentials /\ ds[a].there /\ \A b \in Auths : b # a => ds[b] = cs[b]
  BY <1>7, <1>9 DEF Credentials
<1>11. PICK p, s, t : p = ProviderOf[a] /\ s = shards[p] /\ t = UpsertEntry(s, a, cs[a], ds, clock)
  OBVIOUS
<1>12. p \in Provider /\ clock \in Nat /\ ShardOK(s, p, cs, clock)
  BY <1>8, <1>11, Constants DEF IInv, ShardsOK
<1>13. shards' = IF shards[p].built THEN [shards EXCEPT ![p] = t] ELSE shards
  BY <1>2, <1>8, <1>11
<1>14. shards[p].built => Filled(t, p, ds, clock)
  <2> SUFFICES ASSUME shards[p].built PROVE Filled(t, p, ds, clock)
    OBVIOUS
  <2>1. Filled(s, p, cs, clock) /\ a \in Served(p, ds)
    BY <1>10, <1>11, <1>12 DEF Filled, Served
  <2>2. /\ cs \in Credentials /\ ds \in Credentials /\ clock \in Nat
        /\ \A b \in Auths : b # a => ds[b] = cs[b]
        /\ t = UpsertEntry(s, a, cs[a], ds, clock)
    BY <1>9, <1>10, <1>11, <1>12
  <2> QED
    BY <2>1, <2>2, UpsertFacts
<1>15. ShardsOK(shards', ds, clock)
  <2>1. PICK ss : ss = shards'
    OBVIOUS
  <2> QED
    BY <1>8, <1>10, <1>11, <1>12, <1>13, <1>14, <2>1, WriteFacts
<1> QED
  BY <1>2, <1>8, <1>10, <1>15 DEF IInv

\* removeAuth.
LEMMA RemoveAuthPreserves ==
  ASSUME IInv, RemoveAuth
  PROVE  IInv'
<1>1. PICK a \in Auths :
        /\ auths' = [auths EXCEPT ![a] = Absent]
        /\ shards' = IF shards[ProviderOf[a]].built
                     THEN [shards EXCEPT ![ProviderOf[a]] =
                             Set(@, auths', {a}, [b \in Auths |-> Out])]
                     ELSE shards
        /\ UNCHANGED <<clock, strategy, mixed, states>>
  BY DEF RemoveAuth
<1>2. Absent \in Credential /\ ~Absent.there
  BY DEF Absent, Credential
<1>3. PICK cs, ds : cs = auths /\ ds = auths'
  OBVIOUS
<1>4. /\ cs \in Credentials /\ ds = [cs EXCEPT ![a] = Absent]
  BY <1>1, <1>3 DEF IInv
<1>5. ds \in Credentials /\ ~ds[a].there /\ \A b \in Auths : b # a => ds[b] = cs[b]
  BY <1>2, <1>4 DEF Credentials
<1>6. PICK p, s, e, t : /\ p = ProviderOf[a] /\ s = shards[p]
                        /\ e = [b \in Auths |-> Out] /\ t = Set(s, ds, {a}, e)
  OBVIOUS
<1>7. e \in [Auths -> Entry] /\ e[a].state = "out"
  BY <1>6, CleanTypes DEF Out
<1>8. p \in Provider /\ clock \in Nat /\ ShardOK(s, p, cs, clock)
  BY <1>3, <1>6, Constants DEF IInv, ShardsOK
<1>9. shards' = IF shards[p].built THEN [shards EXCEPT ![p] = t] ELSE shards
  BY <1>1, <1>3, <1>6
<1>10. shards[p].built => Filled(t, p, ds, clock)
  <2> SUFFICES ASSUME shards[p].built PROVE Filled(t, p, ds, clock)
    OBVIOUS
  <2>1. Filled(s, p, cs, clock) /\ a \notin Served(p, ds) /\ t = Set(s, ds, {a}, e)
    BY <1>5, <1>6, <1>8 DEF Filled, Served
  <2>2. /\ cs \in Credentials /\ ds \in Credentials /\ clock \in Nat
        /\ \A b \in Auths : b # a => ds[b] = cs[b]
    BY <1>4, <1>5, <1>8
  <2> QED
    BY <1>7, <2>1, <2>2, RemoveFacts
<1>11. ShardsOK(shards', ds, clock)
  <2>1. PICK ss : ss = shards'
    OBVIOUS
  <2> QED
    BY <1>3, <1>5, <1>6, <1>8, <1>9, <1>10, <2>1, WriteFacts
<1> QED
  BY <1>1, <1>3, <1>5, <1>11 DEF IInv

\* pickNext and pickNextMixed, of the scheduler or of the selector.
LEMMA PickNextPreserves ==
  ASSUME IInv, PickNext \/ PickNextLegacy
  PROVE  IInv'
<1>1. CASE PickNext
  <2>1. PICK r \in Requests, ok \in Allowed :
          /\ shards' = PickScheduled(r, ok).shards /\ mixed' = PickScheduled(r, ok).mixed
          /\ UNCHANGED <<clock, strategy, auths, states>>
    BY <1>1 DEF PickNext
  <2>2. PICK x : x = PickScheduled(r, ok)
    OBVIOUS
  <2>3. ok \in SUBSET Auths
    BY SelectionAssumption
  <2>4. Picks(x, auths, clock, Pool(r, auths, clock, ok))
    BY <2>2, <2>3, ScheduledFacts
  <2>5. ShardsOK(shards', auths, clock) /\ mixed' \in Nat
    BY <2>1, <2>2, <2>4 DEF Picks
  <2> QED
    BY <2>1, <2>5 DEF IInv
<1>2. CASE PickNextLegacy
  <2>1. PICK r \in Requests, ok \in Allowed :
          /\ states' = PickLegacy(r, ok).states
          /\ UNCHANGED <<clock, strategy, auths, shards, mixed>>
    BY <1>2 DEF PickNextLegacy
  <2>2. PICK x : x = PickLegacy(r, ok)
    OBVIOUS
  <2>3. ok \in SUBSET Auths
    BY SelectionAssumption
  <2>4. x.states \in [Kinds -> Credits]
    BY <2>2, <2>3, LegacyFacts DEF IInv
  <2> QED
    BY <2>1, <2>2, <2>4 DEF IInv
<1> QED
  BY <1>1, <1>2

\* Time.
LEMMA TickPreserves ==
  ASSUME IInv, Tick
  PROVE  IInv'
<1>1. /\ clock \in Nat /\ clock' = clock + 1 /\ auths \in Credentials
      /\ UNCHANGED <<strategy, auths, shards, mixed, states>>
  BY DEF Tick, IInv
<1>2. PICK now : now = clock + 1
  OBVIOUS
<1>3. \A p \in Provider : ShardOK(shards[p], p, auths, now)
  <2> SUFFICES ASSUME NEW p \in Provider PROVE ShardOK(shards[p], p, auths, now)
    OBVIOUS
  <2>1. PICK s : s = shards[p]
    OBVIOUS
  <2>2. ShardOK(s, p, auths, clock)
    BY <2>1 DEF IInv, ShardsOK
  <2>3. ShardOK(s, p, auths, clock + 1)
    BY <1>1, <2>2, LaterShard
  <2> QED
    BY <1>2, <2>1, <2>3
<1>4. ShardsOK(shards, auths, now)
  BY <1>3 DEF IInv, ShardsOK
<1> QED
  BY <1>1, <1>2, <1>4 DEF IInv

\* Every step.
LEMMA NextPreserves ==
  ASSUME IInv, [Next]_vars
  PROVE  IInv'
<1>1. CASE PickNext \/ PickNextLegacy
  BY <1>1, PickNextPreserves
<1>2. CASE UpsertAuth
  BY <1>2, UpsertAuthPreserves
<1>3. CASE RemoveAuth
  BY <1>3, RemoveAuthPreserves
<1>4. CASE SetSelector
  <2>1. /\ strategy' \in Strategies /\ mixed' = 0 /\ shards' = Rebuilt
        /\ states' = NoStates /\ UNCHANGED <<clock, auths>>
    BY <1>4 DEF SetSelector
  <2> QED
    BY <2>1, RebuiltFacts DEF IInv
<1>5. CASE SyncScheduler
  <2>1. /\ mixed' = 0 /\ shards' = Rebuilt
        /\ UNCHANGED <<clock, strategy, auths, states>>
    BY <1>5 DEF SyncScheduler
  <2> QED
    BY <2>1, RebuiltFacts DEF IInv
<1>6. CASE Tick
  BY <1>6, TickPreserves
<1>7. CASE UNCHANGED vars
  BY <1>7 DEF vars, IInv
<1> QED
  BY <1>1, <1>2, <1>3, <1>4, <1>5, <1>6, <1>7 DEF Next

\* The invariant holds always.
LEMMA AlwaysIInv == Spec => []IInv
<1>1. Init => IInv
  BY InitEstablishes
<1>2. IInv /\ [Next]_vars => IInv'
  BY NextPreserves
<1> QED
  BY <1>1, <1>2, PTL DEF Spec

-----------------------------------------------------------------------------
(* The theorems.                                                           *)

\* What the property calls preferred of the scheduler is the top of the pool.
LEMMA PreferredFacts ==
  ASSUME NEW r \in Requests, NEW ok \in SUBSET Auths
  PROVE  Best(PreferWebsockets(r, Available(r, ok))) = Top(auths, Pool(r, auths, clock, ok))
<1>1. PICK available, ws :
        available = Available(r, ok) /\ ws = {a \in available : r.ws /\ auths[a].ws}
  OBVIOUS
<1>2. PICK pool, wsPool :
        /\ pool = (IF r.mixed THEN Ready(auths, clock) ELSE ReadyOf(r.provider, auths, clock))
                    \cap ok
        /\ wsPool = {a \in pool : auths[a].ws}
  OBVIOUS
<1>3. available = pool
  BY <1>1, <1>2 DEF Available, Ready, ReadyOf
<1>4. r.mixed => ~r.ws
  BY DEF Requests
<1>5. PreferWebsockets(r, available) = IF ws = {} THEN available ELSE ws
  BY <1>1 DEF PreferWebsockets
<1>6. (IF ws = {} THEN available ELSE ws) = Pool(r, auths, clock, ok)
  <2>1. Pool(r, auths, clock, ok) = IF Wants(~r.mixed /\ r.ws, wsPool) THEN wsPool ELSE pool
    BY <1>2 DEF Pool
  <2>2. CASE r.ws
    BY <1>1, <1>2, <1>3, <1>4, <2>1, <2>2 DEF Wants
  <2>3. CASE ~r.ws
    BY <1>1, <1>2, <1>3, <1>4, <2>1, <2>3 DEF Wants
  <2> QED
    BY <2>2, <2>3
<1> QED
  BY <1>1, <1>5, <1>6 DEF Best, Top

\* For any set of credentials with any profiles, in every state that upserts, removals,
\* picks, rebuilds, a change of strategy and time can bring about, every request gets an
\* available credential of the best tier it may have, and fails only if there is none
\* (pickSingle, pickMixed, ensureModelLocked).
THEOREM PicksTheBest == Spec => []PicksBest
<1>1. IInv => PicksBest
  <2> SUFFICES ASSUME IInv, NEW r \in Requests, NEW ok \in SUBSET Auths
               PROVE  IF Preferred(r, ok) = {} THEN Outcome(r, ok) = 0
                      ELSE Outcome(r, ok) \in Preferred(r, ok)
    BY DEF PicksBest
  <2>1. CASE UseSchedulerFastPath
    <3>1. PICK x, pool : x = PickScheduled(r, ok) /\ pool = Pool(r, auths, clock, ok)
      OBVIOUS
    <3>2. IF pool = {} THEN x.who = 0 ELSE x.who \in Top(auths, pool)
      BY <3>1, ScheduledFacts DEF Picks
    <3>3. Top(auths, pool) = {} <=> pool = {}
      BY <3>2 DEF Top
    <3>4. Preferred(r, ok) = Top(auths, pool) /\ Outcome(r, ok) = x.who
      BY <2>1, <3>1, PreferredFacts DEF Preferred, Outcome
    <3> QED
      BY <3>2, <3>3, <3>4
  <2>2. CASE ~UseSchedulerFastPath
    <3>1. PICK x, candidates :
            x = PickLegacy(r, ok) /\ candidates = PreferWebsockets(r, Best(Available(r, ok)))
      OBVIOUS
    <3>2. IF candidates = {} THEN x.who = 0 ELSE x.who \in candidates
      BY <3>1, LegacyFacts DEF IInv
    <3>3. Preferred(r, ok) = candidates /\ Outcome(r, ok) = x.who
      BY <2>2, <3>1 DEF Preferred, Outcome
    <3> QED
      BY <3>2, <3>3
  <2> QED
    BY <2>1, <2>2
<1> QED
  BY <1>1, AlwaysIInv, PTL

\* Whatever cools down, returns, is excluded or is picked for another request, nobody is
\* picked twice in a view while another that may be picked each time is waiting
\* (pickRoundRobin, restoreReadyViewCursors).
THEOREM RotationIsFair == Spec => []RotationFair
<1>1. IInv => RotationFair
  <2> SUFFICES ASSUME IInv, NEW p \in Provider, NEW q \in Priorities, NEW v \in Views,
                      NEW ok \in SUBSET shards[p].ready[q][v], ok # {}
               PROVE  LET cursor == shards[p].cursors[q][v]
                          who == Successor(cursor.last, ok)
                      IN \A b \in ok \ {who} : <<who, b>> \notin cursor.owed
    BY DEF RotationFair
  <2>1. PICK s, c : s = shards[p] /\ c = s.cursors[q][v]
    OBVIOUS
  <2>2. PICK last, who : last = c.last /\ who = Successor(last, ok)
    OBVIOUS
  <2>3. s \in Shard /\ AllInTurn(s)
    BY <2>1 DEF IInv, ShardsOK, ShardOK
  <2>4. c \in Cursor /\ InTurn(c) /\ ok \subseteq Auths
    BY <2>1, <2>3, ShardFields DEF AllInTurn
  <2>5. last \in Nat /\ \A x \in ok : x \in Nat
    BY <2>2, <2>4, CursorFields, Constants
  <2>6. \A b \in ok \ {who} : ~Passed(b, who, last)
    BY <2>2, <2>5, SuccessorFacts
  <2>7. \A b : <<who, b>> \in c.owed => Passed(b, who, last)
    BY <2>2, <2>4 DEF InTurn
  <2> QED
    BY <2>1, <2>2, <2>6, <2>7
<1> QED
  BY <1>1, AlwaysIInv, PTL

-----------------------------------------------------------------------------
(* The shares of weighted picks: what many picks among the same credentials come to. *)

TotalWeight(cs, ok) == Total(Weights(cs, ok), ok)

\* What the credits are before the weights are added (prepare).
Kept(state, cs, ok) ==
  [a \in Auths |-> IF Reconfigured(state.weights, Weights(cs, ok)) THEN 0
                   ELSE state.credits[a]]

\* The richest, after everyone has gained its weight, pays for all.
Pays(kept, weights, total, ok, who, credits) ==
  /\ who \in ok
  /\ \A a \in ok : kept[a] + weights[a] <= kept[who] + weights[who]
  /\ \A a \in ok : credits[a] = kept[a] + weights[a] - (IF a = who THEN total ELSE 0)

LEMMA WeightedPays ==
  ASSUME NEW state \in Credits, NEW cs \in Credentials, NEW ok \in SUBSET Auths, NEW x,
         ok # {}, x = PickWeighted(state, cs, ok)
  PROVE  /\ Pays(Kept(state, cs, ok), Weights(cs, ok), TotalWeight(cs, ok), ok, x.who,
                 x.state.credits)
         /\ ~Reconfigured(x.state.weights, Weights(cs, ok))
<1> DEFINE weights == Weights(cs, ok)
           credits == [a \in Auths |-> weights[a] +
                         IF Reconfigured(state.weights, weights) THEN 0
                         ELSE state.credits[a]]
           rich == {a \in ok : \A b \in ok : credits[b] <= credits[a]}
           who == Min(rich)
           total == MapThenSumSet(LAMBDA a : weights[a], ok)
           left == [credits EXCEPT ![who] = @ - total]
           c == [credits |-> left,
                 weights |-> [a \in Auths |-> IF a \in ok THEN weights[a]
                                              ELSE state.weights[a]]]
<1>1. x = [who |-> who, state |-> c]
  BY DEF PickWeighted
<1>2. /\ weights \in [Auths -> Nat] /\ IsFiniteSet(ok) /\ \A a \in ok : a \in Nat
      /\ state.credits \in [Auths -> Int]
  <2>1. weights \in [Auths -> Nat]
    BY WeightsType
  <2>2. IsFiniteSet(ok) /\ \A a \in ok : a \in Nat
    BY Constants, FS_Subset
  <2> QED
    BY <2>1, <2>2 DEF Credits
<1>3. PICK k : k = Kept(state, cs, ok)
  OBVIOUS
<1>4. \A a \in Auths : k[a] \in Int /\ credits[a] = k[a] + weights[a]
  BY <1>2, <1>3 DEF Kept
<1>5. \A a \in Auths : a \notin ok => weights[a] = 0
  BY DEF Weights
<1>6. total = TotalWeight(cs, ok)
  BY DEF TotalWeight, Total, Adds, Chosen, MapThenSumSet, MapThenFoldSet
<1>7. PICK w : w = [a \in Auths |-> IF a \in ok THEN weights[a] ELSE state.weights[a]]
  OBVIOUS
<1>8. c = [credits |-> left, weights |-> w]
  BY <1>7
<1>9. c.credits = left /\ c.weights = w
  <2> HIDE DEF left
  <2> QED
    BY <1>8
<1>10. credits \in [Auths -> Int]
  BY <1>2, <1>4
<1> HIDE DEF c, weights, total
<1>11. rich # {} /\ rich \subseteq ok
  <2> HIDE DEF credits
  <2>1. \A a \in ok : credits[a] \in Int
    BY <1>10
  <2>2. ok \in SUBSET ok
    OBVIOUS
  <2> QED
    BY <1>2, <2>1, <2>2, SomeRichest
<1>12. who \in rich
  <2> HIDE DEF rich
  <2> QED
    BY <1>2, <1>11, MinIsLeast
<1> HIDE DEF credits, who
<1>13. who \in ok /\ \A a \in ok : credits[a] <= credits[who]
  BY <1>12
<1>14. \A a \in ok : left[a] = IF a = who THEN credits[a] - total ELSE credits[a]
  BY <1>10
<1> HIDE DEF left, rich
<1>15. total \in Int
  <2>1. \A a \in ok : weights[a] \in Nat
    BY <1>2
  <2>2. Total(weights, ok) \in Nat
    BY <1>2, <2>1, SumFacts
  <2> QED
    BY <1>6, <2>2 DEF TotalWeight, weights
<1>16. \A a \in ok : left[a] = k[a] + weights[a] - (IF a = who THEN total ELSE 0)
  BY <1>2, <1>4, <1>14, <1>15
<1>17. \A a \in ok : k[a] + weights[a] <= k[who] + weights[who]
  BY <1>4, <1>13
<1>18. Pays(k, weights, total, ok, who, left)
  BY <1>13, <1>16, <1>17 DEF Pays
<1>19. ~Reconfigured(w, weights)
  BY <1>5, <1>7 DEF Reconfigured
<1> QED
  BY <1>1, <1>3, <1>6, <1>9, <1>18, <1>19 DEF weights


\* The credits sum to 0, and nobody owes as much as the weights are together.
Balanced(credits, total, ok) ==
  /\ \A a \in ok : credits[a] \in Int /\ credits[a] + total > 0
  /\ Total(credits, ok) = 0

LEMMA TotalOfZeros ==
  ASSUME NEW S, NEW F, IsFiniteSet(S), \A x \in S : F[x] = 0
  PROVE  Total(F, S) = 0
<1>1. PICK f : Total(F, S) = f[S] /\ Sums(f, F, S)
  BY TotalIsSum
<1> DEFINE Good == {T \in SUBSET S : f[T] = 0}
<1>2. ASSUME NEW T \in SUBSET S, T = {} \/ T \ {Chosen(T)} \in Good PROVE T \in Good
  <2>1. CASE T = {}
    <3>1. f[{}] = 0
      BY <1>1, SumOfNone
    <3> QED
      BY <2>1, <3>1
  <2>2. CASE T # {}
    <3>1. PICK c, U : c = Chosen(T) /\ U = T \ {c}
      OBVIOUS
    <3>2. f[T] = F[c] + f[U]
      BY <1>1, <2>2, <3>1 DEF Sums
    <3>3. F[c] = 0 /\ f[U] = 0
      BY <1>2, <2>2, <3>1, ChosenIn
    <3> QED
      BY <3>2, <3>3
  <2> QED
    BY <2>1, <2>2
<1>3. S \in Good
  <2> HIDE DEF Good
  <2> QED
    BY <1>2, SumInduction
<1> QED
  BY <1>1, <1>3

\* A pick leaves the credits balanced.
LEMMA PaysBalances ==
  ASSUME NEW ok, IsFiniteSet(ok), NEW kept, NEW weights, NEW total, NEW who, NEW credits,
         \A a \in ok : weights[a] \in Nat \ {0}, total = Total(weights, ok),
         Balanced(kept, total, ok), Pays(kept, weights, total, ok, who, credits)
  PROVE  Balanced(credits, total, ok)
<1>1. PICK mid : mid = [a \in ok |-> kept[a] + weights[a]]
  OBVIOUS
<1>2. \A a \in ok : /\ kept[a] \in Int /\ kept[a] + total > 0
                    /\ weights[a] \in Nat /\ weights[a] > 0
                    /\ mid[a] = kept[a] + weights[a]
  BY <1>1 DEF Balanced
<1>3. who \in ok
  BY DEF Pays
<1>4. total \in Nat /\ total > 0
  <2>1. \A a \in ok : weights[a] \in Nat
    BY <1>2
  <2>2. Total(weights, ok) \in Nat /\ weights[who] <= Total(weights, ok)
    BY <1>3, <2>1, SumFacts
  <2> QED
    BY <1>2, <1>3, <2>2
<1>5. Total(mid, ok) = total
  <2>1. \A a \in ok : kept[a] \in Int /\ weights[a] \in Int /\ mid[a] = kept[a] + weights[a]
    BY <1>2
  <2>2. Total(mid, ok) = Total(kept, ok) + Total(weights, ok)
    BY <2>1, TotalAdds
  <2> QED
    BY <1>4, <2>2 DEF Balanced
<1>6. \A a \in ok : mid[a] \in Int /\ credits[a] = IF a = who THEN mid[a] - total ELSE mid[a]
  <2>1. \A a \in ok : credits[a] = kept[a] + weights[a] - (IF a = who THEN total ELSE 0)
    BY DEF Pays
  <2> QED
    BY <1>2, <1>4, <2>1
<1>7. Total(credits, ok) = 0
  <2>1. total \in Int
    BY <1>4
  <2>2. Total(credits, ok) = Total(mid, ok) - total
    BY <1>3, <1>6, <2>1, TotalPays
  <2> QED
    BY <1>4, <1>5, <2>2
<1>8. mid[who] > 0
  <2>1. PICK a \in ok : mid[a] > 0
    <3>1. \A a \in ok : mid[a] \in Int
      BY <1>6
    <3> QED
      BY <1>4, <1>5, <3>1, TotalPositive
  <2>2. mid[a] <= mid[who]
    BY <1>2, <1>3 DEF Pays
  <2> QED
    BY <1>3, <1>6, <2>1, <2>2
<1>9. \A a \in ok : credits[a] \in Int /\ credits[a] + total > 0
  BY <1>2, <1>4, <1>6, <1>8
<1> QED
  BY <1>7, <1>9 DEF Balanced

\* How often a was picked in the first n picks.
TimesPicked(who, a, n) == Cardinality({k \in 0..(n - 1) : who[k] = a})

LEMMA NotPickedYet ==
  ASSUME NEW who, NEW a
  PROVE  TimesPicked(who, a, 0) = 0
<1>1. {k \in 0..(0 - 1) : who[k] = a} = {}
  OBVIOUS
<1> QED
  BY <1>1, FS_EmptySet DEF TimesPicked

LEMMA PickedOnceMore ==
  ASSUME NEW who, NEW a, NEW n \in Nat
  PROVE  /\ TimesPicked(who, a, n) \in Nat
         /\ TimesPicked(who, a, n + 1) =
              TimesPicked(who, a, n) + (IF who[n] = a THEN 1 ELSE 0)
<1>1. PICK S, T : S = {k \in 0..(n - 1) : who[k] = a} /\ T = {k \in 0..n : who[k] = a}
  OBVIOUS
<1>2. IsFiniteSet(S)
  <2>1. n - 1 \in Int
    OBVIOUS
  <2>2. IsFiniteSet(0..(n - 1)) /\ S \subseteq 0..(n - 1)
    BY <1>1, <2>1, FS_Interval
  <2> QED
    BY <2>2, FS_Subset
<1>3. TimesPicked(who, a, n) = Cardinality(S)
  BY <1>1 DEF TimesPicked
<1>4. TimesPicked(who, a, n + 1) = Cardinality(T)
  <2>1. (n + 1) - 1 = n
    OBVIOUS
  <2> QED
    BY <1>1, <2>1 DEF TimesPicked
<1>5. n \notin S /\ T = IF who[n] = a THEN S \cup {n} ELSE S
  BY <1>1
<1>6. Cardinality(S) \in Nat
  BY <1>2, FS_CardinalityType
<1>7. Cardinality(S \cup {n}) = Cardinality(S) + 1
  BY <1>2, <1>5, FS_AddElement
<1> QED
  BY <1>3, <1>4, <1>5, <1>6, <1>7


\* One pick after the other among the same credentials, without credits at first.
PicksInARow(c, who, cs, ok) ==
  /\ c \in [Nat -> Credits] /\ c[0].credits = Nothing
  /\ \A k \in Nat : PickWeighted(c[k], cs, ok) = [who |-> who[k], state |-> c[k + 1]]

\* After n picks each credit is what was gained, less what was paid.
Settled(kept, cs, ok, total, who, n) ==
  /\ Balanced(kept, total, ok)
  /\ \A a \in ok : kept[a] = n * cs[a].weight - total * TimesPicked(who, a, n)

LEMMA TotalWeightFacts ==
  ASSUME NEW cs \in Credentials, NEW ok \in SUBSET Auths, ok # {},
         \A a \in ok : cs[a].weight > 0
  PROVE  /\ IsFiniteSet(ok) /\ TotalWeight(cs, ok) \in Nat /\ TotalWeight(cs, ok) > 0
         /\ \A a \in ok : Weights(cs, ok)[a] = cs[a].weight /\ cs[a].weight \in Nat \ {0}
<1>1. IsFiniteSet(ok)
  BY Constants, FS_Subset
<1>2. PICK w : w = Weights(cs, ok)
  OBVIOUS
<1>3. \A a \in ok : w[a] = cs[a].weight /\ w[a] \in Nat \ {0}
  BY <1>2, CredentialFields DEF Weights
<1>4. PICK a : a \in ok
  OBVIOUS
<1>5. Total(w, ok) \in Nat /\ w[a] <= Total(w, ok)
  <2>1. \A b \in ok : w[b] \in Nat
    BY <1>3
  <2> QED
    BY <1>1, <1>4, <2>1, SumFacts
<1>6. Total(w, ok) > 0
  BY <1>3, <1>4, <1>5
<1> QED
  BY <1>1, <1>2, <1>3, <1>5, <1>6 DEF TotalWeight

LEMMA SettledAtFirst ==
  ASSUME NEW cs \in Credentials, NEW ok \in SUBSET Auths, NEW c, NEW who, ok # {},
         \A a \in ok : cs[a].weight > 0, PicksInARow(c, who, cs, ok)
  PROVE  Settled(Kept(c[0], cs, ok), cs, ok, TotalWeight(cs, ok), who, 0)
<1>1. PICK k, total : k = Kept(c[0], cs, ok) /\ total = TotalWeight(cs, ok)
  OBVIOUS
<1>2. \A a \in ok : k[a] = 0
  BY <1>1 DEF Kept, PicksInARow, Nothing
<1>3. /\ IsFiniteSet(ok) /\ total \in Nat /\ total > 0
      /\ \A a \in ok : cs[a].weight \in Nat
  BY <1>1, TotalWeightFacts
<1>4. Total(k, ok) = 0
  BY <1>2, <1>3, TotalOfZeros
<1>5. Balanced(k, total, ok)
  BY <1>2, <1>3, <1>4 DEF Balanced
<1>6. \A a \in ok : 0 * cs[a].weight - total * TimesPicked(who, a, 0) = 0
  BY <1>3, NotPickedYet
<1> QED
  BY <1>1, <1>2, <1>5, <1>6 DEF Settled

LEMMA StaysSettled ==
  ASSUME NEW cs \in Credentials, NEW ok \in SUBSET Auths, NEW c, NEW who, ok # {},
         \A a \in ok : cs[a].weight > 0, PicksInARow(c, who, cs, ok), NEW n \in Nat,
         Settled(Kept(c[n], cs, ok), cs, ok, TotalWeight(cs, ok), who, n)
  PROVE  Settled(Kept(c[n + 1], cs, ok), cs, ok, TotalWeight(cs, ok), who, n + 1)
<1>1. PICK k, total, w, next, kept :
        /\ k = Kept(c[n], cs, ok) /\ total = TotalWeight(cs, ok) /\ w = Weights(cs, ok)
        /\ next = c[n + 1] /\ kept = Kept(next, cs, ok)
  OBVIOUS
<1>2. c[n] \in Credits /\ next \in Credits
  BY <1>1 DEF PicksInARow
<1>3. PICK x : x = PickWeighted(c[n], cs, ok)
  OBVIOUS
<1>4. x = [who |-> who[n], state |-> next]
  BY <1>1, <1>3 DEF PicksInARow
<1>5. Pays(k, w, total, ok, x.who, x.state.credits) /\ ~Reconfigured(x.state.weights, w)
  BY <1>1, <1>2, <1>3, WeightedPays
<1>6. Pays(k, w, total, ok, who[n], next.credits) /\ ~Reconfigured(next.weights, w)
  BY <1>4, <1>5
<1>7. \A a \in ok : kept[a] = next.credits[a]
  BY <1>1, <1>6 DEF Kept
<1>8. Pays(k, w, total, ok, who[n], kept)
  BY <1>6, <1>7 DEF Pays
<1>9. /\ IsFiniteSet(ok) /\ total \in Nat
      /\ \A a \in ok : w[a] = cs[a].weight /\ w[a] \in Nat \ {0}
  BY <1>1, TotalWeightFacts
<1>10. Balanced(kept, total, ok)
  <2>1. total = Total(w, ok)
    BY <1>1 DEF TotalWeight
  <2>2. Balanced(k, total, ok)
    BY <1>1 DEF Settled
  <2>3. \A a \in ok : w[a] \in Nat \ {0}
    BY <1>9
  <2> QED
    BY <1>8, <1>9, <2>1, <2>2, <2>3, PaysBalances
<1>11. ASSUME NEW a \in ok
       PROVE  kept[a] = (n + 1) * cs[a].weight - total * TimesPicked(who, a, n + 1)
  <2>1. PICK t, u, one, weight :
          /\ t = TimesPicked(who, a, n) /\ u = TimesPicked(who, a, n + 1)
          /\ one = (IF who[n] = a THEN 1 ELSE 0) /\ weight = cs[a].weight
    OBVIOUS
  <2>2. t \in Nat /\ u = t + one /\ weight \in Nat
    BY <1>9, <2>1, PickedOnceMore
  <2>3. k[a] = n * weight - total * t
    BY <1>1, <2>1 DEF Settled
  <2>4. kept[a] = k[a] + weight - (IF a = who[n] THEN total ELSE 0)
    BY <1>8, <1>9, <2>1 DEF Pays
  <2>5. (n + 1) * weight = n * weight + weight
    BY <2>2
  <2>6. total * u = total * t + (IF a = who[n] THEN total ELSE 0)
    <3>1. CASE a = who[n]
      <4>1. u = t + 1
        BY <2>1, <2>2, <3>1
      <4>2. total * (t + 1) = total * t + total
        BY <1>9, <2>2
      <4> QED
        BY <3>1, <4>1, <4>2
    <3>2. CASE a # who[n]
      <4>1. u = t
        BY <2>1, <2>2, <3>2
      <4>2. total * t \in Int
        BY <1>9, <2>2
      <4> QED
        BY <3>2, <4>1, <4>2
    <3> QED
      BY <3>1, <3>2
  <2>7. n * weight \in Int /\ total * t \in Int
    BY <1>9, <2>2
  <2>8. PICK g, p, z : g = n * weight /\ p = total * t /\ z = (IF a = who[n] THEN total ELSE 0)
    OBVIOUS
  <2>9. kept[a] = (g + weight) - (p + z)
    <3>1. g \in Int /\ p \in Int /\ z \in Int /\ weight \in Int
      BY <1>9, <2>2, <2>7, <2>8
    <3>2. kept[a] = (g - p) + weight - z
      BY <2>3, <2>4, <2>8
    <3> QED
      BY <3>1, <3>2
  <2> QED
    BY <2>1, <2>5, <2>6, <2>8, <2>9
<1> QED
  BY <1>1, <1>10, <1>11 DEF Settled


\* Of n picks in a row among the same credentials (WeightedRoundRobinSelector.Pick), each gets
\* the share of its weight: less than one pick too many, and at most as many too few as
\* there are credentials.  So nobody waits for ever, and the credits stay within bounds that
\* do not depend on n: where these fit in 64 bits, the addition never saturates.
THEOREM SharesFollowWeights ==
  ASSUME NEW cs \in Credentials, NEW ok \in SUBSET Auths, NEW c, NEW who, ok # {},
         \A a \in ok : cs[a].weight > 0, PicksInARow(c, who, cs, ok),
         NEW n \in Nat, NEW a \in ok
  PROVE  LET total == TotalWeight(cs, ok)
             owed == n * cs[a].weight - total * TimesPicked(who, a, n)
         IN -total < owed /\ owed <= total * Cardinality(ok)
<1> DEFINE S(k) == Settled(Kept(c[k], cs, ok), cs, ok, TotalWeight(cs, ok), who, k)
           Bad == {k \in Nat : ~S(k)}
<1>1. S(0)
  BY SettledAtFirst
<1>2. ASSUME NEW k \in Nat, S(k) PROVE S(k + 1)
  BY <1>2, StaysSettled
<1>3. S(n)
  <2> HIDE DEF S
  <2> SUFFICES ASSUME n \in Bad PROVE FALSE
    OBVIOUS
  <2>1. PICK m \in Bad : \A k \in Bad : m <= k
    <3>1. Bad \subseteq Nat /\ Bad # {}
      OBVIOUS
    <3> HIDE DEF Bad
    <3> QED
      BY <3>1, LeastNumber
  <2>2. m \in Nat /\ m # 0 /\ ~S(m)
    BY <1>1, <2>1
  <2>3. m - 1 \in Nat /\ (m - 1) + 1 = m
    BY <2>2
  <2>4. m - 1 \notin Bad
    BY <2>1, <2>3
  <2>5. S(m - 1)
    BY <2>3, <2>4
  <2>6. S((m - 1) + 1)
    BY <1>2, <2>3, <2>5
  <2> QED
    BY <2>2, <2>3, <2>6
<1>4. PICK k, total : k = Kept(c[n], cs, ok) /\ total = TotalWeight(cs, ok)
  OBVIOUS
<1>5. /\ Balanced(k, total, ok)
      /\ k[a] = n * cs[a].weight - total * TimesPicked(who, a, n)
  BY <1>3, <1>4 DEF Settled
<1>6. IsFiniteSet(ok) /\ total \in Nat
  BY <1>4, TotalWeightFacts
<1>7. /\ \A b \in ok : k[b] \in Int /\ k[b] + total >= 0
      /\ k[a] + total > 0 /\ Total(k, ok) = 0
  BY <1>5, <1>6 DEF Balanced
<1>8. k[a] <= Total(k, ok) + total * Cardinality(ok)
  BY <1>6, <1>7, TotalBounds
<1>9. k[a] \in Int /\ total * Cardinality(ok) \in Int
  BY <1>6, <1>7, FS_CardinalityType
<1>10. -total < k[a] /\ k[a] <= total * Cardinality(ok)
  BY <1>6, <1>7, <1>8, <1>9
<1> QED
  BY <1>4, <1>5, <1>10

=============================================================================
