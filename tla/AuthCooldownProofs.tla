--------------------------- MODULE AuthCooldownProofs ---------------------------
(***************************************************************************)
(* Theorems about AuthState and AuthCooldown, for every finite set of      *)
(* models, all durations, failures and bounds.                             *)
(***************************************************************************)
EXTENDS AuthCooldown, FiniteSetTheorems, WellFoundedInduction, TLAPS

-----------------------------------------------------------------------------
(* Numbers.                                                                *)

LEMMA LeastNumber ==
  ASSUME NEW S, S \subseteq Nat, S # {}
  PROVE  \E m \in S : \A k \in S : m <= k
<1>1. PICK m \in S : \A k \in S : ~ (<<k, m>> \in OpToRel(<, Nat))
  BY NatLessThanWellFounded, WFMin
<1>2. \A k \in S : ~ (k < m)
  BY <1>1 DEF OpToRel
<1> QED
  BY <1>2

\* A non-empty set of subsets of a finite set has a minimal member.
LEMMA MinSubset ==
  ASSUME NEW S, IsFiniteSet(S), NEW T \in SUBSET SUBSET S, T # {}
  PROVE  \E x \in T : \A y \in T : y \subseteq x => y = x
<1>1. T \subseteq FiniteSubsetsOf(S)
  BY FS_FiniteSubsetsOfFinite
<1>2. \E x \in T : \A y \in T : ~ (<<y, x>> \in StrictSubsetOrdering(S))
  BY <1>1, FS_StrictSubsetOrderingWellFounded, WFMin
<1> QED
  BY <1>2 DEF StrictSubsetOrdering

LEMMA MinIsLeast ==
  ASSUME NEW S, S \subseteq Nat, S # {}
  PROVE  Min(S) \in S /\ \A k \in S : Min(S) <= k
  BY LeastNumber DEF Min

LEMMA GreatestNumber ==
  ASSUME NEW S, IsFiniteSet(S), \A x \in S : x \in Nat
  PROVE  \A T \in SUBSET S : T # {} => \E x \in T : \A k \in T : x >= k
<1> DEFINE Bad == {T \in SUBSET S : T # {} /\ ~\E x \in T : \A k \in T : x >= k}
<1> SUFFICES ASSUME Bad # {} PROVE FALSE
  OBVIOUS
<1>1. PICK T \in Bad : \A U \in Bad : U \subseteq T => U = T
  <2>1. Bad \in SUBSET SUBSET S
    OBVIOUS
  <2> HIDE DEF Bad
  <2> QED
    BY <2>1, MinSubset
<1>2. PICK y \in T : TRUE
  OBVIOUS
<1>3. T \ {y} # {}
  BY <1>1, <1>2
<1>4. T \ {y} \in SUBSET S /\ T \ {y} \notin Bad
  BY <1>1, <1>2
<1>5. PICK x \in T \ {y} : \A k \in T \ {y} : x >= k
  BY <1>3, <1>4
<1>6. x \in Nat /\ y \in Nat /\ \A k \in T : k \in Nat
  BY <1>1, <1>2
<1>7. CASE x >= y
  BY <1>1, <1>5, <1>7
<1>8. CASE ~(x >= y)
  <2>1. \A k \in T : y >= k
    BY <1>5, <1>6, <1>8
  <2> QED
    BY <1>1, <1>2, <2>1
<1> QED
  BY <1>7, <1>8

LEMMA MaxIsGreatest ==
  ASSUME NEW S, IsFiniteSet(S), S \subseteq Nat, S # {}
  PROVE  Max(S) \in S /\ \A k \in S : Max(S) >= k
<1>1. \E x \in S : \A k \in S : x >= k
  BY GreatestNumber
<1> QED
  BY <1>1 DEF Max

LEMMA Constants ==
  /\ Models \subseteq Nat \ {0} /\ IsFiniteSet(Models) /\ NoModel \notin Models
  /\ LongCooldown \in Nat \ {0} /\ ForcedCooldown \in Nat \ {0}
  /\ QuotaFloor \in Nat \ {0} /\ QuotaBase \in Nat \ {0} /\ QuotaMax \in Nat \ {0}
  BY CooldownAssumption DEF NoModel

LEMMA LaterFacts ==
  ASSUME NEW s \in Nat, NEW t \in Nat
  PROVE  Later(s, t) \in Nat /\ Later(s, t) >= s /\ Later(s, t) >= t
  BY DEF Later

\* What the definition of Backoff says of the first n + 1 levels.
Doubles(f, n) ==
  /\ f \in [0..n -> Nat \ {0}]
  /\ f[0] = QuotaBase
  /\ \A i \in 1..n : f[i] = 2 * f[i - 1]

LEMMA DoublesExists ==
  ASSUME NEW n \in Nat
  PROVE  \E f : Doubles(f, n)
<1> DEFINE Bad == {k \in Nat : ~\E f : Doubles(f, k)}
<1> SUFFICES ASSUME Bad # {} PROVE FALSE
  OBVIOUS
<1>1. PICK k \in Bad : \A i \in Bad : k <= i
  <2>1. Bad \subseteq Nat
    OBVIOUS
  <2> HIDE DEF Bad
  <2> QED
    BY <2>1, LeastNumber
<1>2. CASE k = 0
  <2>1. Doubles([i \in 0..0 |-> QuotaBase], 0)
    BY Constants DEF Doubles
  <2> QED
    BY <1>2, <2>1
<1>3. CASE k # 0
  <2>1. k - 1 \in Nat /\ k - 1 \notin Bad
    BY <1>1, <1>3
  <2>2. PICK f : Doubles(f, k - 1)
    BY <2>1
  <2> DEFINE g == [i \in 0..k |-> IF i = k THEN 2 * f[k - 1] ELSE f[i]]
  <2>3. /\ f \in [0..(k - 1) -> Nat \ {0}] /\ f[0] = QuotaBase
        /\ \A i \in 1..(k - 1) : f[i] = 2 * f[i - 1]
    BY <2>2 DEF Doubles
  <2>4. \A i \in 0..(k - 1) : i \in 0..k /\ i # k /\ g[i] = f[i] /\ f[i] \in Nat \ {0}
    BY <2>1, <2>3
  <2>5. g[k] = 2 * f[k - 1] /\ k - 1 \in 0..(k - 1)
    BY <2>1
  <2>6. g \in [0..k -> Nat \ {0}]
    <3>1. ASSUME NEW i \in 0..k PROVE g[i] \in Nat \ {0}
      <4>1. CASE i = k
        <5>1. f[k - 1] \in Nat \ {0}
          BY <2>4, <2>5
        <5>2. 2 * f[k - 1] \in Nat \ {0}
          BY <5>1
        <5> QED
          BY <2>5, <4>1, <5>2
      <4>2. CASE i # k
        <5>1. i \in 0..(k - 1)
          BY <4>2
        <5> QED
          BY <2>4, <5>1
      <4> QED
        BY <4>1, <4>2
    <3> QED
      BY <3>1
  <2>7. g[0] = QuotaBase
    BY <2>1, <2>3, <2>4
  <2>8. ASSUME NEW i \in 1..k PROVE g[i] = 2 * g[i - 1]
    <3>1. i - 1 \in 0..(k - 1)
      OBVIOUS
    <3>2. CASE i = k
      BY <2>4, <2>5, <3>1, <3>2
    <3>3. CASE i # k
      <4>1. i \in 1..(k - 1) /\ i \in 0..(k - 1)
        BY <3>3
      <4> QED
        BY <2>3, <2>4, <3>1, <4>1
    <3> QED
      BY <3>2, <3>3
  <2> HIDE DEF g
  <2>9. Doubles(g, k)
    BY <2>6, <2>7, <2>8 DEF Doubles
  <2> QED
    BY <2>9
<1> QED
  BY <1>2, <1>3

LEMMA DoublesUnique ==
  ASSUME NEW n \in Nat, NEW m \in Nat, NEW f, NEW g, Doubles(f, n), Doubles(g, m),
         NEW i \in 0..n, i <= m
  PROVE  f[i] = g[i]
<1> DEFINE Bad == {k \in 0..i : f[k] # g[k]}
<1> SUFFICES ASSUME Bad # {} PROVE FALSE
  OBVIOUS
<1>1. PICK k \in Bad : \A j \in Bad : k <= j
  <2>1. Bad \subseteq Nat
    OBVIOUS
  <2> HIDE DEF Bad
  <2> QED
    BY <2>1, LeastNumber
<1>2. k # 0
  BY DEF Doubles
<1>3. /\ k - 1 \in 0..i /\ k - 1 \notin Bad
      /\ k \in 1..n /\ k \in 1..m
  BY <1>1, <1>2
<1>4. f[k - 1] = g[k - 1]
  BY <1>3
<1> QED
  BY <1>3, <1>4 DEF Doubles

\* Every level has a positive backoff.
LEMMA BackoffPositive ==
  ASSUME NEW n \in Nat
  PROVE  Backoff[n] \in Nat \ {0}
<1> DEFINE g(k) == CHOOSE f : Doubles(f, k)
           h == [k \in Nat |-> g(k)[k]]
<1>1. \A k \in Nat : Doubles(g(k), k)
  BY DoublesExists
<1>3. h[0] = QuotaBase
  BY <1>1 DEF Doubles
<1>4. ASSUME NEW k \in Nat, k # 0 PROVE h[k] = 2 * h[k - 1]
  <2>1. k - 1 \in Nat /\ k \in 1..k /\ k - 1 \in 0..k /\ k - 1 <= k - 1
    BY <1>4
  <2>2. Doubles(g(k), k) /\ Doubles(g(k - 1), k - 1)
    BY <1>1, <2>1
  <2> DEFINE p == g(k)  q == g(k - 1)
  <2>3. h[k] = p[k] /\ h[k - 1] = q[k - 1]
    BY <2>1
  <2> HIDE DEF p, q, h
  <2>4. p[k] = 2 * p[k - 1]
    BY <2>1, <2>2 DEF Doubles, p
  <2>5. p[k - 1] = q[k - 1]
    BY <2>1, <2>2, DoublesUnique DEF p, q
  <2> QED
    BY <2>3, <2>4, <2>5
<1>5. h = [k \in Nat |-> IF k = 0 THEN QuotaBase ELSE 2 * h[k - 1]]
  <2> DEFINE e == [k \in Nat |-> IF k = 0 THEN QuotaBase ELSE 2 * h[k - 1]]
  <2>1. h = [k \in Nat |-> h[k]]
    OBVIOUS
  <2> HIDE DEF h
  <2>2. \A k \in Nat : h[k] = e[k]
    BY <1>3, <1>4
  <2> QED
    BY <2>1, <2>2
<1> HIDE DEF h
<1>6. Backoff = [k \in Nat |-> IF k = 0 THEN QuotaBase ELSE 2 * Backoff[k - 1]]
  BY <1>5 DEF Backoff
<1> DEFINE Bad == {k \in Nat : Backoff[k] \notin Nat \ {0}}
<1> SUFFICES ASSUME Bad # {} PROVE FALSE
  OBVIOUS
<1>7. PICK k \in Bad : \A j \in Bad : k <= j
  <2>1. Bad \subseteq Nat
    OBVIOUS
  <2> HIDE DEF Bad
  <2> QED
    BY <2>1, LeastNumber
<1>8. k # 0
  BY <1>6, Constants
<1>9. k - 1 \in Nat /\ Backoff[k] = 2 * Backoff[k - 1]
  BY <1>6, <1>8
<1>10. k - 1 \notin Bad
  BY <1>7, <1>9
<1>11. Backoff[k - 1] \in Nat \ {0}
  BY <1>9, <1>10
<1>12. 2 * Backoff[k - 1] \in Nat \ {0}
  BY <1>11
<1> QED
  BY <1>9, <1>12

-----------------------------------------------------------------------------
(* Types, and what the functions of a credential do to it.                 *)

QuotaType ==
  [exceeded : BOOLEAN, reason : {"", "quota", "credential_quota"},
   recoverAt : Nat, level : Nat]
ErrorType == {"none", "unauthorized", "other"}
StateType ==
  [unavailable : BOOLEAN, error : BOOLEAN, lastError : ErrorType,
   retryAt : Nat, quota : QuotaType, seq : Nat]
StatesFor(S) == UNION {[T -> StateType] : T \in SUBSET S}
AuthType ==
  [unavailable : BOOLEAN, error : BOOLEAN, lastError : ErrorType,
   retryAt : Nat, quota : QuotaType, seq : Nat, models : StatesFor(Models)]

LEMMA StatesElim ==
  ASSUME NEW S, NEW f \in StatesFor(S)
  PROVE  DOMAIN f \subseteq S /\ f \in [DOMAIN f -> StateType]
  BY DEF StatesFor

LEMMA StatesIntro ==
  ASSUME NEW S, NEW T \in SUBSET S, NEW f \in [T -> StateType]
  PROVE  f \in StatesFor(S)
  BY DEF StatesFor

LEMMA CleanTypes ==
  /\ NoQuota \in QuotaType
  /\ CleanState \in StateType
  /\ CleanAuth \in AuthType
<1>1. NoQuota \in QuotaType
  BY DEF NoQuota, QuotaType
<1>2. CleanState \in StateType
  BY <1>1 DEF CleanState, StateType, ErrorType
<1>3. [m \in {} |-> CleanState] \in StatesFor(Models)
  <2>1. [m \in {} |-> CleanState] \in [{} -> StateType] /\ {} \in SUBSET Models
    OBVIOUS
  <2> QED
    BY <2>1 DEF StatesFor
<1>4. CleanAuth \in AuthType
  <2> DEFINE none == [m \in {} |-> CleanState]
  <2>1. CleanAuth = [unavailable |-> FALSE, error |-> FALSE, lastError |-> "none",
                     retryAt |-> 0, quota |-> NoQuota, seq |-> 0, models |-> none]
    BY DEF CleanAuth
  <2>2. none \in StatesFor(Models)
    BY <1>3
  <2> HIDE DEF none
  <2> QED
    BY <1>1, <2>1, <2>2 DEF AuthType, ErrorType
<1> QED
  BY <1>1, <1>2, <1>4

\* The fields of a credential.
LEMMA AuthFields ==
  ASSUME NEW a \in AuthType
  PROVE  /\ a.unavailable \in BOOLEAN /\ a.error \in BOOLEAN
         /\ a.lastError \in ErrorType /\ a.retryAt \in Nat
         /\ a.quota \in QuotaType /\ a.seq \in Nat
         /\ a.models \in StatesFor(Models)
         /\ Known(a) \subseteq Models /\ a.models \in [Known(a) -> StateType]
         /\ a.quota.recoverAt \in Nat /\ a.quota.level \in Nat
<1>1. /\ a.unavailable \in BOOLEAN /\ a.error \in BOOLEAN
      /\ a.lastError \in ErrorType /\ a.retryAt \in Nat
      /\ a.quota \in QuotaType /\ a.seq \in Nat
      /\ a.models \in StatesFor(Models)
  BY DEF AuthType
<1>2. a.quota.recoverAt \in Nat /\ a.quota.level \in Nat
  BY <1>1 DEF QuotaType
<1> QED
  BY <1>1, <1>2, StatesElim DEF Known

LEMMA StateFields ==
  ASSUME NEW s \in StateType
  PROVE  /\ s.unavailable \in BOOLEAN /\ s.error \in BOOLEAN
         /\ s.lastError \in ErrorType /\ s.retryAt \in Nat
         /\ s.quota \in QuotaType /\ s.seq \in Nat
         /\ s.quota.recoverAt \in Nat /\ s.quota.level \in Nat
<1>1. s.quota \in QuotaType
  BY DEF StateType
<1> QED
  BY <1>1 DEF StateType, QuotaType

LEMMA StateOfType ==
  ASSUME NEW a \in AuthType, NEW m
  PROVE  StateOf(a, m) \in StateType
  BY AuthFields, CleanTypes DEF StateOf

LEMMA WithStateFacts ==
  ASSUME NEW a \in AuthType, NEW m \in Models, NEW s \in StateType,
         NEW b, b = WithState(a, m, s)
  PROVE  /\ b \in AuthType /\ Known(b) = Known(a) \cup {m}
         /\ b.models[m] = s
         /\ \A k \in Known(a) : k # m => b.models[k] = a.models[k]
         /\ b.unavailable = a.unavailable /\ b.error = a.error
         /\ b.lastError = a.lastError /\ b.retryAt = a.retryAt
         /\ b.quota = a.quota /\ b.seq = a.seq
<1> DEFINE f == [k \in Known(a) \cup {m} |-> IF k = m THEN s ELSE a.models[k]]
<1>1. b = [a EXCEPT !.models = f]
  BY DEF WithState
<1>2. f \in [Known(a) \cup {m} -> StateType] /\ Known(a) \cup {m} \in SUBSET Models
  BY AuthFields
<1>3. f \in StatesFor(Models)
  <2> HIDE DEF f
  <2> QED
    BY <1>2, StatesIntro
<1>4. /\ DOMAIN f = Known(a) \cup {m} /\ f[m] = s
      /\ \A k \in Known(a) : k # m => f[k] = a.models[k]
  OBVIOUS
<1> HIDE DEF f
<1>5. b \in AuthType /\ b.models = f
  BY <1>1, <1>3 DEF AuthType
<1>6. /\ b.unavailable = a.unavailable /\ b.error = a.error
      /\ b.lastError = a.lastError /\ b.retryAt = a.retryAt
      /\ b.quota = a.quota /\ b.seq = a.seq
  BY <1>1 DEF AuthType
<1> QED
  BY <1>4, <1>5, <1>6 DEF Known

LEMMA LapseFacts ==
  ASSUME NEW s \in StateType, NEW t \in Nat
  PROVE  /\ Lapse(s, t) \in StateType
         /\ Lapse(s, t).seq = s.seq /\ Lapse(s, t).quota = s.quota
         /\ Lapse(s, t).unavailable => Lapse(s, t) = s
         /\ Cooling(s, t) => Lapse(s, t) = s
         /\ s.unavailable /\ s.retryAt = 0 => Lapse(s, t) = s
<1>1. CASE s.unavailable /\ s.retryAt # 0 /\ s.retryAt <= t
  <2>1. Lapse(s, t) = [s EXCEPT !.unavailable = FALSE, !.retryAt = 0]
    BY <1>1 DEF Lapse
  <2>2. ~Cooling(s, t)
    BY <1>1, StateFields DEF Cooling
  <2>3. PICK l : l = [s EXCEPT !.unavailable = FALSE, !.retryAt = 0]
    OBVIOUS
  <2>4. l \in StateType /\ l.seq = s.seq /\ l.quota = s.quota /\ ~l.unavailable
    BY <2>3 DEF StateType
  <2>5. Lapse(s, t) = l
    BY <2>1, <2>3
  <2> QED
    BY <1>1, <2>2, <2>4, <2>5
<1>2. CASE ~(s.unavailable /\ s.retryAt # 0 /\ s.retryAt <= t)
  BY <1>2 DEF Lapse
<1> QED
  BY <1>1, <1>2

\* The states of the models are finitely many.
LEMMA StatesFinite ==
  ASSUME NEW a \in AuthType, NEW states, states = {a.models[m] : m \in Known(a)}
  PROVE  /\ states \subseteq StateType
         /\ IsFiniteSet({s.quota.level : s \in states})
         /\ {s.quota.level : s \in states} \subseteq Nat
<1>1. Known(a) \subseteq Models /\ a.models \in [Known(a) -> StateType]
  BY AuthFields
<1>2. IsFiniteSet(Known(a))
  BY <1>1, Constants, FS_Subset
<1> DEFINE T == {s.quota.level : s \in states}
           f == [m \in Known(a) |-> a.models[m].quota.level]
<1>3. f \in Surjection(Known(a), T)
  BY <1>1 DEF Surjection
<1>4. IsFiniteSet(T)
  <2> HIDE DEF T, f
  <2> QED
    BY <1>2, <1>3, FS_Surjection
<1>5. states \subseteq StateType
  BY <1>1
<1>6. T \subseteq Nat
  BY <1>5, StateFields
<1> QED
  BY <1>4, <1>5, <1>6

\* The earliest of some numbers.
LEMMA EarliestFacts ==
  ASSUME NEW T, T \subseteq Nat
  PROVE  EarliestOf(T) \in Nat /\ (T # {} => EarliestOf(T) \in T)
  BY MinIsLeast DEF EarliestOf

LEMMA AggregatedQuotaType ==
  ASSUME NEW a \in AuthType, NEW states, states = {a.models[m] : m \in Known(a)},
         NEW t \in Nat
  PROVE  AggregatedQuota(a.quota, states, t) \in QuotaType
<1> DEFINE over == {s \in states : s.quota.exceeded}
           levels == {s.quota.level : s \in over}
           recovers == {s.quota.recoverAt : s \in over} \ {0}
<1>1. over \subseteq StateType
  BY StatesFinite
<1>2. recovers \subseteq Nat
  BY <1>1, StateFields
<1>3. IsFiniteSet(levels) /\ levels \subseteq Nat
  <2>1. levels \subseteq {s.quota.level : s \in states}
    OBVIOUS
  <2> HIDE DEF levels
  <2> QED
    BY <2>1, StatesFinite, FS_Subset
<1>4. CASE over # {}
  <2>1. Max(levels) \in Nat
    <3>1. levels # {}
      BY <1>4
    <3> HIDE DEF levels
    <3> QED
      BY <1>3, <3>1, MaxIsGreatest
  <2>2. Later(a.quota.recoverAt, EarliestOf(recovers)) \in Nat
    <3> HIDE DEF recovers
    <3> QED
      BY <1>2, EarliestFacts, LaterFacts, AuthFields
  <2>3. AggregatedQuota(a.quota, states, t) =
          [exceeded |-> TRUE, reason |-> "quota",
           recoverAt |-> Later(a.quota.recoverAt, EarliestOf(recovers)),
           level |-> Max(levels)]
    BY <1>4 DEF AggregatedQuota
  <2>4. PICK until \in Nat, level \in Nat :
             until = Later(a.quota.recoverAt, EarliestOf(recovers)) /\ level = Max(levels)
    BY <2>1, <2>2
  <2>5. PICK q : q = [exceeded |-> TRUE, reason |-> "quota", recoverAt |-> until,
                      level |-> level]
    OBVIOUS
  <2>6. q \in QuotaType
    BY <2>5 DEF QuotaType
  <2> HIDE DEF recovers, levels
  <2> QED
    BY <2>3, <2>4, <2>5, <2>6
<1>5. CASE over = {}
  <2>1. AggregatedQuota(a.quota, states, t) \in {a.quota, NoQuota}
    BY <1>5 DEF AggregatedQuota
  <2> QED
    BY <2>1, AuthFields, CleanTypes
<1> QED
  BY <1>4, <1>5

\* Aggregation keeps the cooldowns that are live, and a live credential quota.
LEMMA AggregateFacts ==
  ASSUME NEW a \in AuthType, NEW t \in Nat, NEW b, b = Aggregate(a, t)
  PROVE  /\ b \in AuthType /\ Known(b) = Known(a)
         /\ b.error = a.error /\ b.lastError = a.lastError /\ b.seq = a.seq
         /\ \A k \in Known(a) : b.models[k] \in {a.models[k], Lapse(a.models[k], t)}
         /\ CredentialQuotaLive(a, t) =>
              b.quota = a.quota /\ b.unavailable /\ b.retryAt = a.retryAt
         /\ ~CredentialQuotaLive(a, t) /\ Known(a) # {}
              /\ (\A k \in Known(a) : Cooling(a.models[k], t)) =>
              Cooling(b, t)
<1>1. CASE CredentialQuotaLive(a, t)
  <2>1. b = [a EXCEPT !.unavailable = TRUE]
    BY <1>1 DEF Aggregate
  <2> QED
    BY <1>1, <2>1 DEF AuthType, Known
<1>2. CASE ~CredentialQuotaLive(a, t) /\ Known(a) = {}
  <2>1. b = [a EXCEPT !.unavailable = FALSE, !.retryAt = 0, !.quota = NoQuota]
    BY <1>2 DEF Aggregate
  <2>2. /\ b \in AuthType /\ b.models = a.models /\ b.error = a.error
        /\ b.lastError = a.lastError /\ b.seq = a.seq
    <3>1. PICK c : c = [a EXCEPT !.unavailable = FALSE, !.retryAt = 0, !.quota = NoQuota]
      OBVIOUS
    <3>2. /\ c \in AuthType /\ c.models = a.models /\ c.error = a.error
          /\ c.lastError = a.lastError /\ c.seq = a.seq
      BY <3>1, CleanTypes DEF AuthType
    <3> QED
      BY <2>1, <3>1, <3>2
  <2> QED
    BY <1>2, <2>2 DEF Known
<1>3. CASE ~CredentialQuotaLive(a, t) /\ Known(a) # {}
  <2> DEFINE states == {a.models[m] : m \in Known(a)}
             all == \A s \in states : Cooling(s, t)
             times == {s.retryAt : s \in states}
             f == [m \in Known(a) |-> Lapse(a.models[m], t)]
             quota == AggregatedQuota(a.quota, states, t)
             retryAt == IF all THEN Min(times) ELSE 0
  <2>1. b = [a EXCEPT !.models = f, !.unavailable = all, !.retryAt = retryAt,
                      !.quota = quota]
    BY <1>3 DEF Aggregate
  <2>2. Known(a) \subseteq Models /\ a.models \in [Known(a) -> StateType]
    BY AuthFields
  <2>3. f \in [Known(a) -> StateType] /\ f \in StatesFor(Models)
    <3>1. f \in [Known(a) -> StateType]
      BY <2>2, LapseFacts
    <3> HIDE DEF f
    <3> QED
      BY <2>2, <3>1, StatesIntro
  <2>4. quota \in QuotaType
    BY AggregatedQuotaType
  <2>5. times \subseteq Nat /\ times # {}
    BY <1>3, <2>2, StateFields
  <2>6. Min(times) \in times
    <3> HIDE DEF times
    <3> QED
      BY <2>5, MinIsLeast
  <2>7. retryAt \in Nat /\ (all => retryAt > t)
    BY <2>5, <2>6 DEF Cooling
  <2>8. all \in BOOLEAN /\ (all <=> \A k \in Known(a) : Cooling(a.models[k], t))
    OBVIOUS
  <2>9. DOMAIN f = Known(a) /\ \A k \in Known(a) : f[k] = Lapse(a.models[k], t)
    OBVIOUS
  <2> HIDE DEF f, quota, retryAt, all
  <2>10. /\ b \in AuthType /\ b.models = f /\ b.unavailable = all
         /\ b.retryAt = retryAt /\ b.error = a.error /\ b.lastError = a.lastError
         /\ b.seq = a.seq
    BY <2>1, <2>3, <2>4, <2>7, <2>8 DEF AuthType
  <2> QED
    BY <1>3, <2>7, <2>8, <2>9, <2>10 DEF Cooling, Known
<1> QED
  BY <1>1, <1>2, <1>3

\* What aggregation does to one model.
LEMMA AggregateModel ==
  ASSUME NEW a \in AuthType, NEW t \in Nat, NEW k \in Known(a),
         NEW s, s = Aggregate(a, t).models[k]
  PROVE  /\ s \in StateType /\ s.seq = a.models[k].seq
         /\ s.quota = a.models[k].quota
         /\ s.unavailable => s = a.models[k]
         /\ Cooling(a.models[k], t) => s = a.models[k]
<1>1. a.models[k] \in StateType
  BY AuthFields
<1>2. s \in {a.models[k], Lapse(a.models[k], t)}
  BY AggregateFacts
<1> QED
  BY <1>1, <1>2, LapseFacts

LEMMA ClearedFacts ==
  ASSUME NEW a \in AuthType, NEW t \in Nat, NEW b, b = ClearStatusUnlessError(a, t)
  PROVE  /\ b \in AuthType /\ b.models = a.models /\ b.quota = a.quota
         /\ b.unavailable = a.unavailable /\ b.retryAt = a.retryAt /\ b.seq = a.seq
<1>1. b = a \/ b = [a EXCEPT !.lastError = "none", !.error = FALSE]
  BY DEF ClearStatusUnlessError
<1> QED
  BY <1>1 DEF AuthType, ErrorType

-----------------------------------------------------------------------------
(* Failures.                                                               *)

LEMMA FailureFields ==
  ASSUME NEW r \in Failures
  PROVE  /\ r.kind \in FailureKinds /\ r.hint \in Nat /\ r.transient \in Nat
         /\ r.scope \in BOOLEAN /\ r.forced \in BOOLEAN /\ r.cooling \in BOOLEAN
         /\ ErrorOf(r) \in ErrorType
         /\ CoolingOn(r) \in BOOLEAN /\ (r.forced => CoolingOn(r))
<1>1. /\ r.kind \in FailureKinds /\ r.hint \in Nat /\ r.transient \in Nat
      /\ r.scope \in BOOLEAN /\ r.forced \in BOOLEAN /\ r.cooling \in BOOLEAN
  BY AuthCooldownAssumption
<1> QED
  BY <1>1 DEF ErrorOf, ErrorType, CoolingOn

\* A window ends in the future; it escalates only if it is a new one.
LEMMA QuotaWindowFacts ==
  ASSUME NEW q \in QuotaType, NEW t \in Nat
  PROVE  /\ QuotaWindow(q, t).until \in Nat /\ QuotaWindow(q, t).until > t
         /\ QuotaWindow(q, t).level \in Nat
         /\ q.recoverAt > t => QuotaWindow(q, t).level = q.level
<1> DEFINE cooldown == Backoff[q.level]
<1>1. q.level \in Nat /\ q.recoverAt \in Nat
  BY DEF QuotaType
<1>2. cooldown \in Nat \ {0}
  BY <1>1, BackoffPositive
<1>3. QuotaMax \in Nat \ {0}
  BY Constants
<1>4. CASE q.recoverAt > t
  <2>1. QuotaWindow(q, t) = [until |-> q.recoverAt, level |-> q.level]
    BY <1>1, <1>4 DEF QuotaWindow
  <2> QED
    BY <1>1, <1>4, <2>1
<1>5. CASE ~(q.recoverAt > t) /\ cooldown >= QuotaMax
  <2>1. QuotaWindow(q, t) = [until |-> t + QuotaMax, level |-> q.level]
    BY <1>1, <1>5 DEF QuotaWindow
  <2> QED
    BY <1>1, <1>3, <1>5, <2>1
<1>6. CASE ~(q.recoverAt > t) /\ ~(cooldown >= QuotaMax)
  <2>1. QuotaWindow(q, t) = [until |-> t + cooldown, level |-> q.level + 1]
    BY <1>1, <1>6 DEF QuotaWindow
  <2> HIDE DEF cooldown
  <2> QED
    BY <1>1, <1>2, <1>6, <2>1
<1> QED
  BY <1>4, <1>5, <1>6

LEMMA WindowFacts ==
  ASSUME NEW q \in QuotaType, NEW t \in Nat, NEW r \in Failures
  PROVE  /\ WindowAfter(q, r, t).until \in Nat /\ WindowAfter(q, r, t).level \in Nat
         /\ CoolingOn(r) => WindowAfter(q, r, t).until > t
         /\ ~CoolingOn(r) => WindowAfter(q, r, t).until = 0
         /\ q.recoverAt > t => WindowAfter(q, r, t).level = q.level
         /\ ~CoolingOn(r) => WindowAfter(q, r, t).level = q.level
<1>1. q.level \in Nat /\ r.hint \in Nat /\ QuotaFloor \in Nat \ {0}
  BY FailureFields, Constants DEF QuotaType
<1>2. CASE ~CoolingOn(r)
  <2>1. WindowAfter(q, r, t) = [until |-> 0, level |-> q.level]
    BY <1>2 DEF WindowAfter
  <2> QED
    BY <1>1, <1>2, <2>1
<1>3. CASE CoolingOn(r) /\ r.hint > 0
  <2> DEFINE cooldown == Later(r.hint, QuotaFloor)
  <2>1. WindowAfter(q, r, t) = [until |-> t + cooldown, level |-> q.level]
    BY <1>3 DEF WindowAfter
  <2>2. cooldown \in Nat \ {0}
    BY <1>1, <1>3 DEF Later
  <2> HIDE DEF cooldown
  <2> QED
    BY <1>1, <1>3, <2>1, <2>2
<1>4. CASE CoolingOn(r) /\ ~(r.hint > 0)
  <2>1. WindowAfter(q, r, t) = QuotaWindow(q, t)
    BY <1>4 DEF WindowAfter
  <2> QED
    BY <1>4, <2>1, QuotaWindowFacts
<1> QED
  BY <1>2, <1>3, <1>4

LEMMA DeadlineFacts ==
  ASSUME NEW r \in Failures, NEW t \in Nat
  PROVE  /\ DeadlineOf(r, t) \in Nat
         /\ DeadlineOf(r, t) # 0 => DeadlineOf(r, t) > t
         /\ CoolingOn(r) /\ r.kind \in {"missing", "unauthorized", "denied"}
              => DeadlineOf(r, t) # 0
         /\ CoolingOn(r) /\ r.kind = "transient" /\ r.transient > 0
              => DeadlineOf(r, t) # 0
<1>1. /\ r.hint \in Nat /\ r.transient \in Nat /\ LongCooldown \in Nat \ {0}
      /\ \A d \in Nat \ {0} : HintOr(r, d) \in Nat \ {0}
  BY FailureFields, Constants DEF HintOr
<1>2. CASE ~CoolingOn(r)
  BY <1>2 DEF DeadlineOf
<1>3. CASE CoolingOn(r) /\ r.kind = "missing"
  <2>1. DeadlineOf(r, t) = t + HintOr(r, LongCooldown)
    BY <1>3 DEF DeadlineOf
  <2> QED
    BY <1>1, <1>3, <2>1
<1>4. CASE CoolingOn(r) /\ r.kind \in {"unauthorized", "denied"}
  <2>1. DeadlineOf(r, t) = t + LongCooldown
    BY <1>4 DEF DeadlineOf
  <2> QED
    BY <1>1, <1>4, <2>1
<1>5. CASE CoolingOn(r) /\ r.kind = "transient" /\ r.transient > 0
  <2>1. DeadlineOf(r, t) = t + HintOr(r, r.transient)
    BY <1>5 DEF DeadlineOf
  <2>2. r.transient \in Nat \ {0}
    BY <1>1, <1>5
  <2> QED
    BY <1>1, <1>5, <2>1, <2>2
<1>6. CASE CoolingOn(r) /\ r.kind \notin {"missing", "unauthorized", "denied"}
           /\ ~(r.kind = "transient" /\ r.transient > 0)
  <2>1. DeadlineOf(r, t) = 0
    BY <1>6 DEF DeadlineOf
  <2> QED
    BY <1>6, <2>1
<1> QED
  BY <1>2, <1>3, <1>4, <1>5, <1>6

\* What is left of the deadline before, and what force_cooldown makes of none.
LEMMA ExtendFacts ==
  ASSUME NEW r \in Failures, NEW t \in Nat, NEW prev \in Nat, NEW next \in Nat,
         next = 0 \/ next > t
  PROVE  \E until \in Nat :
           /\ until = Extend(prev, Enforced(r, next, t), t)
           /\ r.forced => until > t
           /\ (next # 0 \/ r.forced) /\ prev > t => until >= prev
<1>1. ForcedCooldown \in Nat \ {0} /\ r.forced \in BOOLEAN
  BY Constants, FailureFields
<1>2. PICK n : n = Enforced(r, next, t)
  OBVIOUS
<1>3. n \in Nat /\ (r.forced => n > t) /\ (next # 0 => n = next)
  BY <1>1, <1>2 DEF Enforced
<1>4. PICK until : until = IF n # 0 /\ prev > n /\ prev > t THEN prev ELSE n
  OBVIOUS
<1>5. until = Extend(prev, Enforced(r, next, t), t)
  BY <1>2, <1>4 DEF Extend
<1>6. /\ until \in Nat
      /\ r.forced => until > t
      /\ (next # 0 \/ r.forced) /\ prev > t => until >= prev
  BY <1>3, <1>4
<1> QED
  BY <1>5, <1>6

LEMMA KeepLaterFacts ==
  ASSUME NEW q \in QuotaType, NEW u \in Nat
  PROVE  /\ KeepLater(q, u) \in Nat /\ KeepLater(q, u) >= u
         /\ q.exceeded => KeepLater(q, u) >= q.recoverAt
<1>1. q.recoverAt \in Nat
  BY DEF QuotaType
<1>2. PICK l \in Nat : l = Later(q.recoverAt, u) /\ l >= q.recoverAt /\ l >= u
  BY <1>1, LaterFacts
<1>3. CASE q.exceeded
  <2>1. KeepLater(q, u) = l
    BY <1>2, <1>3 DEF KeepLater
  <2> QED
    BY <1>2, <2>1
<1>4. CASE ~q.exceeded
  <2>1. KeepLater(q, u) = u
    BY <1>4 DEF KeepLater
  <2> QED
    BY <1>4, <2>1
<1> QED
  BY <1>3, <1>4

LEMMA CountedType ==
  ASSUME NEW a \in AuthType, NEW s \in StateType, NEW r \in Failures
  PROVE  /\ CountedQuota(a, s, r) \in QuotaType
         /\ CountedQuota(a, s, r).level \in {0, s.quota.level, a.quota.level}
         /\ ~r.scope => CountedQuota(a, s, r) = s.quota
         /\ r.scope /\ HasCredentialQuota(a) => CountedQuota(a, s, r) = a.quota
<1>1. s.quota \in QuotaType /\ a.quota \in QuotaType /\ r.scope \in BOOLEAN
  BY StateFields, AuthFields, FailureFields
<1>2. PICK q : q = [s.quota EXCEPT !.recoverAt = 0, !.level = 0]
  OBVIOUS
<1>3. q \in QuotaType /\ q.level = 0
  BY <1>1, <1>2 DEF QuotaType
<1>4. CountedQuota(a, s, r) = IF ~r.scope THEN s.quota
                              ELSE IF HasCredentialQuota(a) THEN a.quota ELSE q
  BY <1>2 DEF CountedQuota
<1> QED
  BY <1>1, <1>3, <1>4

LEMMA PropagateFacts ==
  ASSUME NEW o \in StateType, NEW w, NEW seq \in Nat, NEW p,
         w.until \in Nat, w.level \in Nat, p = Propagate(o, w, seq)
  PROVE  /\ p \in StateType /\ p.unavailable /\ p.seq = seq
         /\ p.retryAt >= o.retryAt /\ p.retryAt >= w.until
<1>1. o.quota \in QuotaType /\ o.retryAt \in Nat
  BY StateFields
<1>2. PICK until \in Nat : until = KeepLater(o.quota, w.until) /\ until >= w.until
  BY <1>1, KeepLaterFacts
<1>3. PICK retryAt \in Nat : retryAt = Later(o.retryAt, until) /\ retryAt >= o.retryAt
                             /\ retryAt >= until
  BY <1>1, LaterFacts
<1>4. PICK level \in Nat : level = w.level
  OBVIOUS
<1>5. PICK q : q = [exceeded |-> TRUE, reason |-> "credential_quota",
                    recoverAt |-> until, level |-> level]
  OBVIOUS
<1>6. q \in QuotaType
  BY <1>5 DEF QuotaType
<1>7. p = [o EXCEPT !.unavailable = TRUE, !.error = TRUE, !.retryAt = retryAt,
                    !.quota = q, !.seq = seq]
  BY <1>2, <1>3, <1>4, <1>5 DEF Propagate
<1>8. PICK n : n = [o EXCEPT !.unavailable = TRUE, !.error = TRUE, !.retryAt = retryAt,
                             !.quota = q, !.seq = seq]
  OBVIOUS
<1>9. n \in StateType /\ n.unavailable /\ n.seq = seq /\ n.retryAt = retryAt
  BY <1>6, <1>8 DEF StateType
<1> QED
  BY <1>2, <1>3, <1>7, <1>8, <1>9

LEMMA PropagateToAuthFacts ==
  ASSUME NEW a \in AuthType, NEW m, NEW w, NEW seq \in Nat, NEW c,
         w.until \in Nat, w.level \in Nat, c = PropagateToAuth(a, m, w, seq)
  PROVE  /\ c \in AuthType /\ Known(c) = Known(a)
         /\ \A k \in Known(a) :
              c.models[k] = IF k = m THEN a.models[k] ELSE Propagate(a.models[k], w, seq)
         /\ HasCredentialQuota(c) /\ c.quota.recoverAt >= w.until
         /\ HasCredentialQuota(a) => c.quota.recoverAt >= a.quota.recoverAt
         /\ c.quota.level = w.level
<1>1. /\ a.quota \in QuotaType /\ Known(a) \subseteq Models
      /\ a.models \in [Known(a) -> StateType]
  BY AuthFields
<1>2. PICK until \in Nat :
        /\ until = IF HasCredentialQuota(a) THEN KeepLater(a.quota, w.until) ELSE w.until
        /\ until >= w.until
        /\ HasCredentialQuota(a) => until >= a.quota.recoverAt
  <2>1. CASE HasCredentialQuota(a)
    <3>1. a.quota.exceeded
      BY <2>1 DEF HasCredentialQuota
    <3> QED
      BY <1>1, <2>1, <3>1, KeepLaterFacts
  <2>2. CASE ~HasCredentialQuota(a)
    BY <2>2
  <2> QED
    BY <2>1, <2>2
<1>3. PICK level \in Nat : level = w.level
  OBVIOUS
<1>4. PICK q : q = [exceeded |-> TRUE, reason |-> "credential_quota",
                    recoverAt |-> until, level |-> level]
  OBVIOUS
<1>5. /\ q \in QuotaType /\ q.exceeded /\ q.reason = "credential_quota"
      /\ q.recoverAt = until /\ q.level = level
  BY <1>4 DEF QuotaType
<1> DEFINE f == [k \in Known(a) |->
                   IF k = m THEN a.models[k] ELSE Propagate(a.models[k], w, seq)]
<1>6. f \in [Known(a) -> StateType]
  BY <1>1, PropagateFacts
<1>7. f \in StatesFor(Models)
  <2> HIDE DEF f
  <2> QED
    BY <1>1, <1>6, StatesIntro
<1>8. DOMAIN f = Known(a) /\ \A k \in Known(a) :
        f[k] = IF k = m THEN a.models[k] ELSE Propagate(a.models[k], w, seq)
  OBVIOUS
<1>9. c = [a EXCEPT !.models = f, !.unavailable = TRUE, !.retryAt = until, !.quota = q,
                    !.seq = seq]
  BY <1>2, <1>3, <1>4 DEF PropagateToAuth
<1> HIDE DEF f
<1>10. PICK d : d = [a EXCEPT !.models = f, !.unavailable = TRUE, !.retryAt = until,
                              !.quota = q, !.seq = seq]
  OBVIOUS
<1>11. d \in AuthType /\ d.models = f /\ d.quota = q
  BY <1>5, <1>7, <1>10 DEF AuthType
<1>12. c = d
  BY <1>9, <1>10
<1> QED
  BY <1>2, <1>3, <1>5, <1>8, <1>11, <1>12 DEF Known, HasCredentialQuota

Opens(r) == r.kind = "quota" /\ r.scope /\ CoolingOn(r)

\* What a failure records of its model, before anything is propagated.
FailedState(a, m, r, t, seq) ==
  LET s == StateOf(a, m)
      w == WindowAfter(CountedQuota(a, s, r), r, t)
      until == IF CoolingOn(r) THEN KeepLater(s.quota, w.until) ELSE w.until
      next == IF r.kind = "quota" THEN until ELSE DeadlineOf(r, t)
  IN  [unavailable |-> TRUE, error |-> TRUE, lastError |-> ErrorOf(r),
       retryAt |-> Extend(s.retryAt, Enforced(r, next, t), t),
       quota |-> IF r.kind = "quota"
                 THEN [exceeded |-> TRUE, reason |-> "quota",
                       recoverAt |-> until, level |-> w.level]
                 ELSE s.quota,
       seq |-> seq]

LEMMA FailedFacts ==
  ASSUME NEW a \in AuthType, NEW m \in Models, NEW r \in Failures, NEW t \in Nat,
         NEW seq \in Nat, NEW s, s = StateOf(a, m),
         NEW f, f = FailedState(a, m, r, t, seq)
  PROVE  /\ f \in StateType /\ f.unavailable /\ f.seq = seq
         /\ r.forced => f.retryAt > t
         /\ CoolingOn(r) /\ SetsDeadline(r) /\ s.retryAt > t => f.retryAt >= s.retryAt
         /\ r.kind = "quota" =>
              f.quota.level = WindowAfter(CountedQuota(a, s, r), r, t).level
<1>1. s \in StateType
  BY StateOfType
<1>2. s.retryAt \in Nat /\ s.quota \in QuotaType
  BY <1>1, StateFields
<1>3. CountedQuota(a, s, r) \in QuotaType
  BY <1>1, CountedType
<1>4. PICK w : w = WindowAfter(CountedQuota(a, s, r), r, t)
  OBVIOUS
<1>5. w.until \in Nat /\ w.level \in Nat /\ (CoolingOn(r) => w.until > t)
      /\ (~CoolingOn(r) => w.until = 0)
  BY <1>3, <1>4, WindowFacts
<1>6. PICK level \in Nat : level = w.level
  BY <1>5
<1>7. PICK until \in Nat :
        /\ until = IF CoolingOn(r) THEN KeepLater(s.quota, w.until) ELSE w.until
        /\ until = 0 \/ until > t
        /\ CoolingOn(r) => until # 0
  <2>1. CASE CoolingOn(r)
    <3>1. PICK u \in Nat : u = KeepLater(s.quota, w.until) /\ u >= w.until
      BY <1>2, <1>5, KeepLaterFacts
    <3> QED
      BY <1>5, <2>1, <3>1
  <2>2. CASE ~CoolingOn(r)
    BY <1>5, <2>2
  <2> QED
    BY <2>1, <2>2
<1>8. PICK next \in Nat :
        /\ next = IF r.kind = "quota" THEN until ELSE DeadlineOf(r, t)
        /\ next = 0 \/ next > t
        /\ CoolingOn(r) /\ SetsDeadline(r) /\ ~r.forced => next # 0
  <2>1. CASE r.kind = "quota"
    BY <1>7, <2>1
  <2>2. CASE r.kind # "quota"
    <3>1. r.kind \in FailureKinds
      BY FailureFields
    <3> QED
      BY <2>2, <3>1, DeadlineFacts DEF SetsDeadline, FailureKinds
  <2> QED
    BY <2>1, <2>2
<1>9. PICK retryAt \in Nat :
        /\ retryAt = Extend(s.retryAt, Enforced(r, next, t), t)
        /\ r.forced => retryAt > t
        /\ (next # 0 \/ r.forced) /\ s.retryAt > t => retryAt >= s.retryAt
  <2>1. PICK prev \in Nat : prev = s.retryAt
    BY <1>2
  <2>2. next = 0 \/ next > t
    BY <1>8
  <2> QED
    BY <2>1, <2>2, ExtendFacts
<1>10. PICK n : n = [exceeded |-> TRUE, reason |-> "quota", recoverAt |-> until,
                     level |-> level]
  OBVIOUS
<1>11. n \in QuotaType /\ n.level = level
  BY <1>10 DEF QuotaType
<1>12. PICK q \in QuotaType : q = IF r.kind = "quota" THEN n ELSE s.quota
  BY <1>2, <1>11
<1>13. PICK e \in ErrorType : e = ErrorOf(r)
  BY FailureFields
<1>14. PICK g : g = [unavailable |-> TRUE, error |-> TRUE, lastError |-> e,
                     retryAt |-> retryAt, quota |-> q, seq |-> seq]
  OBVIOUS
<1>15. /\ g \in StateType /\ g.unavailable /\ g.seq = seq /\ g.retryAt = retryAt
       /\ g.quota = q
  BY <1>14 DEF StateType
<1>16. f = g
  BY <1>4, <1>6, <1>7, <1>8, <1>9, <1>10, <1>12, <1>13, <1>14 DEF FailedState
<1> QED
  BY <1>4, <1>6, <1>8, <1>9, <1>11, <1>12, <1>15, <1>16


\* A failure of an execution of a model.
LEMMA FailModelFacts ==
  ASSUME NEW a \in AuthType, NEW m \in Models, NEW r \in Failures, NEW t \in Nat,
         NEW seq \in Nat, NEW b, b = FailModel(a, m, r, t, seq)
  PROVE  /\ b \in AuthType /\ Known(b) = Known(a) \cup {m}
         /\ Opens(r) =>
              /\ b.quota.recoverAt > t /\ HasCredentialQuota(b)
              /\ HasCredentialQuota(a) => b.quota.recoverAt >= a.quota.recoverAt
              /\ CredentialQuotaLive(a, t) => b.quota.level = a.quota.level
              /\ \A k \in Known(b) : b.models[k].seq = seq
         /\ ~Opens(r) /\ CredentialQuotaLive(a, t) => b.quota = a.quota
         /\ \A k \in Known(a) : Cooling(a.models[k], t) /\ k # m =>
              /\ Cooling(b.models[k], t)
              /\ b.models[k].retryAt >= a.models[k].retryAt
         /\ ~Opens(r) => \A k \in Known(a) : k # m =>
              /\ b.models[k].seq = a.models[k].seq
              /\ b.models[k].unavailable => a.models[k].unavailable
         /\ b.models[m].seq = seq
         /\ r.forced => Cooling(b.models[m], t)
         /\ CoolingOn(r) /\ SetsDeadline(r) /\ m \in Known(a) /\ Cooling(a.models[m], t) =>
              b.models[m].retryAt >= a.models[m].retryAt
         /\ r.kind = "quota" =>
              b.models[m].quota.level =
                WindowAfter(CountedQuota(a, StateOf(a, m), r), r, t).level
<1>1. PICK s \in StateType : s = StateOf(a, m)
  BY StateOfType
<1>2. PICK f : f = FailedState(a, m, r, t, seq)
  OBVIOUS
<1>3. /\ f \in StateType /\ f.unavailable /\ f.seq = seq
      /\ r.forced => f.retryAt > t
      /\ CoolingOn(r) /\ SetsDeadline(r) /\ s.retryAt > t => f.retryAt >= s.retryAt
      /\ r.kind = "quota" => f.quota.level = WindowAfter(CountedQuota(a, s, r), r, t).level
  BY <1>1, <1>2, FailedFacts
<1>4. PICK w : w = WindowAfter(CountedQuota(a, s, r), r, t)
  OBVIOUS
<1>5. /\ CountedQuota(a, s, r) \in QuotaType
      /\ r.scope /\ HasCredentialQuota(a) => CountedQuota(a, s, r) = a.quota
  BY CountedType
<1>6. /\ w.until \in Nat /\ w.level \in Nat /\ (CoolingOn(r) => w.until > t)
      /\ CountedQuota(a, s, r).recoverAt > t => w.level = CountedQuota(a, s, r).level
  BY <1>4, <1>5, WindowFacts
<1>7. PICK d : d = WithState(a, m, f)
  OBVIOUS
<1>8. /\ d \in AuthType /\ Known(d) = Known(a) \cup {m} /\ d.models[m] = f
      /\ \A k \in Known(a) : k # m => d.models[k] = a.models[k]
      /\ d.quota = a.quota
  BY <1>3, <1>7, WithStateFacts
<1>9. PICK c : c = IF Opens(r) THEN PropagateToAuth(d, m, w, seq) ELSE d
  OBVIOUS
<1>10. /\ c \in AuthType /\ Known(c) = Known(d)
       /\ c.models[m] = f
       /\ Opens(r) =>
            /\ \A k \in Known(a) : k # m => c.models[k] = Propagate(a.models[k], w, seq)
            /\ HasCredentialQuota(c) /\ c.quota.recoverAt >= w.until
            /\ HasCredentialQuota(a) => c.quota.recoverAt >= a.quota.recoverAt
            /\ c.quota.level = w.level
       /\ ~Opens(r) => c = d
  <2>1. CASE Opens(r)
    <3>1. c = PropagateToAuth(d, m, w, seq)
      BY <1>9, <2>1
    <3>2. /\ c \in AuthType /\ Known(c) = Known(d)
          /\ \A k \in Known(d) :
               c.models[k] = IF k = m THEN d.models[k] ELSE Propagate(d.models[k], w, seq)
          /\ HasCredentialQuota(c) /\ c.quota.recoverAt >= w.until
          /\ HasCredentialQuota(d) => c.quota.recoverAt >= d.quota.recoverAt
          /\ c.quota.level = w.level
      <4>1. w.until \in Nat /\ w.level \in Nat
        BY <1>6
      <4>2. d \in AuthType
        BY <1>8
      <4> QED
        BY <3>1, <4>1, <4>2, PropagateToAuthFacts
    <3>3. HasCredentialQuota(d) <=> HasCredentialQuota(a)
      BY <1>8 DEF HasCredentialQuota
    <3> QED
      BY <1>8, <2>1, <3>2, <3>3
  <2>2. CASE ~Opens(r)
    BY <1>8, <1>9, <2>2
  <2> QED
    BY <2>1, <2>2
<1>11. PICK e : e = [c EXCEPT !.error = TRUE, !.lastError = ErrorOf(r)]
  OBVIOUS
<1>12. /\ e \in AuthType /\ e.models = c.models /\ e.quota = c.quota
       /\ Known(e) = Known(a) \cup {m}
  <2>1. ErrorOf(r) \in ErrorType
    BY FailureFields
  <2>2. e \in AuthType /\ e.models = c.models /\ e.quota = c.quota
    BY <1>10, <1>11, <2>1 DEF AuthType
  <2> QED
    BY <1>8, <1>10, <2>2 DEF Known
<1>13. b = Aggregate(e, t)
  <2>1. Opens(r) <=> r.kind = "quota" /\ r.scope /\ CoolingOn(r)
    BY DEF Opens
  <2> QED
    BY <1>1, <1>2, <1>4, <1>7, <1>9, <1>11, <2>1 DEF FailModel, FailedState
<1>14. /\ b \in AuthType /\ Known(b) = Known(e)
       /\ CredentialQuotaLive(e, t) => b.quota = e.quota
  BY <1>12, <1>13, AggregateFacts
<1>15. ASSUME NEW k \in Known(e)
       PROVE  /\ b.models[k].seq = e.models[k].seq
              /\ b.models[k].quota = e.models[k].quota
              /\ b.models[k].unavailable => b.models[k] = e.models[k]
              /\ Cooling(e.models[k], t) => b.models[k] = e.models[k]
  BY <1>12, <1>13, AggregateModel
<1>16. Opens(r) =>
         /\ b.quota.recoverAt > t /\ HasCredentialQuota(b)
         /\ HasCredentialQuota(a) => b.quota.recoverAt >= a.quota.recoverAt
         /\ CredentialQuotaLive(a, t) => b.quota.level = a.quota.level
         /\ \A k \in Known(b) : b.models[k].seq = seq
  <2> SUFFICES ASSUME Opens(r)
               PROVE  /\ b.quota.recoverAt > t /\ HasCredentialQuota(b)
                      /\ HasCredentialQuota(a) => b.quota.recoverAt >= a.quota.recoverAt
                      /\ CredentialQuotaLive(a, t) => b.quota.level = a.quota.level
                      /\ \A k \in Known(b) : b.models[k].seq = seq
    OBVIOUS
  <2>1. r.scope /\ w.until > t
    BY <1>6 DEF Opens
  <2>2. c.quota.recoverAt \in Nat
    BY <1>10, AuthFields
  <2>3. HasCredentialQuota(e) /\ e.quota.recoverAt > t
    BY <1>6, <1>10, <1>12, <2>1, <2>2 DEF HasCredentialQuota
  <2>4. b.quota = c.quota
    BY <1>12, <1>14, <2>3 DEF CredentialQuotaLive
  <2>5. CredentialQuotaLive(a, t) => w.level = a.quota.level
    BY <1>5, <1>6, <2>1 DEF CredentialQuotaLive
  <2>6. ASSUME NEW k \in Known(b) PROVE b.models[k].seq = seq
    <3>1. k = m \/ k \in Known(a)
      BY <1>12, <1>14
    <3>2. CASE k = m
      BY <1>3, <1>10, <1>12, <1>14, <1>15, <3>2
    <3>3. CASE k # m
      <4>1. k \in Known(a) /\ a.models[k] \in StateType
        BY <3>1, <3>3, AuthFields
      <4>2. Propagate(a.models[k], w, seq).seq = seq
        BY <1>6, <4>1, PropagateFacts
      <4> QED
        BY <1>10, <1>12, <1>14, <1>15, <3>3, <4>1, <4>2
    <3> QED
      BY <3>2, <3>3
  <2> QED
    BY <1>10, <1>12, <2>3, <2>4, <2>5, <2>6 DEF HasCredentialQuota
<1>17. ~Opens(r) /\ CredentialQuotaLive(a, t) => b.quota = a.quota
  BY <1>8, <1>10, <1>12, <1>14 DEF CredentialQuotaLive, HasCredentialQuota
<1>18. ASSUME NEW k \in Known(a), Cooling(a.models[k], t), k # m
       PROVE  Cooling(b.models[k], t) /\ b.models[k].retryAt >= a.models[k].retryAt
  <2>1. a.models[k] \in StateType /\ a.models[k].retryAt \in Nat
    BY AuthFields, StateFields
  <2>2. CASE Opens(r)
    <3>1. PICK p : p = Propagate(a.models[k], w, seq)
      OBVIOUS
    <3>2. p \in StateType /\ p.unavailable /\ p.retryAt >= a.models[k].retryAt
      <4>1. w.until \in Nat /\ w.level \in Nat /\ a.models[k] \in StateType
        BY <1>6, <2>1
      <4> QED
        BY <3>1, <4>1, PropagateFacts
    <3>3. Cooling(p, t)
      BY <1>18, <2>1, <3>2, StateFields DEF Cooling
    <3>4. b.models[k] = p
      BY <1>10, <1>12, <1>15, <1>18, <2>2, <3>1, <3>3
    <3> QED
      BY <3>2, <3>3, <3>4
  <2>3. CASE ~Opens(r)
    <3>1. b.models[k] = a.models[k]
      BY <1>8, <1>10, <1>12, <1>15, <1>18, <2>3
    <3> QED
      BY <1>18, <2>1, <3>1
  <2> QED
    BY <2>2, <2>3
<1>19. ~Opens(r) => \A k \in Known(a) : k # m =>
         /\ b.models[k].seq = a.models[k].seq
         /\ b.models[k].unavailable => a.models[k].unavailable
  BY <1>8, <1>10, <1>12, <1>15
<1>20. b.models[m].seq = seq /\ b.models[m].quota = f.quota
  BY <1>3, <1>10, <1>12, <1>15
<1>21. f.retryAt > t => b.models[m] = f
  <2>1. f.retryAt > t => Cooling(f, t)
    BY <1>3 DEF Cooling
  <2> QED
    BY <1>10, <1>12, <1>15, <2>1
<1>22. r.forced => Cooling(b.models[m], t)
  BY <1>3, <1>21 DEF Cooling
<1>23. ASSUME CoolingOn(r), SetsDeadline(r), m \in Known(a), Cooling(a.models[m], t)
       PROVE  b.models[m].retryAt >= a.models[m].retryAt
  <2>1. s = a.models[m] /\ s.retryAt > t /\ s.retryAt \in Nat /\ f.retryAt \in Nat
    BY <1>1, <1>3, <1>23, StateFields DEF StateOf, Cooling
  <2> QED
    BY <1>3, <1>21, <1>23, <2>1
<1>24. r.kind = "quota" =>
         b.models[m].quota.level = WindowAfter(CountedQuota(a, StateOf(a, m), r), r, t).level
  BY <1>1, <1>3, <1>20
<1> QED
  BY <1>12, <1>14, <1>16, <1>17, <1>18, <1>19, <1>20, <1>22, <1>23, <1>24


LEMMA FailModelType ==
  ASSUME NEW a \in AuthType, NEW m \in Models, NEW r \in Failures, NEW t \in Nat,
         NEW seq \in Nat
  PROVE  FailModel(a, m, r, t, seq) \in AuthType
  BY FailModelFacts

\* A failure of an execution without a model.
LEMMA FailAuthFacts ==
  ASSUME NEW a \in AuthType, NEW r \in Failures, NEW t \in Nat, NEW seq \in Nat,
         NEW b, b = FailAuth(a, r, t, seq)
  PROVE  /\ b \in AuthType /\ b.models = a.models
         /\ r.kind # "quota" => b.quota = a.quota
         /\ CoolingOn(r) /\ (r.kind = "transient" => SetsDeadline(r)) /\ Cooling(a, t) =>
              b.retryAt >= a.retryAt
<1>1. a.retryAt \in Nat /\ a.quota \in QuotaType /\ a.quota.recoverAt \in Nat
  BY AuthFields
<1>2. PICK w : w = WindowAfter(a.quota, r, t)
  OBVIOUS
<1>3. w.until \in Nat /\ w.level \in Nat /\ (CoolingOn(r) => w.until > t)
  BY <1>1, <1>2, WindowFacts
<1>4. PICK until \in Nat :
        /\ until = IF CoolingOn(r) THEN Later(a.quota.recoverAt, w.until) ELSE 0
        /\ CoolingOn(r) => until > t
  <2>1. PICK l \in Nat : l = Later(a.quota.recoverAt, w.until) /\ l >= w.until
    BY <1>1, <1>3, LaterFacts
  <2> QED
    BY <1>3, <2>1
<1>5. PICK next \in Nat :
        /\ next = CASE r.kind = "quota" -> until
                    [] r.kind = "other" -> a.retryAt
                    [] OTHER -> DeadlineOf(r, t)
        /\ CoolingOn(r) /\ (r.kind = "transient" => SetsDeadline(r)) /\ a.retryAt > t =>
             next # 0
  <2>1. CASE r.kind = "quota"
    BY <1>4, <2>1
  <2>2. CASE r.kind = "other"
    BY <1>1, <2>2
  <2>3. CASE r.kind \notin {"quota", "other"}
    <3>1. r.kind \in FailureKinds
      BY FailureFields
    <3>2. PICK d \in Nat :
            /\ d = DeadlineOf(r, t)
            /\ CoolingOn(r) /\ (r.kind = "transient" => SetsDeadline(r)) => d # 0
      BY <2>3, <3>1, DeadlineFacts DEF SetsDeadline, FailureKinds
    <3> QED
      BY <2>3, <3>2
  <2> QED
    BY <2>1, <2>2, <2>3
<1>6. PICK n \in Nat :
        /\ n = Extend(a.retryAt, next, t)
        /\ next # 0 /\ a.retryAt > t => n >= a.retryAt
        /\ next # 0 => n # 0
  <2>1. Extend(a.retryAt, next, t) =
          IF next # 0 /\ a.retryAt > next /\ a.retryAt > t THEN a.retryAt ELSE next
    BY DEF Extend
  <2> QED
    BY <1>1, <2>1
<1>7. PICK retryAt \in Nat :
        /\ retryAt = Enforced(r, n, t)
        /\ n # 0 => retryAt = n
  <2>1. Enforced(r, n, t) = IF r.forced /\ n = 0 THEN t + ForcedCooldown ELSE n
    BY DEF Enforced
  <2> QED
    BY <2>1, Constants
<1>8. PICK level \in Nat : level = w.level
  BY <1>3
<1>9. PICK q : q = [exceeded |-> TRUE, reason |-> "quota", recoverAt |-> until,
                    level |-> level]
  OBVIOUS
<1>10. q \in QuotaType
  BY <1>9 DEF QuotaType
<1>11. PICK p \in QuotaType : p = IF r.kind = "quota" THEN q ELSE a.quota
  BY <1>1, <1>10
<1>12. PICK u \in BOOLEAN : u = ~(r.kind = "transient" /\ next = 0)
  OBVIOUS
<1>13. PICK e \in ErrorType : e = ErrorOf(r)
  BY FailureFields
<1>14. PICK c : c = [a EXCEPT !.unavailable = u, !.error = TRUE, !.lastError = e,
                              !.retryAt = retryAt, !.quota = p, !.seq = seq]
  OBVIOUS
<1>15. c \in AuthType /\ c.models = a.models /\ c.quota = p /\ c.retryAt = retryAt
  BY <1>14 DEF AuthType
<1>16. b = c
  <2>1. b = [a EXCEPT !.unavailable = ~(r.kind = "transient" /\ next = 0),
                      !.error = TRUE, !.lastError = ErrorOf(r),
                      !.retryAt = Enforced(r, Extend(a.retryAt, next, t), t),
                      !.quota = IF r.kind = "quota" THEN q ELSE a.quota,
                      !.seq = seq]
    BY <1>2, <1>4, <1>5, <1>8, <1>9 DEF FailAuth
  <2> QED
    BY <1>6, <1>7, <1>11, <1>12, <1>13, <1>14, <2>1
<1>17. CoolingOn(r) /\ (r.kind = "transient" => SetsDeadline(r)) /\ Cooling(a, t) =>
         retryAt >= a.retryAt
  BY <1>1, <1>5, <1>6, <1>7 DEF Cooling
<1> QED
  BY <1>11, <1>15, <1>16, <1>17

-----------------------------------------------------------------------------
(* Successes, the administrator's reset and reconciliation.                *)

LEMMA SucceedFacts ==
  ASSUME NEW a \in AuthType, NEW m \in Models \cup {NoModel}, NEW dispatched \in Nat,
         NEW t \in Nat, NEW b, b = Succeed(a, m, dispatched, t)
  PROVE  /\ b \in AuthType /\ Known(a) \subseteq Known(b)
         /\ CredentialQuotaLive(a, t) => b = a
         /\ \A k \in Known(b) : b.models[k].unavailable =>
              /\ k \in Known(a) /\ a.models[k].unavailable
              /\ b.models[k].seq = a.models[k].seq
         /\ \A k \in Known(a) :
              Cooling(a.models[k], t) /\ (k = m => Predates(a.models[k], dispatched, t)) =>
                Cooling(b.models[k], t)
<1>1. CASE b = a
  BY <1>1
<1>2. CASE ~CredentialQuotaLive(a, t) /\ m = NoModel /\ b = [CleanAuth EXCEPT !.models = a.models]
  <2>1. PICK c : c = [CleanAuth EXCEPT !.models = a.models]
    OBVIOUS
  <2>2. c \in AuthType /\ c.models = a.models
    BY <2>1, CleanTypes, AuthFields DEF AuthType
  <2> QED
    BY <1>2, <2>1, <2>2 DEF Known
<1>3. CASE /\ ~CredentialQuotaLive(a, t) /\ m # NoModel
           /\ ~(m \in Known(a) /\ Predates(a.models[m], dispatched, t))
  <2>1. PICK c : c = WithState(a, m, CleanState)
    OBVIOUS
  <2>2. m \in Models
    BY <1>3
  <2>3. /\ c \in AuthType /\ Known(c) = Known(a) \cup {m} /\ c.models[m] = CleanState
        /\ \A k \in Known(a) : k # m => c.models[k] = a.models[k]
    BY <2>1, <2>2, CleanTypes, WithStateFacts
  <2>4. PICK d : d = Aggregate(c, t)
    OBVIOUS
  <2>5. d \in AuthType /\ Known(d) = Known(c)
    BY <2>3, <2>4, AggregateFacts
  <2>6. \A k \in Known(c) :
          /\ d.models[k].seq = c.models[k].seq
          /\ d.models[k].unavailable => d.models[k] = c.models[k]
          /\ Cooling(c.models[k], t) => d.models[k] = c.models[k]
    BY <2>3, <2>4, AggregateModel
  <2>7. b = ClearStatusUnlessError(d, t)
    BY <1>3, <2>1, <2>4 DEF Succeed
  <2>8. b \in AuthType /\ b.models = d.models
    BY <2>5, <2>7, ClearedFacts
  <2>9. Known(b) = Known(a) \cup {m} /\ \A k \in Known(b) : b.models[k] = d.models[k]
    BY <2>3, <2>5, <2>8 DEF Known
  <2>10. ~CleanState.unavailable
    BY DEF CleanState
  <2>11. ASSUME NEW k \in Known(b), b.models[k].unavailable
         PROVE  /\ k \in Known(a) /\ a.models[k].unavailable
                /\ b.models[k].seq = a.models[k].seq
    <3>1. k # m
      BY <2>3, <2>6, <2>9, <2>10, <2>11
    <3> QED
      BY <2>3, <2>6, <2>9, <2>11, <3>1
  <2>12. ASSUME NEW k \in Known(a), Cooling(a.models[k], t),
                k = m => Predates(a.models[k], dispatched, t)
         PROVE  Cooling(b.models[k], t)
    BY <1>3, <2>3, <2>6, <2>9, <2>12
  <2> QED
    BY <1>3, <2>8, <2>9, <2>11, <2>12
<1>4. \/ b = a
      \/ ~CredentialQuotaLive(a, t) /\ m = NoModel /\ b = [CleanAuth EXCEPT !.models = a.models]
      \/ /\ ~CredentialQuotaLive(a, t) /\ m # NoModel
         /\ ~(m \in Known(a) /\ Predates(a.models[m], dispatched, t))
  BY DEF Succeed
<1> QED
  BY <1>1, <1>2, <1>3, <1>4

\* What a function that only clears models leaves of a credential.
LEMMA ClearsFacts ==
  ASSUME NEW a \in AuthType, NEW t \in Nat,
         NEW b, b = ClearStatusUnlessError(Aggregate(a, t), t)
  PROVE  /\ b \in AuthType /\ Known(b) = Known(a)
         /\ CredentialQuotaLive(a, t) => b.quota = a.quota
         /\ (\A k \in Known(a) : a.models[k] = CleanState) =>
              \A k \in Known(b) : ~b.models[k].unavailable
<1>1. PICK d : d = Aggregate(a, t)
  OBVIOUS
<1>2. d \in AuthType /\ Known(d) = Known(a) /\ (CredentialQuotaLive(a, t) => d.quota = a.quota)
  BY <1>1, AggregateFacts
<1>3. \A k \in Known(a) : d.models[k].unavailable => d.models[k] = a.models[k]
  BY <1>1, AggregateModel
<1>4. b \in AuthType /\ b.models = d.models /\ b.quota = d.quota
  BY <1>1, <1>2, ClearedFacts
<1>5. ~CleanState.unavailable
  BY DEF CleanState
<1> QED
  BY <1>2, <1>3, <1>4, <1>5 DEF Known

LEMMA ClearedModels ==
  ASSUME NEW a \in AuthType, NEW S \in SUBSET Models, NEW b,
         b = [a EXCEPT !.models = [m \in S |-> CleanState]]
  PROVE  /\ b \in AuthType /\ Known(b) = S /\ b.quota = a.quota
         /\ \A k \in S : b.models[k] = CleanState
<1> DEFINE f == [m \in S |-> CleanState]
<1>1. f \in [S -> StateType]
  BY CleanTypes
<1>2. f \in StatesFor(Models)
  <2> HIDE DEF f
  <2> QED
    BY <1>1, StatesIntro
<1>3. DOMAIN f = S /\ \A k \in S : f[k] = CleanState
  OBVIOUS
<1> HIDE DEF f
<1>4. b \in AuthType /\ b.models = f /\ b.quota = a.quota
  BY <1>2 DEF AuthType, f
<1> QED
  BY <1>3, <1>4 DEF Known

LEMMA ResetFacts ==
  ASSUME NEW a \in AuthType, NEW t \in Nat, NEW b, b = ResetQuota(a, t)
  PROVE  b \in AuthType /\ \A k \in Known(b) : ~b.models[k].unavailable
<1>1. PICK c : c = ResetAll(a)
  OBVIOUS
<1>2. c = [a EXCEPT !.models = [m \in Known(a) |-> CleanState]]
  BY <1>1 DEF ResetAll
<1>3. Known(a) \in SUBSET Models
  BY AuthFields
<1>4. /\ c \in AuthType /\ Known(c) = Known(a)
      /\ \A k \in Known(a) : c.models[k] = CleanState
  BY <1>2, <1>3, ClearedModels
<1>5. PICK d : d = [c EXCEPT !.quota = NoQuota]
  OBVIOUS
<1>6. d \in AuthType /\ d.models = c.models
  BY <1>4, <1>5, CleanTypes DEF AuthType
<1>7. b = ClearStatusUnlessError(Aggregate(d, t), t)
  BY <1>1, <1>5 DEF ResetQuota
<1>8. \A k \in Known(d) : d.models[k] = CleanState
  BY <1>4, <1>6 DEF Known
<1> QED
  BY <1>6, <1>7, <1>8, ClearsFacts

LEMMA ReconcileFacts ==
  ASSUME NEW a \in AuthType, NEW t \in Nat, NEW supported, NEW b,
         b = Reconcile(a, supported, t)
  PROVE  /\ b \in AuthType
         /\ CredentialQuotaLive(a, t) => b.quota = a.quota
         /\ b = a \/ \A k \in Known(b) : ~b.models[k].unavailable
<1>1. CASE b = a
  BY <1>1
<1>2. CASE b # a
  <2>1. PICK c : c = [a EXCEPT !.models = [m \in Known(a) \cap supported |-> CleanState]]
    OBVIOUS
  <2>2. Known(a) \cap supported \in SUBSET Models
    BY AuthFields
  <2>3. /\ c \in AuthType /\ Known(c) = Known(a) \cap supported /\ c.quota = a.quota
        /\ \A k \in Known(c) : c.models[k] = CleanState
    BY <2>1, <2>2, ClearedModels
  <2>4. b = ClearStatusUnlessError(Aggregate(c, t), t)
    BY <1>2, <2>1 DEF Reconcile
  <2>5. CredentialQuotaLive(a, t) => CredentialQuotaLive(c, t)
    BY <2>3 DEF CredentialQuotaLive, HasCredentialQuota
  <2> QED
    BY <2>3, <2>4, <2>5, ClearsFacts
<1> QED
  BY <1>1, <1>2

-----------------------------------------------------------------------------
(* Records and restarts.                                                   *)

Saved == StatesFor(Models \cup {NoModel})
Enforcing(records) == \A m \in DOMAIN records : records[m].unavailable

LEMMA RecordsFacts ==
  ASSUME NEW a \in AuthType, NEW t \in Nat, NEW records, records = Records(a, t)
  PROVE  records \in Saved /\ Enforcing(records)
<1>1. PICK whole : whole = [CleanState EXCEPT !.unavailable = TRUE, !.error = a.error,
                              !.lastError = a.lastError, !.retryAt = a.retryAt,
                              !.quota = a.quota]
  OBVIOUS
<1>2. whole \in StateType /\ whole.unavailable
  <2>1. /\ a.error \in BOOLEAN /\ a.lastError \in ErrorType /\ a.retryAt \in Nat
        /\ a.quota \in QuotaType
    BY AuthFields
  <2> QED
    BY <1>1, <2>1, CleanTypes DEF StateType
<1>3. PICK D : D = {m \in Known(a) : Cooling(a.models[m], t)}
                     \cup (IF Cooling(a, t) THEN {NoModel} ELSE {})
  OBVIOUS
<1>4. /\ D \in SUBSET (Models \cup {NoModel})
      /\ \A m \in D : m # NoModel => m \in Known(a) /\ Cooling(a.models[m], t)
  BY <1>3, AuthFields
<1>5. records = [m \in D |-> IF m = NoModel THEN whole
                             ELSE [a.models[m] EXCEPT !.seq = 0]]
  BY <1>1, <1>3 DEF Records
<1>6. ASSUME NEW m \in D
      PROVE  records[m] \in StateType /\ records[m].unavailable
  <2>1. CASE m = NoModel
    BY <1>2, <1>5, <2>1
  <2>2. CASE m # NoModel
    <3>1. PICK s : s = a.models[m]
      OBVIOUS
    <3>2. s \in StateType /\ s.unavailable
      BY <1>4, <2>2, <3>1, AuthFields DEF Cooling
    <3>3. records[m] = [s EXCEPT !.seq = 0]
      BY <1>5, <2>2, <3>1
    <3> QED
      BY <3>2, <3>3 DEF StateType
  <2> QED
    BY <2>1, <2>2
<1>7. DOMAIN records = D /\ records \in [D -> StateType]
  BY <1>5, <1>6
<1>8. records \in Saved
  BY <1>4, <1>7, StatesIntro DEF Saved
<1> QED
  BY <1>6, <1>7, <1>8 DEF Enforcing

LEMMA RecordsForFacts ==
  ASSUME NEW records \in Saved, Enforcing(records), NEW supported,
         NEW kept, kept = RecordsFor(records, supported)
  PROVE  kept \in Saved /\ Enforcing(kept)
<1>1. /\ DOMAIN records \subseteq Models \cup {NoModel}
      /\ records \in [DOMAIN records -> StateType]
  BY StatesElim DEF Saved
<1>2. PICK D : D = {k \in DOMAIN records :
                      k = NoModel \/ supported = {} \/ k \in supported}
  OBVIOUS
<1>3. kept = [m \in D |-> records[m]]
  BY <1>2 DEF RecordsFor
<1>4. D \in SUBSET (Models \cup {NoModel}) /\ kept \in [D -> StateType]
  BY <1>1, <1>2, <1>3
<1>5. kept \in Saved
  BY <1>4, StatesIntro DEF Saved
<1> QED
  BY <1>2, <1>3, <1>5 DEF Enforcing

\* A record applied after others that cool off their models cools off its own,
\* and leaves the credential as a whole cooling off.
LEMMA ApplyFacts ==
  ASSUME NEW a \in AuthType, NEW m \in Models \cup {NoModel}, NEW rec \in StateType,
         NEW t \in Nat, NEW b, b = Apply(a, m, rec, t), rec.unavailable, rec.retryAt > t,
         \A k \in Known(a) : Cooling(a.models[k], t)
  PROVE  /\ b \in AuthType /\ Known(b) = Known(a) \cup ({m} \ {NoModel})
         /\ \A k \in Known(b) : Cooling(b.models[k], t)
         /\ Cooling(b, t) \/ CredentialQuotaLive(b, t)
<1>0. NoModel \notin Models
  BY Constants
<1>1. CASE m = NoModel
  <2>1. b = [a EXCEPT !.unavailable = TRUE, !.error = rec.error,
                      !.lastError = rec.lastError, !.retryAt = rec.retryAt,
                      !.quota = rec.quota]
    BY <1>1 DEF Apply
  <2>2. /\ rec.error \in BOOLEAN /\ rec.lastError \in ErrorType /\ rec.retryAt \in Nat
        /\ rec.quota \in QuotaType
    BY StateFields
  <2>3. /\ b \in AuthType /\ b.models = a.models
        /\ b.unavailable /\ b.retryAt = rec.retryAt
    BY <2>1, <2>2 DEF AuthType
  <2> QED
    BY <1>1, <2>3 DEF Known, Cooling
<1>2. CASE m # NoModel
  <2>1. m \in Models
    BY <1>2
  <2>2. PICK s : s = [rec EXCEPT !.seq = StateOf(a, m).seq]
    OBVIOUS
  <2>3. StateOf(a, m).seq \in Nat
    BY StateOfType, StateFields
  <2>4. s \in StateType /\ s.unavailable /\ s.retryAt = rec.retryAt
    BY <2>2, <2>3 DEF StateType
  <2>5. PICK c : c = WithState(a, m, s)
    OBVIOUS
  <2>6. /\ c \in AuthType /\ Known(c) = Known(a) \cup {m} /\ c.models[m] = s
        /\ \A k \in Known(a) : k # m => c.models[k] = a.models[k]
    BY <2>1, <2>4, <2>5, WithStateFacts
  <2>7. PICK e : e = IF rec.lastError = "none" THEN c.lastError ELSE rec.lastError
    OBVIOUS
  <2>8. PICK d : d = [c EXCEPT !.error = TRUE, !.lastError = e]
    OBVIOUS
  <2>9. e \in ErrorType
    BY <2>6, <2>7, AuthFields, StateFields
  <2>10. d \in AuthType /\ d.models = c.models
    BY <2>6, <2>8, <2>9 DEF AuthType
  <2>11. d = [c EXCEPT !.error = TRUE,
                       !.lastError = IF rec.lastError = "none" THEN @
                                     ELSE rec.lastError]
    BY <2>7, <2>8
  <2>12. b = Aggregate(d, t)
    BY <1>2, <2>2, <2>5, <2>11 DEF Apply
  <2>13. /\ Known(d) = Known(a) \cup {m}
         /\ \A k \in Known(d) : Cooling(d.models[k], t)
    BY <2>4, <2>6, <2>10 DEF Known, Cooling
  <2>14. b \in AuthType /\ Known(b) = Known(d)
    BY <2>10, <2>12, AggregateFacts
  <2>15. ASSUME NEW k \in Known(b)
         PROVE  Cooling(b.models[k], t)
    <3>1. k \in Known(d) /\ Cooling(d.models[k], t)
      BY <2>13, <2>14
    <3>2. b.models[k] = d.models[k]
      BY <2>10, <2>12, <3>1, AggregateModel
    <3> QED
      BY <3>1, <3>2
  <2>16. Cooling(b, t) \/ CredentialQuotaLive(b, t)
    <3>1. CASE CredentialQuotaLive(d, t)
      <4>1. b.quota = d.quota
        BY <2>10, <2>12, <3>1, AggregateFacts
      <4> QED
        BY <3>1, <4>1 DEF CredentialQuotaLive, HasCredentialQuota
    <3>2. CASE ~CredentialQuotaLive(d, t)
      BY <2>10, <2>12, <2>13, <3>2, AggregateFacts
    <3> QED
      BY <3>1, <3>2
  <2> QED
    BY <1>2, <2>13, <2>14, <2>15, <2>16
<1> QED
  BY <1>1, <1>2

\* f is the recursive function by which Restore applies the records of S.
Applies(f, a, records, t, S) ==
  f = [T \in SUBSET S |->
         IF T = {} THEN a
         ELSE Apply(f[T \ {Max(T)}], Max(T), records[Max(T)], t)]

\* It exists: for a least set without one, the function for the set without its
\* last record can be extended by one step.
LEMMA AppliesExists ==
  ASSUME NEW a, NEW records, NEW t, NEW S, IsFiniteSet(S), \A x \in S : x \in Nat
  PROVE  \E f : Applies(f, a, records, t, S)
<1> DEFINE Bad == {T \in SUBSET S : ~\E f : Applies(f, a, records, t, T)}
<1> SUFFICES ASSUME Bad # {} PROVE FALSE
  OBVIOUS
<1>1. PICK T \in Bad : \A U \in Bad : U \subseteq T => U = T
  <2>1. Bad \in SUBSET SUBSET S
    OBVIOUS
  <2> HIDE DEF Bad
  <2> QED
    BY <2>1, MinSubset
<1>2. T \subseteq S /\ (\A f : ~Applies(f, a, records, t, T))
  BY <1>1
<1>3. ASSUME NEW U \in SUBSET T, U # T
      PROVE  \E f : Applies(f, a, records, t, U)
  BY <1>1, <1>3
<1> HIDE DEF Bad
<1>4. T # {}
  <2> SUFFICES ASSUME T = {} PROVE FALSE
    OBVIOUS
  <2> DEFINE f == [U \in SUBSET T |-> a]
  <2>1. Applies(f, a, records, t, T)
    BY DEF Applies
  <2> HIDE DEF f
  <2> QED
    BY <1>2, <2>1
<1>5. IsFiniteSet(T) /\ T \subseteq Nat
  BY <1>2, FS_Subset
<1>6. PICK m : m = Max(T)
  OBVIOUS
<1>7. m \in T /\ \A k \in T : m >= k
  BY <1>4, <1>5, <1>6, MaxIsGreatest
<1>8. PICK U : U = T \ {m}
  OBVIOUS
<1>9. PICK f : Applies(f, a, records, t, U)
  BY <1>3, <1>7, <1>8
<1> DEFINE h == [W \in SUBSET T |-> IF m \notin W THEN f[W]
                                    ELSE Apply(f[W \ {m}], m, records[m], t)]
           g == [W \in SUBSET T |->
                   IF W = {} THEN a
                   ELSE Apply(h[W \ {Max(W)}], Max(W), records[Max(W)], t)]
<1>10. \A W \in SUBSET U : f[W] = IF W = {} THEN a
                                  ELSE Apply(f[W \ {Max(W)}], Max(W), records[Max(W)], t)
  BY <1>9 DEF Applies
<1>11. ASSUME NEW W \in SUBSET T
       PROVE  h[W] = g[W]
  <2>1. CASE m \notin W
    <3>1. W \in SUBSET U /\ h[W] = f[W]
      BY <1>8, <2>1
    <3>2. CASE W = {}
      BY <1>10, <3>1, <3>2
    <3>3. CASE W # {}
      <4>1. W \ {Max(W)} \in SUBSET T /\ m \notin W \ {Max(W)}
        BY <2>1
      <4>2. h[W \ {Max(W)}] = f[W \ {Max(W)}]
        BY <4>1
      <4>3. g[W] = Apply(h[W \ {Max(W)}], Max(W), records[Max(W)], t)
        BY <3>3
      <4>4. f[W] = Apply(f[W \ {Max(W)}], Max(W), records[Max(W)], t)
        BY <1>10, <3>1, <3>3
      <4> HIDE DEF h, g
      <4> QED
        BY <3>1, <4>2, <4>3, <4>4
    <3> QED
      BY <3>2, <3>3
  <2>2. CASE m \in W
    <3>1. Max(W) = m
      <4>1. W # {} /\ IsFiniteSet(W) /\ W \subseteq Nat
        BY <1>5, <2>2, FS_Subset
      <4>2. Max(W) \in W /\ \A k \in W : Max(W) >= k
        BY <4>1, MaxIsGreatest
      <4>3. PICK n : n = Max(W)
        OBVIOUS
      <4>4. n \in T /\ n >= m
        BY <2>2, <4>2, <4>3
      <4>5. n \in Nat /\ m \in Nat /\ m >= n
        BY <1>5, <1>7, <4>4
      <4>6. n = m
        BY <4>4, <4>5
      <4> QED
        BY <4>3, <4>6
    <3>2. h[W] = Apply(f[W \ {m}], m, records[m], t)
      BY <2>2
    <3>3. h[W \ {m}] = f[W \ {m}]
      OBVIOUS
    <3>4. g[W] = Apply(h[W \ {Max(W)}], Max(W), records[Max(W)], t)
      BY <2>2
    <3> HIDE DEF h, g
    <3> QED
      BY <3>1, <3>2, <3>3, <3>4
  <2> QED
    BY <2>1, <2>2
<1>12. h = g
  <2>1. DOMAIN h = SUBSET T /\ h = [W \in SUBSET T |-> h[W]]
    OBVIOUS
  <2>2. g = [W \in SUBSET T |-> g[W]]
    OBVIOUS
  <2> HIDE DEF h, g
  <2> QED
    BY <1>11, <2>1, <2>2
<1>13. Applies(h, a, records, t, T)
  <2>1. h = [W \in SUBSET T |->
               IF W = {} THEN a
               ELSE Apply(h[W \ {Max(W)}], Max(W), records[Max(W)], t)]
    <3> HIDE DEF h
    <3> QED
      BY <1>12
  <2> HIDE DEF h, g
  <2> QED
    BY <2>1 DEF Applies
<1> HIDE DEF h, g
<1> QED
  BY <1>2, <1>13

\* The models whose record has not expired.
Unexpired(records, t) == {m \in DOMAIN records : records[m].retryAt > t}

\* Restore is what such a function makes of their records.
LEMMA RestoreApplies ==
  ASSUME NEW a, NEW records \in Saved, NEW t \in Nat, NEW live, live = Unexpired(records, t)
  PROVE  \E f : Applies(f, a, records, t, live) /\ Restore(a, records, t) = f[live]
<1>1. live \subseteq Models \cup {NoModel}
  BY StatesElim DEF Saved, Unexpired
<1>2. IsFiniteSet(live) /\ live \subseteq Nat
  <2>1. IsFiniteSet(Models \cup {NoModel}) /\ Models \cup {NoModel} \subseteq Nat
    BY Constants, FS_AddElement DEF NoModel
  <2> QED
    BY <1>1, <2>1, FS_Subset
<1> DEFINE f == CHOOSE f : Applies(f, a, records, t, live)
<1>3. Applies(f, a, records, t, live)
  BY <1>2, AppliesExists
<1>4. Restore(a, records, t) = f[live]
  BY DEF Restore, Applies, Unexpired
<1> HIDE DEF f
<1> QED
  BY <1>3, <1>4

\* A restored credential is cooling off, as are all the models it has a state of,
\* and these are the models with a record that has not expired.
LEMMA RestoreFacts ==
  ASSUME NEW records \in Saved, Enforcing(records), NEW t \in Nat,
         NEW live, live = Unexpired(records, t), NEW b, b = Restore(CleanAuth, records, t)
  PROVE  /\ b \in AuthType /\ Known(b) = live \ {NoModel}
         /\ \A k \in Known(b) : Cooling(b.models[k], t)
         /\ live # {} => Cooling(b, t) \/ CredentialQuotaLive(b, t)
<1>1. /\ DOMAIN records \subseteq Models \cup {NoModel}
      /\ records \in [DOMAIN records -> StateType]
  BY StatesElim DEF Saved
<1>2. \A m \in live : /\ m \in Models \cup {NoModel} /\ records[m] \in StateType
                      /\ records[m].unavailable /\ records[m].retryAt > t
  BY <1>1 DEF Enforcing, Unexpired
<1>3. IsFiniteSet(live) /\ \A m \in live : m \in Nat
  <2>1. IsFiniteSet(Models \cup {NoModel}) /\ Models \cup {NoModel} \subseteq Nat
    BY Constants, FS_AddElement DEF NoModel
  <2> QED
    BY <1>2, <2>1, FS_Subset
<1>4. PICK f : Applies(f, CleanAuth, records, t, live) /\ b = f[live]
  <2>1. PICK a : a = CleanAuth
    OBVIOUS
  <2>2. \E f : Applies(f, a, records, t, live) /\ Restore(a, records, t) = f[live]
    BY RestoreApplies
  <2> QED
    BY <2>1, <2>2
<1>5. \A T \in SUBSET live :
        f[T] = IF T = {} THEN CleanAuth
               ELSE Apply(f[T \ {Max(T)}], Max(T), records[Max(T)], t)
  BY <1>4 DEF Applies
<1> DEFINE Cools(T, c) ==
             /\ c \in AuthType /\ Known(c) = T \ {NoModel}
             /\ \A k \in Known(c) : Cooling(c.models[k], t)
             /\ T # {} => Cooling(c, t) \/ CredentialQuotaLive(c, t)
           Bad == {T \in SUBSET live : ~Cools(T, f[T])}
<1>6. ASSUME Bad # {} PROVE FALSE
  <2>1. PICK T \in Bad : \A U \in Bad : U \subseteq T => U = T
    <3>1. Bad \in SUBSET SUBSET live
      OBVIOUS
    <3> HIDE DEF Bad
    <3> QED
      BY <1>3, <1>6, <3>1, MinSubset
  <2>2. T \subseteq live /\ ~Cools(T, f[T])
    BY <2>1
  <2>3. ASSUME NEW U \in SUBSET T, U # T
        PROVE  Cools(U, f[U])
    <3>1. U \in SUBSET live
      BY <2>2
    <3> HIDE DEF Cools
    <3> QED
      BY <2>1, <2>3, <3>1
  <2>4. CASE T = {}
    <3>1. f[T] = CleanAuth
      BY <1>5, <2>2, <2>4
    <3>2. Known(CleanAuth) = {}
      BY DEF Known, CleanAuth
    <3>3. Cools(T, CleanAuth)
      BY <2>4, <3>2, CleanTypes
    <3> HIDE DEF Cools
    <3> QED
      BY <2>2, <3>1, <3>3
  <2>5. CASE T # {}
    <3>1. PICK m : m = Max(T)
      OBVIOUS
    <3>2. m \in T
      <4>1. IsFiniteSet(T) /\ T \subseteq Nat
        BY <1>3, <2>2, FS_Subset
      <4> QED
        BY <2>5, <3>1, <4>1, MaxIsGreatest
    <3>3. PICK U : U = T \ {m}
      OBVIOUS
    <3>4. PICK c : c = f[U]
      OBVIOUS
    <3>5. f[T] = Apply(c, m, records[m], t)
      BY <1>5, <2>2, <2>5, <3>1, <3>3, <3>4
    <3>6. Cools(U, c)
      BY <2>3, <3>2, <3>3, <3>4
    <3>7. /\ m \in Models \cup {NoModel} /\ records[m] \in StateType
          /\ records[m].unavailable /\ records[m].retryAt > t
      BY <1>2, <2>2, <3>2
    <3>8. PICK d : d = f[T]
      OBVIOUS
    <3>9. /\ d \in AuthType /\ Known(d) = Known(c) \cup ({m} \ {NoModel})
          /\ \A k \in Known(d) : Cooling(d.models[k], t)
          /\ Cooling(d, t) \/ CredentialQuotaLive(d, t)
      BY <3>5, <3>6, <3>7, <3>8, ApplyFacts
    <3>10. Known(d) = T \ {NoModel}
      BY <3>2, <3>3, <3>6, <3>9
    <3>11. Cools(T, d)
      BY <3>9, <3>10
    <3> HIDE DEF Cools
    <3> QED
      BY <2>2, <3>8, <3>11
  <2> QED
    BY <2>4, <2>5
<1>7. Cools(live, f[live])
  <2>1. live \in SUBSET live
    OBVIOUS
  <2> HIDE DEF Cools
  <2> QED
    BY <1>6, <2>1
<1> QED
  BY <1>4, <1>7

-----------------------------------------------------------------------------
(* The inductive invariant.                                                *)

\* Saved records are of states that were unavailable; executions are numbered from 1.
TypeOK ==
  /\ now \in Nat
  /\ auth \in AuthType
  /\ issued \in Nat
  /\ running \subseteq [model : Models \cup {NoModel}, seq : Nat \ {0}]
  /\ store \in Saved /\ Enforcing(store)
  /\ unsaved \in BOOLEAN
  /\ restarts \in Nat
  /\ failedAt \in [Models \cup {NoModel} -> Nat]
  /\ quotaUntil \in Nat

\* A credential-wide window that has been announced is recorded in the credential
\* until it ends.
QuotaRecorded ==
  now < quotaUntil => HasCredentialQuota(auth) /\ auth.quota.recoverAt >= quotaUntil

\* The watermark of an unavailable model is no older than its last failure.
Watermarked ==
  \A k \in Known(auth) : auth.models[k].unavailable => auth.models[k].seq >= failedAt[k]

IInv == TypeOK /\ QuotaRecorded /\ Watermarked

LEMMA InitIInv == Init => IInv
<1> SUFFICES ASSUME Init PROVE IInv
  OBVIOUS
<1>1. auth = CleanAuth /\ Known(CleanAuth) = {}
  BY DEF Init, Known, CleanAuth
<1>2. store \in Saved /\ Enforcing(store)
  <2>1. store = [m \in {} |-> CleanState]
    BY DEF Init
  <2>2. {} \in SUBSET (Models \cup {NoModel}) /\ store \in [{} -> StateType]
    BY <2>1
  <2>3. store \in Saved
    BY <2>2, StatesIntro DEF Saved
  <2>4. DOMAIN store = {}
    BY <2>1
  <2> QED
    BY <2>3, <2>4 DEF Enforcing
<1>3. TypeOK
  <2>1. auth \in AuthType
    BY <1>1, CleanTypes
  <2> QED
    BY <1>2, <2>1 DEF Init, TypeOK, NeverFailed
<1> QED
  BY <1>1, <1>3 DEF Init, IInv, QuotaRecorded, Watermarked

\* An execution that is running and what it was dispatched for.
LEMMA RunningFacts ==
  ASSUME TypeOK, NEW e \in running
  PROVE  /\ e.model \in Models \cup {NoModel} /\ e.seq \in Nat /\ e.seq > 0
         /\ running \ {e} \subseteq [model : Models \cup {NoModel}, seq : Nat \ {0}]
  BY DEF TypeOK

\* The steps that leave the credential alone.
LEMMA OtherSteps ==
  ASSUME IInv,
         \/ Tick \/ \E m \in Targets : Dispatch(m)
         \/ \E e \in running : Neutral(e)
         \/ SaveRecords \/ UNCHANGED vars
  PROVE  IInv'
<1>1. auth' = auth /\ failedAt' = failedAt /\ quotaUntil' = quotaUntil
  BY DEF Tick, Dispatch, Neutral, SaveRecords, vars
<1>2. now \in Nat /\ now' \in Nat /\ (now' < quotaUntil => now < quotaUntil)
  BY DEF IInv, TypeOK, Tick, Dispatch, Neutral, SaveRecords, vars
<1>3. QuotaRecorded' /\ Watermarked'
  BY <1>1, <1>2 DEF IInv, QuotaRecorded, Watermarked
<1>4. /\ issued' \in Nat /\ unsaved' \in BOOLEAN /\ restarts' \in Nat
      /\ running' \subseteq [model : Models \cup {NoModel}, seq : Nat \ {0}]
  <2>1. CASE \E m \in Targets : Dispatch(m)
    BY <2>1, AuthCooldownAssumption DEF IInv, TypeOK, Dispatch
  <2>2. CASE Tick \/ (\E e \in running : Neutral(e)) \/ SaveRecords \/ UNCHANGED vars
    BY <2>2 DEF IInv, TypeOK, Tick, Neutral, SaveRecords, vars
  <2> QED
    BY <2>1, <2>2
<1>5. store' \in Saved /\ Enforcing(store')
  <2>1. CASE SaveRecords
    BY <2>1, RecordsFacts DEF IInv, TypeOK, SaveRecords
  <2>2. CASE store' = store
    BY <2>2 DEF IInv, TypeOK
  <2> QED
    BY <2>1, <2>2 DEF Tick, Dispatch, Neutral, vars
<1>6. TypeOK'
  BY <1>1, <1>2, <1>4, <1>5 DEF IInv, TypeOK
<1> QED
  BY <1>3, <1>6 DEF IInv

LEMMA SuccessSteps ==
  ASSUME IInv, NEW e \in running, ReportSuccess(e)
  PROVE  IInv'
<1> PICK a, b, t, m, d : /\ a = auth /\ b = auth' /\ t = now
                     /\ m = e.model /\ d = e.seq
  OBVIOUS
<1>1. a \in AuthType /\ t \in Nat
  BY DEF IInv, TypeOK
<1>2. b = Succeed(a, m, d, t)
  BY DEF ReportSuccess
<1>3. m \in Models \cup {NoModel} /\ d \in Nat
  BY RunningFacts DEF IInv
<1>4. /\ b \in AuthType /\ (CredentialQuotaLive(a, t) => b = a)
      /\ \A k \in Known(b) : b.models[k].unavailable =>
           /\ k \in Known(a) /\ a.models[k].unavailable
           /\ b.models[k].seq = a.models[k].seq
  BY <1>1, <1>2, <1>3, SucceedFacts
<1>5. failedAt' = failedAt /\ quotaUntil' = quotaUntil /\ now' = now
  BY DEF ReportSuccess
<1>6. TypeOK'
  BY RunningFacts, <1>4, AuthCooldownAssumption DEF IInv, TypeOK, ReportSuccess
<1>7. QuotaRecorded'
  <2>1. now < quotaUntil => CredentialQuotaLive(a, t)
    BY <1>1, AuthFields DEF IInv, TypeOK, QuotaRecorded, CredentialQuotaLive
  <2> QED
    BY <1>4, <1>5, <2>1 DEF IInv, QuotaRecorded
<1>8. Watermarked'
  BY <1>4, <1>5 DEF IInv, Watermarked
<1> QED
  BY <1>6, <1>7, <1>8 DEF IInv

LEMMA FailureSteps ==
  ASSUME IInv, NEW e \in running, NEW r \in Failures, ReportFailure(e, r)
  PROVE  IInv'
<1> PICK a, b, t, m : a = auth /\ b = auth' /\ t = now /\ m = e.model
  OBVIOUS
<1>1. a \in AuthType /\ t \in Nat /\ issued \in Nat
  BY DEF IInv, TypeOK
<1>2. b = Fail(a, m, r, t, issued)
  BY DEF ReportFailure
<1>3. /\ m \in Models \cup {NoModel} /\ NoModel \notin Models
      /\ running \ {e} \subseteq [model : Models \cup {NoModel}, seq : Nat \ {0}]
  BY RunningFacts, Constants DEF IInv
<1>4. OpensCredentialQuota(e, r) <=> m # NoModel /\ Opens(r)
  BY DEF OpensCredentialQuota, Opens
<1>5. /\ now' = now /\ failedAt \in [Models \cup {NoModel} -> Nat] /\ quotaUntil \in Nat
      /\ failedAt' = [k \in DOMAIN failedAt |->
                        IF k = m \/ (m # NoModel /\ Opens(r)) THEN issued
                        ELSE failedAt[k]]
      /\ quotaUntil' = CASE m # NoModel /\ Opens(r) ->
                              Later(quotaUntil, b.quota.recoverAt)
                         [] m = NoModel /\ r.kind = "quota" -> 0
                         [] OTHER -> quotaUntil
  BY <1>4 DEF ReportFailure, IInv, TypeOK
<1>6. now < quotaUntil =>
        CredentialQuotaLive(a, t) /\ HasCredentialQuota(a) /\ a.quota.recoverAt >= quotaUntil
  BY <1>1, AuthFields DEF IInv, TypeOK, QuotaRecorded, CredentialQuotaLive
<1>7. CASE m = NoModel
  <2>1. /\ b \in AuthType /\ b.models = a.models
        /\ r.kind # "quota" => b.quota = a.quota
    BY <1>1, <1>2, <1>7, FailAuthFacts DEF Fail
  <2>2. quotaUntil' = IF r.kind = "quota" THEN 0 ELSE quotaUntil
    BY <1>5, <1>7
  <2>3. QuotaRecorded'
    BY <1>1, <1>5, <1>6, <2>1, <2>2 DEF QuotaRecorded, HasCredentialQuota
  <2>4. Watermarked'
    <3> SUFFICES ASSUME NEW k \in Known(b), b.models[k].unavailable
                 PROVE  b.models[k].seq >= failedAt'[k]
      BY DEF Watermarked
    <3>1. k \in Known(a) /\ k \in Models
      BY <1>1, <2>1, AuthFields DEF Known
    <3>2. failedAt'[k] = failedAt[k]
      BY <1>3, <1>5, <1>7, <3>1
    <3> QED
      BY <2>1, <3>1, <3>2 DEF IInv, Watermarked
  <2>5. TypeOK'
    <3>1. failedAt' \in [Models \cup {NoModel} -> Nat] /\ quotaUntil' \in Nat
      BY <1>1, <1>5, <2>2
    <3> QED
      BY <1>3, <2>1, <3>1, AuthCooldownAssumption DEF IInv, TypeOK, ReportFailure
  <2> QED
    BY <2>3, <2>4, <2>5 DEF IInv
<1>8. CASE m # NoModel
  <2>1. m \in Models /\ b = FailModel(a, m, r, t, issued)
    BY <1>2, <1>3, <1>8 DEF Fail
  <2>2. /\ b \in AuthType /\ Known(b) = Known(a) \cup {m}
        /\ Opens(r) =>
             /\ b.quota.recoverAt > t /\ HasCredentialQuota(b)
             /\ HasCredentialQuota(a) => b.quota.recoverAt >= a.quota.recoverAt
             /\ \A k \in Known(b) : b.models[k].seq = issued
        /\ ~Opens(r) /\ CredentialQuotaLive(a, t) => b.quota = a.quota
        /\ ~Opens(r) => \A k \in Known(a) : k # m =>
             /\ b.models[k].seq = a.models[k].seq
             /\ b.models[k].unavailable => a.models[k].unavailable
        /\ b.models[m].seq = issued
    <3>5. b \in AuthType
      BY <1>1, <2>1, FailModelType
    <3>1. Known(b) = Known(a) \cup {m}
      BY <1>1, <2>1, FailModelFacts
    <3>4. b.models[m].seq = issued
      BY <1>1, <2>1, FailModelFacts
    <3>2. Opens(r) =>
             /\ b.quota.recoverAt > t /\ HasCredentialQuota(b)
             /\ HasCredentialQuota(a) => b.quota.recoverAt >= a.quota.recoverAt
             /\ \A k \in Known(b) : b.models[k].seq = issued
      BY <1>1, <2>1, FailModelFacts
    <3>3. /\ ~Opens(r) /\ CredentialQuotaLive(a, t) => b.quota = a.quota
          /\ ~Opens(r) => \A k \in Known(a) : k # m =>
               /\ b.models[k].seq = a.models[k].seq
               /\ b.models[k].unavailable => a.models[k].unavailable
      BY <1>1, <2>1, FailModelFacts
    <3> QED
      BY <3>1, <3>2, <3>3, <3>4, <3>5
  <2>3. quotaUntil' = IF Opens(r) THEN Later(quotaUntil, b.quota.recoverAt)
                      ELSE quotaUntil
    BY <1>5, <1>8
  <2>4. b.quota.recoverAt \in Nat /\ a.quota.recoverAt \in Nat
    BY <1>1, <2>2, AuthFields
  <2>5. QuotaRecorded'
    <3>1. CASE Opens(r)
      BY <1>1, <1>5, <1>6, <2>2, <2>3, <2>4, <3>1 DEF QuotaRecorded, Later
    <3>2. CASE ~Opens(r)
      BY <1>1, <1>5, <1>6, <2>2, <2>3, <3>2 DEF QuotaRecorded, HasCredentialQuota
    <3> QED
      BY <3>1, <3>2
  <2>6. Watermarked'
    <3> SUFFICES ASSUME NEW k \in Known(b), b.models[k].unavailable
                 PROVE  b.models[k].seq >= failedAt'[k]
      BY DEF Watermarked
    <3>1. k \in Models
      BY <2>2, AuthFields
    <3>2. CASE Opens(r) \/ k = m
      <4>1. failedAt'[k] = issued /\ b.models[k].seq = issued
        BY <1>5, <1>8, <2>2, <3>1, <3>2
      <4> QED
        BY <1>1, <4>1
    <3>3. CASE ~Opens(r) /\ k # m
      <4>1. failedAt'[k] = failedAt[k]
        BY <1>5, <3>1, <3>3
      <4>2. /\ k \in Known(a) /\ a.models[k].unavailable
            /\ b.models[k].seq = a.models[k].seq
        BY <2>2, <3>3
      <4> QED
        BY <4>1, <4>2 DEF IInv, Watermarked
    <3> QED
      BY <3>2, <3>3
  <2>7. TypeOK'
    <3>1. failedAt' \in [Models \cup {NoModel} -> Nat] /\ quotaUntil' \in Nat
      BY <1>1, <1>5, <2>3, <2>4, LaterFacts
    <3> QED
      BY <1>3, <2>2, <3>1, AuthCooldownAssumption DEF IInv, TypeOK, ReportFailure
  <2> QED
    BY <2>5, <2>6, <2>7 DEF IInv
<1> QED
  BY <1>7, <1>8

LEMMA ResetSteps ==
  ASSUME IInv, AdminReset
  PROVE  IInv'
<1> PICK a, b, t : a = auth /\ b = auth' /\ t = now
  OBVIOUS
<1>1. a \in AuthType /\ t \in Nat /\ b = ResetQuota(a, t)
  BY DEF IInv, TypeOK, AdminReset
<1>2. b \in AuthType /\ \A k \in Known(b) : ~b.models[k].unavailable
  BY <1>1, ResetFacts
<1>3. TypeOK'
  BY <1>2, AuthCooldownAssumption DEF IInv, TypeOK, AdminReset
<1>4. QuotaRecorded'
  BY <1>1 DEF QuotaRecorded, AdminReset
<1>5. Watermarked'
  BY <1>2 DEF Watermarked
<1> QED
  BY <1>3, <1>4, <1>5 DEF IInv

LEMMA ReconcileSteps ==
  ASSUME IInv, NEW supported, ReconcileModels(supported)
  PROVE  IInv'
<1> PICK a, b, t : a = auth /\ b = auth' /\ t = now
  OBVIOUS
<1>1. /\ a \in AuthType /\ t \in Nat /\ b = Reconcile(a, supported, t) /\ b # a
      /\ now' = now /\ failedAt' = failedAt /\ quotaUntil' = quotaUntil
  BY DEF IInv, TypeOK, ReconcileModels
<1>2. /\ b \in AuthType /\ (CredentialQuotaLive(a, t) => b.quota = a.quota)
      /\ \A k \in Known(b) : ~b.models[k].unavailable
  BY <1>1, ReconcileFacts
<1>3. TypeOK'
  BY <1>2 DEF IInv, TypeOK, ReconcileModels
<1>4. QuotaRecorded'
  <2>1. now < quotaUntil => CredentialQuotaLive(a, t)
    BY <1>1, AuthFields DEF IInv, TypeOK, QuotaRecorded, CredentialQuotaLive
  <2> QED
    BY <1>1, <1>2, <2>1 DEF IInv, QuotaRecorded, HasCredentialQuota
<1>5. Watermarked'
  BY <1>2 DEF Watermarked
<1> QED
  BY <1>3, <1>4, <1>5 DEF IInv

\* What a restart restores.
LEMMA RestartRestores ==
  ASSUME IInv, NEW supported, Restart(supported),
         NEW kept, kept = RecordsFor(store, supported), NEW b, b = auth',
         NEW live, live = {m \in DOMAIN kept : kept[m].retryAt > now}
  PROVE  /\ b \in AuthType /\ Known(b) = live \ {NoModel}
         /\ \A k \in Known(b) : Cooling(b.models[k], now)
         /\ live # {} => Cooling(b, now) \/ CredentialQuotaLive(b, now)
<1> PICK t, records : t = now /\ records = store
  OBVIOUS
<1>1. t \in Nat /\ records \in Saved /\ Enforcing(records)
  BY DEF IInv, TypeOK
<1>2. kept \in Saved /\ Enforcing(kept)
  BY <1>1, RecordsForFacts
<1>3. b = Restore(CleanAuth, kept, t)
  BY DEF Restart
<1>4. live = Unexpired(kept, t)
  BY DEF Unexpired
<1>5. /\ b \in AuthType /\ Known(b) = live \ {NoModel}
      /\ \A k \in Known(b) : Cooling(b.models[k], t)
      /\ live # {} => Cooling(b, t) \/ CredentialQuotaLive(b, t)
  BY <1>1, <1>2, <1>3, <1>4, RestoreFacts
<1> QED
  BY <1>5

LEMMA RestartSteps ==
  ASSUME IInv, NEW supported, Restart(supported)
  PROVE  IInv'
<1> PICK b, t, kept : b = auth' /\ t = now /\ kept = RecordsFor(store, supported)
  OBVIOUS
<1> PICK live : live = {m \in DOMAIN kept : kept[m].retryAt > now}
  OBVIOUS
<1>1. b \in AuthType
  BY RestartRestores
<1>2. b.quota.recoverAt \in Nat /\ \A k \in Known(b) : b.models[k].seq \in Nat
  BY <1>1, AuthFields, StateFields
<1>3. store' \in Saved /\ Enforcing(store')
  <2>1. store' = Records(b, t) /\ t \in Nat
    BY DEF Restart, IInv, TypeOK
  <2> QED
    BY <1>1, <2>1, RecordsFacts
<1>4. failedAt' = NeverFailed /\ failedAt' \in [Models \cup {NoModel} -> Nat]
  BY DEF Restart, NeverFailed
<1>5. quotaUntil' = IF HasCredentialQuota(b) THEN b.quota.recoverAt ELSE 0
  BY DEF Restart
<1>6. now' \in Nat
  BY DEF Restart, IInv, TypeOK
<1>7. TypeOK'
  <2>1. unsaved' \in BOOLEAN /\ issued' \in Nat /\ running' = {}
    BY DEF Restart
  <2>2. restarts' \in Nat
    <3>1. restarts \in Nat /\ restarts' = restarts + 1
      BY DEF Restart, IInv, TypeOK
    <3> QED
      BY <3>1
  <2> QED
    BY <1>1, <1>2, <1>3, <1>4, <1>5, <1>6, <2>1, <2>2 DEF TypeOK
<1>8. QuotaRecorded'
  BY <1>2, <1>5, <1>6 DEF QuotaRecorded
<1>9. Watermarked'
  <2> SUFFICES ASSUME NEW k \in Known(b)
               PROVE  b.models[k].seq >= failedAt'[k]
    BY DEF Watermarked
  <2>1. k \in Models /\ b.models[k].seq \in Nat
    BY <1>1, <1>2, AuthFields
  <2>2. failedAt'[k] = 0
    BY <1>4, <2>1 DEF NeverFailed
  <2> QED
    BY <2>1, <2>2
<1> QED
  BY <1>7, <1>8, <1>9 DEF IInv

LEMMA NextIInv == IInv /\ [Next]_vars => IInv'
<1> SUFFICES ASSUME IInv, [Next]_vars PROVE IInv'
  OBVIOUS
<1>1. CASE \/ Tick \/ \E m \in Targets : Dispatch(m)
           \/ \E e \in running : Neutral(e)
           \/ SaveRecords \/ UNCHANGED vars
  BY <1>1, OtherSteps
<1>2. CASE \E e \in running : ReportSuccess(e)
  BY <1>2, SuccessSteps
<1>3. CASE \E e \in running, r \in Failures : ReportFailure(e, r)
  BY <1>3, FailureSteps
<1>4. CASE AdminReset
  BY <1>4, ResetSteps
<1>5. CASE \E supported \in SUBSET Models : ReconcileModels(supported)
  BY <1>5, ReconcileSteps
<1>6. CASE \E supported \in SUBSET Models : Restart(supported)
  BY <1>6, RestartSteps
<1> QED
  BY <1>1, <1>2, <1>3, <1>4, <1>5, <1>6 DEF Next

-----------------------------------------------------------------------------
(* The theorems.                                                           *)

\* The conductor, the saved records and the numbers of the executions keep their
\* types, and no record is saved of a state that is available.
THEOREM TypesCorrect == Spec => []TypeOK
<1>1. IInv => TypeOK
  BY DEF IInv
<1> QED
  BY <1>1, InitIInv, NextIInv, PTL DEF Spec

\* Types, the recorded quota and the watermarks hold in every state.
LEMMA AlwaysIInv == Spec => []IInv
  BY InitIInv, NextIInv, PTL DEF Spec

\* A live credential-wide quota keeps every model blocked, with or without a state
\* of its own, through other results, aggregation, reconciliation and restarts.
THEOREM QuotaBlocksCredential == Spec => []CredentialQuotaHolds
<1>1. IInv => CredentialQuotaHolds
  <2> SUFFICES ASSUME IInv, now < quotaUntil, NEW m \in Models
               PROVE  Blocked(auth, m, now)
    BY DEF CredentialQuotaHolds
  <2>1. /\ HasCredentialQuota(auth) /\ auth.quota.recoverAt >= quotaUntil
        /\ now \in Nat /\ quotaUntil \in Nat /\ auth \in AuthType
    BY DEF IInv, TypeOK, QuotaRecorded
  <2>2. auth.quota.recoverAt \in Nat
    BY <2>1, AuthFields
  <2> QED
    BY <2>1, <2>2 DEF Blocked, CredentialQuotaLive
<1> QED
  BY <1>1, AlwaysIInv, PTL

\* The success of an execution dispatched before the latest failure of a model
\* lifts no cooldown of that model: the watermark proves it stale.
THEOREM StaleSuccessesAreHarmless == Spec => StaleSuccessHarmless
<1>1. ASSUME IInv, NEW e \in running, ReportSuccess(e),
             NEW m \in Known(auth), Cooling(auth.models[m], now), e.seq <= failedAt[m]
      PROVE  Blocked(auth, m, now)'
  <2> PICK a, b, t, s, n, d : /\ a = auth /\ b = auth' /\ t = now
                              /\ s = a.models[m] /\ n = e.model /\ d = e.seq
    OBVIOUS
  <2>1. a \in AuthType /\ t \in Nat
    BY <1>1 DEF IInv, TypeOK
  <2>2. n \in Models \cup {NoModel} /\ d \in Nat /\ d > 0
    BY <1>1, RunningFacts DEF IInv
  <2>3. b = Succeed(a, n, d, t) /\ now' = now
    BY <1>1 DEF ReportSuccess
  <2>4. m \in Models /\ s \in StateType /\ Cooling(s, t)
    BY <1>1, <2>1, AuthFields
  <2>5. s.seq >= failedAt[m] /\ failedAt[m] \in Nat /\ d <= failedAt[m]
    BY <1>1, <2>4 DEF IInv, TypeOK, Watermarked, Cooling
  <2>6. s.seq \in Nat /\ s.seq > 0 /\ d <= s.seq
    BY <2>2, <2>4, <2>5, StateFields
  <2>7. Predates(s, d, t)
    BY <2>2, <2>4, <2>6 DEF Predates, ActiveCooldown, Cooling
  <2>8. Cooling(b.models[m], t) /\ m \in Known(b)
    <3>1. m \in Known(a) /\ Cooling(a.models[m], t) /\ Predates(a.models[m], d, t)
      BY <1>1, <2>7
    <3>2. /\ Known(a) \subseteq Known(b)
          /\ \A k \in Known(a) :
               Cooling(a.models[k], t) /\ (k = n => Predates(a.models[k], d, t)) =>
                 Cooling(b.models[k], t)
      BY <2>1, <2>2, <2>3, SucceedFacts
    <3> QED
      BY <3>1, <3>2
  <2>9. m # NoModel
    BY <2>4, Constants
  <2> QED
    BY <1>1, <2>3, <2>8, <2>9 DEF Blocked
<1>2. IInv /\ [Next]_vars =>
        [\A e \in running :
           ReportSuccess(e) =>
             \A m \in {k \in Known(auth) : Cooling(auth.models[k], now)} :
               e.seq <= failedAt[m] => Blocked(auth, m, now)']_vars
  BY <1>1
<1> QED
  BY <1>2, AlwaysIInv, PTL DEF Spec, StaleSuccessHarmless

\* A failure that must enforce a cooldown takes the model of its execution out of
\* rotation, whatever its status, the policy and the cooldowns before it.
THEOREM ForcedFailuresCool == Spec => ForcedCoolsDown
<1>1. ASSUME IInv, NEW e \in running, NEW r \in Failures,
             r.forced, e.model # NoModel, ReportFailure(e, r)
      PROVE  Blocked(auth, e.model, now)'
  <2> PICK a, b, t, m : a = auth /\ b = auth' /\ t = now /\ m = e.model
    OBVIOUS
  <2>1. a \in AuthType /\ t \in Nat /\ issued \in Nat
    BY <1>1 DEF IInv, TypeOK
  <2>2. m \in Models /\ b = FailModel(a, m, r, t, issued) /\ now' = now
    BY <1>1, RunningFacts DEF IInv, ReportFailure, Fail
  <2>3. Known(b) = Known(a) \cup {m} /\ (r.forced => Cooling(b.models[m], t))
    BY <2>1, <2>2, FailModelFacts
  <2> QED
    BY <1>1, <2>2, <2>3 DEF Blocked
<1>2. IInv /\ [Next]_vars =>
        [\A e \in running, r \in Failures :
           r.forced /\ e.model # NoModel /\ ReportFailure(e, r) =>
             Blocked(auth, e.model, now)']_vars
  BY <1>1
<1> QED
  BY <1>2, AlwaysIInv, PTL DEF Spec, ForcedCoolsDown

\* A 429 that finds a window open keeps its backoff level.
THEOREM BackoffEscalatesOnce == Spec => BackoffOncePerWindow
<1>1. ASSUME IInv, NEW e \in running, NEW r \in Failures,
             ReportFailure(e, r), e.model # NoModel, r.kind = "quota"
      PROVE  IF r.scope /\ CoolingOn(r)
             THEN CredentialQuotaLive(auth, now) =>
                    auth'.quota.level <= auth.quota.level
             ELSE LET q == StateOf(auth, e.model).quota IN
                  q.recoverAt > now =>
                    auth'.models[e.model].quota.level <=
                      IF r.scope THEN Later(q.level, auth.quota.level) ELSE q.level
  <2> PICK a, b, t, m, s, q : /\ a = auth /\ b = auth' /\ t = now /\ m = e.model
                              /\ s = StateOf(a, m) /\ q = s.quota
    OBVIOUS
  <2>1. a \in AuthType /\ t \in Nat /\ issued \in Nat
    BY <1>1 DEF IInv, TypeOK
  <2>2. m \in Models /\ b = FailModel(a, m, r, t, issued)
    BY <1>1, RunningFacts DEF IInv, ReportFailure, Fail
  <2>3. /\ s \in StateType /\ q \in QuotaType /\ q.level \in Nat /\ a.quota.level \in Nat
        /\ a.quota \in QuotaType
    BY <2>1, StateOfType, StateFields, AuthFields
  <2>4. CASE r.scope /\ CoolingOn(r)
    <3>1. CredentialQuotaLive(a, t) => b.quota.level = a.quota.level
      BY <1>1, <2>1, <2>2, <2>4, FailModelFacts DEF Opens
    <3> QED
      BY <2>3, <2>4, <3>1
  <2>5. CASE ~(r.scope /\ CoolingOn(r))
    <3> SUFFICES ASSUME q.recoverAt > t
                 PROVE  b.models[m].quota.level <=
                          IF r.scope THEN Later(q.level, a.quota.level) ELSE q.level
      BY <2>5
    <3> PICK c : c = CountedQuota(a, s, r)
      OBVIOUS
    <3>1. b.models[m].quota.level = WindowAfter(c, r, t).level
      BY <1>1, <2>1, <2>2, FailModelFacts
    <3>2. /\ c \in QuotaType /\ c.level \in {0, q.level, a.quota.level}
          /\ ~r.scope => c = q
      BY <2>1, <2>3, CountedType
    <3>3. WindowAfter(c, r, t).level = c.level
      <4>1. ~CoolingOn(r) \/ c.recoverAt > t
        BY <2>5, <3>2, FailureFields
      <4> QED
        BY <2>1, <3>2, <4>1, WindowFacts
    <3>4. CASE r.scope
      BY <2>3, <3>1, <3>2, <3>3, <3>4 DEF Later
    <3>5. CASE ~r.scope
      BY <2>3, <3>1, <3>2, <3>3, <3>5
    <3> QED
      BY <3>4, <3>5
  <2> QED
    BY <2>4, <2>5
<1>2. IInv /\ [Next]_vars =>
        [\A e \in running, r \in Failures :
           ReportFailure(e, r) /\ e.model # NoModel /\ r.kind = "quota" =>
             IF r.scope /\ CoolingOn(r)
             THEN CredentialQuotaLive(auth, now) =>
                    auth'.quota.level <= auth.quota.level
             ELSE LET q == StateOf(auth, e.model).quota IN
                  q.recoverAt > now =>
                    auth'.models[e.model].quota.level <=
                      IF r.scope THEN Later(q.level, auth.quota.level) ELSE q.level]_vars
  BY <1>1
<1> QED
  BY <1>2, AlwaysIInv, PTL DEF Spec, BackoffOncePerWindow

\* While cooling is on, a later failure only extends a live cooldown: of its model,
\* of the models a credential quota propagates to, and of the credential.  Only one
\* that sets no deadline drops that of its own model, and of the credential.
THEOREM FailuresOnlyExtend == Spec => FailureNeverShortens
<1>1. ASSUME IInv, NEW e \in running, NEW r \in Failures,
             CoolingOn(r), ReportFailure(e, r)
      PROVE  /\ \A m \in Known(auth) :
                  Cooling(auth.models[m], now) =>
                    \/ auth'.models[m].retryAt >= auth.models[m].retryAt
                    \/ m = e.model /\ ~SetsDeadline(r)
             /\ e.model = NoModel /\ Cooling(auth, now) =>
                  \/ auth'.retryAt >= auth.retryAt
                  \/ r.kind = "transient" /\ ~SetsDeadline(r)
  <2> PICK a, b, t, n : a = auth /\ b = auth' /\ t = now /\ n = e.model
    OBVIOUS
  <2>1. a \in AuthType /\ t \in Nat /\ issued \in Nat
    BY <1>1 DEF IInv, TypeOK
  <2>2. n \in Models \cup {NoModel} /\ b = Fail(a, n, r, t, issued)
    BY <1>1, RunningFacts DEF IInv, ReportFailure
  <2>3. CASE n = NoModel
    <3>1. /\ b \in AuthType /\ b.models = a.models
          /\ CoolingOn(r) /\ (r.kind = "transient" => SetsDeadline(r)) /\ Cooling(a, t) =>
               b.retryAt >= a.retryAt
      BY <2>1, <2>2, <2>3, FailAuthFacts DEF Fail
    <3>2. \A m \in Known(a) : a.models[m].retryAt \in Nat
      BY <2>1, AuthFields, StateFields
    <3> QED
      BY <1>1, <2>2, <2>3, <3>1, <3>2
  <2>4. CASE n # NoModel
    <3>1. n \in Models /\ b = FailModel(a, n, r, t, issued)
      BY <2>2, <2>4 DEF Fail
    <3>2. /\ \A k \in Known(a) : Cooling(a.models[k], t) /\ k # n =>
               b.models[k].retryAt >= a.models[k].retryAt
          /\ CoolingOn(r) /\ SetsDeadline(r) /\ n \in Known(a) /\ Cooling(a.models[n], t) =>
               b.models[n].retryAt >= a.models[n].retryAt
      BY <2>1, <3>1, FailModelFacts
    <3> QED
      BY <1>1, <2>2, <2>4, <3>2
  <2> QED
    BY <2>3, <2>4
<1>2. IInv /\ [Next]_vars =>
        [\A e \in running, r \in Failures :
           CoolingOn(r) /\ ReportFailure(e, r) =>
             /\ \A m \in Known(auth) :
                  Cooling(auth.models[m], now) =>
                    \/ auth'.models[m].retryAt >= auth.models[m].retryAt
                    \/ m = e.model /\ ~SetsDeadline(r)
             /\ e.model = NoModel /\ Cooling(auth, now) =>
                  \/ auth'.retryAt >= auth.retryAt
                  \/ r.kind = "transient" /\ ~SetsDeadline(r)]_vars
  BY <1>1
<1> QED
  BY <1>2, AlwaysIInv, PTL DEF Spec, FailureNeverShortens

\* After a restart every saved cooldown that has not run out is enforced, whatever
\* the number of records and the models that are registered.
THEOREM CooldownsOutliveRestarts == Spec => RestartKeepsCooldowns
<1>1. ASSUME IInv, NEW supported \in SUBSET Models, Restart(supported),
             NEW kept, kept = RecordsFor(store, supported),
             NEW m \in DOMAIN kept, kept[m].retryAt > now
      PROVE  Blocked(auth, m, now)'
  <2> PICK b, live : b = auth' /\ live = {k \in DOMAIN kept : kept[k].retryAt > now}
    OBVIOUS
  <2>1. /\ Known(b) = live \ {NoModel}
        /\ \A k \in Known(b) : Cooling(b.models[k], now)
        /\ live # {} => Cooling(b, now) \/ CredentialQuotaLive(b, now)
    BY <1>1, RestartRestores
  <2>2. m \in live /\ now' = now
    BY <1>1 DEF Restart
  <2>3. CASE m = NoModel
    BY <2>1, <2>2, <2>3 DEF Blocked
  <2>4. CASE m # NoModel
    BY <2>1, <2>2, <2>4 DEF Blocked
  <2> QED
    BY <2>3, <2>4
<1>2. IInv /\ [Next]_vars =>
        [\A supported \in SUBSET Models :
           Restart(supported) =>
             LET kept == RecordsFor(store, supported) IN
             \A m \in DOMAIN kept :
               kept[m].retryAt > now => Blocked(auth, m, now)']_vars
  BY <1>1
<1> QED
  BY <1>2, AlwaysIInv, PTL DEF Spec, RestartKeepsCooldowns

=============================================================================
