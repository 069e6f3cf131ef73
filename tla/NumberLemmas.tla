----------------------------- MODULE NumberLemmas -----------------------------
(***************************************************************************)
(* Finite sets of naturals have a j-th element, and every nonempty set of  *)
(* naturals a least one: the form of induction the proofs of this project  *)
(* use, on the least counterexample.                                       *)
(***************************************************************************)
EXTENDS Integers, FiniteSets, FiniteSetTheorems, FunctionTheorems, TLAPS

(* Counting from the top, a finite set of naturals has a j-th element for  *)
(* every j up to its cardinality.                                          *)
LEMMA RankExists ==
  ASSUME NEW S \in SUBSET Nat, IsFiniteSet(S), NEW j \in 1 .. Cardinality(S)
  PROVE  \E s \in S : Cardinality({x \in S : x >= s}) = j
<1> DEFINE Up(s) == {x \in S : x >= s}
           up == [s \in S |-> Cardinality(Up(s))]
           n == Cardinality(S)
<1>1. \A s \in S : IsFiniteSet(Up(s)) /\ Cardinality(Up(s)) \in 1 .. n
  <2> TAKE s \in S
  <2>1. Up(s) \in SUBSET S /\ s \in Up(s)
    OBVIOUS
  <2>2. IsFiniteSet(Up(s)) /\ Cardinality(Up(s)) <= n
    BY <2>1, FS_Subset
  <2>3. Cardinality(Up(s)) \in Nat /\ n \in Nat
    BY <2>2, FS_CardinalityType
  <2>4. Cardinality(Up(s)) # 0
    BY <2>1, <2>2, FS_EmptySet
  <2> QED BY <2>2, <2>3, <2>4
<1>2. n \in Nat /\ IsFiniteSet(1 .. n) /\ Cardinality(1 .. n) = n
  BY FS_CardinalityType, FS_Interval
<1>3. up \in Injection(S, 1 .. n)
  <2>1. up \in [S -> 1 .. n]
    BY <1>1
  <2>2. ASSUME NEW a \in S, NEW b \in S, a < b
        PROVE  up[a] # up[b]
    <3>1. a \in Up(a) /\ a \notin Up(b)
      BY <2>2
    <3>2. Up(b) \subseteq Up(a)
      <4>1. \A x \in S : x \in Nat /\ a \in Nat /\ b \in Nat
        OBVIOUS
      <4>2. \A x \in S : x >= b => x >= a
        BY <2>2, <4>1
      <4> QED BY <4>2
    <3>3. Up(b) # Up(a)
      BY <3>1
    <3>4. Cardinality(Up(b)) # Cardinality(Up(a))
      BY <1>1, <3>2, <3>3, FS_Subset
    <3> QED BY <3>4
  <2>3. ASSUME NEW a \in S, NEW b \in S, up[a] = up[b]
        PROVE  a = b
    <3>1. ~(a < b) /\ ~(b < a)
      BY <2>2, <2>3
    <3> QED BY <3>1
  <2> QED BY <2>1, <2>3, Fun_IsInj
<1>4. up \in Surjection(S, 1 .. n)
  BY <1>2, <1>3, FS_Injection
<1>5. \A t \in 1 .. n : \E s \in S : up[s] = t
  <2> HIDE DEF up, n
  <2> QED BY <1>4, Fun_SurjectionProperties
<1>6. PICK s \in S : up[s] = j
  BY <1>5
<1> QED BY <1>6

(* The same, counting from the bottom.                                     *)
LEMMA RankFromBelow ==
  ASSUME NEW S \in SUBSET Nat, IsFiniteSet(S), NEW j \in 1 .. Cardinality(S)
  PROVE  \E s \in S : Cardinality({x \in S : x <= s}) = j
<1> DEFINE n == Cardinality(S)
<1>1. n \in Nat
  BY FS_CardinalityType
<1>2. n + 1 - j \in 1 .. n
  BY <1>1
<1>3. PICK s \in S : Cardinality({x \in S : x >= s}) = n + 1 - j
  <2> HIDE DEF n
  <2>1. \A k \in 1 .. n : \E s \in S : Cardinality({x \in S : x >= s}) = k
    BY RankExists DEF n
  <2> QED BY <1>2, <2>1
<1> DEFINE Low == {x \in S : x <= s}
           High == {x \in S : x >= s}
<1>4. Low \cup High = S /\ Low \cap High = {s}
  <2>1. \A x \in S : (x <= s \/ x >= s) /\ (x <= s /\ x >= s <=> x = s)
    OBVIOUS
  <2> QED BY <2>1
<1>5. IsFiniteSet(Low) /\ IsFiniteSet(High)
  BY FS_Subset
<1>6. Cardinality(Low) \in Nat
  BY <1>5, FS_CardinalityType
<1>7. Cardinality({s}) = 1
  BY FS_Singleton
<1> HIDE DEF Low
<1>8. Cardinality(Low \cup High) =
        Cardinality(Low) + Cardinality(High) - Cardinality(Low \cap High)
  <2> HIDE DEF High
  <2> QED BY <1>5, FS_Union
<1>9. Cardinality(High) = n + 1 - j
  BY <1>3
<1>10. Cardinality(Low) = j
  <2> HIDE DEF High
  <2>1. Cardinality(S) = Cardinality(Low) + Cardinality(High) - Cardinality({s})
    BY <1>4, <1>8
  <2> QED BY <1>1, <1>6, <1>7, <1>9, <2>1
<1> QED BY <1>10 DEF Low

(* Every nonempty set of naturals has a least element. *)
LEMMA LeastElement ==
  ASSUME NEW S \in SUBSET Nat, S # {}
  PROVE  \E m \in S : \A x \in S : m <= x
<1>1. PICK y \in S : TRUE
  OBVIOUS
<1> DEFINE T == {x \in S : x <= y}
<1>2. IsFiniteSet(T)
  BY FS_BoundedSetOfNaturals
<1>3. Cardinality(T) \in Nat /\ Cardinality(T) # 0
  BY <1>1, <1>2, FS_CardinalityType, FS_EmptySet
<1>4. PICK m \in T : Cardinality({x \in T : x >= m}) = Cardinality(T)
  <2>1. T \in SUBSET Nat
    OBVIOUS
  <2> HIDE DEF T
  <2>2. Cardinality(T) \in 1 .. Cardinality(T)
    BY <1>3
  <2> QED BY <1>2, <2>1, <2>2, RankExists
<1>5. {x \in T : x >= m} = T
  <2> DEFINE U == {x \in T : x >= m}
  <2>1. U \in SUBSET T /\ Cardinality(U) = Cardinality(T)
    BY <1>4
  <2>2. U = T
    BY <1>2, <2>1, FS_Subset
  <2> QED BY <2>2
<1>6. \A x \in T : x >= m
  BY <1>5
<1> QED BY <1>6
\* A function on 0 .. n that starts with first and goes on with next.
IsRecursion(g, S, n, first, next) ==
  /\ g \in [0 .. n -> S]
  /\ \A k \in 0 .. n : g[k] = IF k = 0 THEN first ELSE next[k][g[k - 1]]

(* A function defined by recursion on a bounded number exists, when every  *)
(* step stays in one set; and it stays in that set.                        *)
LEMMA RecursionExists ==
  ASSUME NEW S, NEW first \in S, NEW n \in Nat, NEW next \in [1 .. n -> [S -> S]]
  PROVE  \E g : IsRecursion(g, S, n, first, next)
<1> DEFINE Steps(m, g) ==
             /\ g \in [0 .. m -> S]
             /\ \A k \in 0 .. m : g[k] = IF k = 0 THEN first ELSE next[k][g[k - 1]]
           Bad == {m \in 0 .. n : ~ \E g : Steps(m, g)}
<1>1. Bad = {}
  <2> SUFFICES ASSUME Bad # {} PROVE FALSE
    OBVIOUS
  <2>1. Bad \in SUBSET Nat
    OBVIOUS
  <2>2. PICK m \in Bad : \A x \in Bad : m <= x
    <3> HIDE DEF Bad
    <3> QED BY <2>1, LeastElement
  <2>3. m \in 0 .. n /\ ~ \E g : Steps(m, g)
    OBVIOUS
  <2>4. m # 0
    <3>1. Steps(0, [k \in 0 .. 0 |-> first])
      OBVIOUS
    <3> QED BY <2>3, <3>1
  <2>5. m - 1 \in 0 .. n /\ ~(m <= m - 1)
    BY <2>3, <2>4
  <2>6. PICK v : Steps(m - 1, v)
    <3>1. m - 1 \notin Bad
      <4> HIDE DEF Bad
      <4> QED BY <2>2, <2>5
    <3> QED BY <2>5, <3>1
  <2> DEFINE w == [k \in 0 .. m |-> IF k = m THEN next[m][v[m - 1]] ELSE v[k]]
  <2>7. \A k \in 0 .. m : k # m => k \in 0 .. m - 1
    BY <2>3
  <2>8. v[m - 1] \in S /\ m \in 1 .. n
    BY <2>3, <2>4, <2>6
  <2>9. w \in [0 .. m -> S]
    BY <2>6, <2>7, <2>8
  <2>10. \A k \in 0 .. m : w[k] = IF k = 0 THEN first ELSE next[k][w[k - 1]]
    <3> TAKE k \in 0 .. m
    <3>1. CASE k = m
      <4>1. w[k] = next[k][v[k - 1]]
        BY <3>1
      <4>2. w[k - 1] = v[k - 1]
        BY <2>3, <2>4, <3>1
      <4> QED BY <2>4, <3>1, <4>1, <4>2
    <3>2. CASE k # m /\ k # 0
      <4>1. w[k] = v[k]
        BY <3>2
      <4>2. w[k - 1] = v[k - 1]
        <5>1. k - 1 \in 0 .. m /\ k - 1 # m
          BY <2>3, <3>2
        <5> QED BY <5>1
      <4>3. k \in 0 .. m - 1
        BY <2>7, <3>2
      <4>4. v[k] = next[k][v[k - 1]]
        BY <2>6, <3>2, <4>3
      <4> QED BY <3>2, <4>1, <4>2, <4>4
    <3>3. CASE k # m /\ k = 0
      <4>1. v[0] = first
        BY <2>6, <2>7, <3>3
      <4> QED BY <3>3, <4>1
    <3> QED BY <3>1, <3>2, <3>3
  <2> QED BY <2>3, <2>9, <2>10
<1>2. n \notin Bad
  BY <1>1
<1> QED BY <1>2 DEF IsRecursion

LEMMA RecursionInside ==
  ASSUME NEW S, NEW n \in Nat, NEW g, g[0] \in S,
         \A k \in 1 .. n : g[k - 1] \in S => g[k] \in S
  PROVE  \A k \in 0 .. n : g[k] \in S
<1> DEFINE Out == {k \in 0 .. n : g[k] \notin S}
<1> SUFFICES ASSUME Out # {} PROVE FALSE
  OBVIOUS
<1>1. Out \in SUBSET Nat
  OBVIOUS
<1>2. PICK m \in Out : \A x \in Out : m <= x
  <2> HIDE DEF Out
  <2> QED BY <1>1, LeastElement
<1>3. m \in 0 .. n /\ g[m] \notin S /\ m # 0
  OBVIOUS
<1>4. m - 1 \in 0 .. n /\ m \in 1 .. n /\ ~(m <= m - 1)
  BY <1>3
<1>5. m - 1 \notin Out
  <2> HIDE DEF Out
  <2> QED BY <1>2, <1>4
<1>6. g[m - 1] \in S
  BY <1>4, <1>5
<1> QED BY <1>3, <1>4, <1>6
==============================================================================
