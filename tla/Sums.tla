-------------------------------- MODULE Sums --------------------------------
(* What MapThenSumSet and Max compute for every finite set: the empty sum is  *)
(* 0, a sum of natural numbers is a natural number, and the greatest member   *)
(* of a set of positions is a member of it.                                   *)
EXTENDS Integers, FiniteSets, FiniteSetsExt, FiniteSetTheorems, WellFoundedInduction, TLAPS

\* the element that MapThenSumSet takes from a set
Pick(s) == CHOOSE x \in s : TRUE

\* g is the recursive function of MapThenSumSet for the weights w of the members of S
IsSum(g, S, w) == g = [s \in SUBSET S |-> IF s = {} THEN 0 ELSE w[Pick(s)] + g[s \ {Pick(s)}]]

LEMMA PickIsIn == \A s : s # {} => Pick(s) \in s
BY DEF Pick

\* Every non-empty set of natural numbers has a least member.
LEMMA LeastNumber ==
    ASSUME NEW T, T \subseteq Nat, T # {}
    PROVE  \E x \in T : \A y \in T : ~(y < x)
<1> DEFINE R == OpToRel(<, Nat)
<1>1. \E x \in T : \A y \in T : ~(<<y, x>> \in R)
  <2> HIDE DEF R
  <2>1. IsWellFoundedOn(R, Nat)
    BY NatLessThanWellFounded DEF R
  <2>2. QED
    BY <2>1, WFMin
<1>2. QED
  BY <1>1 DEF OpToRel

\* Max finds a member of every non-empty set of positions.
LEMMA MaxIsThere ==
    ASSUME NEW n \in Nat, NEW T, T \subseteq 1 .. n, T # {}
    PROVE  Max(T) \in T
<1> DEFINE D == {n - i : i \in T}
<1>1. D \subseteq Nat /\ D # {}
  <2>1. \A i \in T : n - i \in Nat
    OBVIOUS
  <2>2. PICK i \in T : TRUE
    OBVIOUS
  <2>3. n - i \in D
    OBVIOUS
  <2>4. QED
    BY <2>1, <2>3
<1>2. PICK x \in D : \A y \in D : ~(y < x)
  <2> HIDE DEF D
  <2> QED
    BY <1>1, LeastNumber
<1>3. PICK i \in T : x = n - i
  OBVIOUS
<1>4. \A j \in T : i >= j
  <2> TAKE j \in T
  <2>1. n - j \in D
    OBVIOUS
  <2>2. ~(n - j < n - i)
    BY <1>2, <1>3, <2>1
  <2>3. i \in Int /\ j \in Int
    OBVIOUS
  <2>4. QED
    BY <2>2, <2>3
<1>5. QED
  BY <1>4 DEF Max

\* The recursive function exists, for any weights: it is extended from the sets
\* of n members to those of n + 1.
LEMMA SumExists ==
    ASSUME NEW S, IsFiniteSet(S), NEW w
    PROVE  \E g : IsSum(g, S, w)
<1> DEFINE Upto(n) == {s \in SUBSET S : Cardinality(s) <= n}
           Works(g, n) == g = [s \in Upto(n) |-> IF s = {} THEN 0 ELSE w[Pick(s)] + g[s \ {Pick(s)}]]
           Fails == {n \in Nat : ~ \E g : Works(g, n)}
<1>1. \A s \in SUBSET S : IsFiniteSet(s) /\ Cardinality(s) \in Nat /\ Cardinality(s) <= Cardinality(S)
  BY FS_Subset, FS_CardinalityType
<1>2. \A s \in SUBSET S : s # {} => Cardinality(s \ {Pick(s)}) = Cardinality(s) - 1
  BY <1>1, PickIsIn, FS_RemoveElement
<1>3. \A s \in SUBSET S : Cardinality(s) <= 0 => s = {}
  BY <1>1, FS_EmptySet
<1>4. Cardinality(S) \in Nat /\ Upto(Cardinality(S)) = SUBSET S
  BY <1>1
<1>5. Fails = {}
  <2> SUFFICES ASSUME Fails # {} PROVE FALSE
    OBVIOUS
  <2> HIDE DEF Works, Fails, Upto
  <2>1. PICK n \in Fails : \A k \in Fails : ~(k < n)
    BY LeastNumber DEF Fails
  <2>2. n \in Nat /\ ~ \E g : Works(g, n)
    BY DEF Fails
  <2>3. CASE n = 0
    <3> DEFINE g == [s \in Upto(0) |-> 0]
    <3>1. \A s \in Upto(0) : s = {}
      BY <1>3 DEF Upto
    <3>2. Works(g, 0)
      BY <3>1 DEF Works
    <3>3. QED
      BY <2>2, <2>3, <3>2
  <2>4. CASE n # 0
    <3>1. n - 1 \in Nat /\ n - 1 < n
      BY <2>2, <2>4
    <3>2. n - 1 \notin Fails
      BY <2>1, <3>1
    <3>3. PICK f : Works(f, n - 1)
      BY <3>1, <3>2 DEF Fails
    <3> DEFINE g == [s \in Upto(n) |-> IF s = {} THEN 0 ELSE w[Pick(s)] + f[s \ {Pick(s)}]]
    <3>4. \A s \in Upto(n - 1) : s \in Upto(n) /\ g[s] = f[s]
      <4>1. \A s \in Upto(n - 1) : s \in Upto(n)
        BY <1>1, <3>1, <2>2 DEF Upto
      <4>2. QED
        BY <3>3, <4>1 DEF Works
    <3>5. \A s \in Upto(n) : s # {} => s \ {Pick(s)} \in Upto(n - 1)
      BY <1>1, <1>2, <2>2 DEF Upto
    <3>6. \A s \in Upto(n) : s # {} => g[s \ {Pick(s)}] = f[s \ {Pick(s)}]
      BY <3>4, <3>5
    <3> DEFINE k == [s \in Upto(n) |-> IF s = {} THEN 0 ELSE w[Pick(s)] + g[s \ {Pick(s)}]]
    <3>8. \A s \in Upto(n) : g[s] = k[s]
      BY <3>6
    <3>9. g = k
      BY <3>8
    <3>7. Works(g, n)
      BY <3>9 DEF Works
    <3>10. QED
      BY <2>2, <3>7
  <2>5. QED
    BY <2>3, <2>4
<1>6. PICK g : Works(g, Cardinality(S))
  BY <1>4, <1>5
<1>7. QED
  BY <1>4, <1>6 DEF IsSum

\* A function like it has natural values if the weights are natural numbers.
LEMMA SumIsNat ==
    ASSUME NEW S, IsFiniteSet(S), NEW w, \A x \in S : w[x] \in Nat, NEW g, IsSum(g, S, w)
    PROVE  g[S] \in Nat
<1> DEFINE Bad == {s \in SUBSET S : g[s] \notin Nat}
           R == StrictSubsetOrdering(S)
<1>1. Bad = {}
  <2> SUFFICES ASSUME Bad # {} PROVE FALSE
    OBVIOUS
  <2>1. IsWellFoundedOn(R, SUBSET S)
    BY FS_StrictSubsetOrderingWellFounded, FS_FiniteSubsetsOfFinite
  <2>2. PICK s \in Bad : \A t \in Bad : <<t, s>> \notin R
    <3> HIDE DEF R
    <3>1. Bad \subseteq SUBSET S
      OBVIOUS
    <3> HIDE DEF Bad
    <3>2. QED
      BY <2>1, <3>1, WFMin
  <2>3. s \in SUBSET S /\ g[s] \notin Nat
    OBVIOUS
  <2>4. s # {} /\ g[s] = w[Pick(s)] + g[s \ {Pick(s)}]
    <3>1. g[s] = IF s = {} THEN 0 ELSE w[Pick(s)] + g[s \ {Pick(s)}]
      BY <2>3 DEF IsSum
    <3>2. QED
      BY <2>3, <3>1
  <2>5. Pick(s) \in s
    BY <2>4, PickIsIn
  <2>6. <<s \ {Pick(s)}, s>> \in R
    BY <2>3, <2>5 DEF StrictSubsetOrdering
  <2>7. g[s \ {Pick(s)}] \in Nat
    BY <2>2, <2>3, <2>6
  <2>8. QED
    BY <2>3, <2>4, <2>5, <2>7
<1>2. QED
  BY <1>1
=============================================================================
