-------------------------- MODULE AlgorithmsProofs --------------------------
(***************************************************************************)
(* Theorems about the pure parts of the program, for every input: a Stream *)
(* of package rlp under any sequence of calls, integers and strings that   *)
(* are written and read back, and the index of addresses under any         *)
(* building and any lookups.                                               *)
(***************************************************************************)
EXTENDS RlpStream, FastStore, Sums, SequenceTheorems, TLAPS

(***************************************************************************)
(* Induction, with the set of the numbers that have the property.          *)
(***************************************************************************)

\* A set of numbers that has a number as soon as it has all smaller ones has them all.
LEMMA AllNumbers ==
    ASSUME NEW T, \A n \in Nat : (\A k \in 0 .. n - 1 : k \in T) => n \in T
    PROVE  Nat \subseteq T
<1> DEFINE Missing == Nat \ T
<1> SUFFICES ASSUME Missing # {} PROVE FALSE
  OBVIOUS
<1>1. PICK n \in Missing : \A k \in Missing : ~(k < n)
  BY LeastNumber
<1>2. \A k \in 0 .. n - 1 : k \in T
  BY <1>1
<1>3. QED
  BY <1>1, <1>2

\* The same in steps of one.
LEMMA EachNext ==
    ASSUME NEW T, 0 \in T, \A n \in Nat : n \in T => n + 1 \in T
    PROVE  Nat \subseteq T
<1>1. ASSUME NEW n \in Nat, \A k \in 0 .. n - 1 : k \in T PROVE n \in T
  <2>1. CASE n = 0
    BY <2>1
  <2>2. CASE n # 0
    <3>1. n - 1 \in Nat /\ n - 1 \in 0 .. n - 1 /\ (n - 1) + 1 = n
      BY <2>2
    <3>2. n - 1 \in T
      BY <1>1, <3>1
    <3>3. (n - 1) + 1 \in T
      BY <3>1, <3>2
    <3>4. QED
      BY <3>1, <3>3
  <2>3. QED
    BY <2>1, <2>2
<1>2. QED
  BY <1>1, AllNumbers

(***************************************************************************)
(* Recursive functions of the form g[m] = g[m - 1] * c + w[m]: capacities, *)
(* numbers of digits, sums.                                                *)
(***************************************************************************)

Grows(g, n, z, c, w) ==
    /\ g[0] = z
    /\ \A m \in 1 .. n : g[m] = g[m - 1] * c + w[m]

\* A table of n rows that starts at z and grows by the weights exists.
LEMMA GrowsExists ==
    ASSUME NEW n \in Nat, NEW z \in Nat, NEW c \in Nat, NEW w, \A m \in 1 .. n : w[m] \in Nat
    PROVE  \E g \in [0 .. n -> Nat] : Grows(g, n, z, c, w)
<1> DEFINE T == {k \in Nat : k <= n => \E g \in [0 .. k -> Nat] : Grows(g, k, z, c, w)}
<1>1. 0 \in T
  <2> DEFINE g == [m \in 0 .. 0 |-> z]
  <2>1. g \in [0 .. 0 -> Nat] /\ Grows(g, 0, z, c, w)
    BY DEF Grows
  <2>2. QED
    BY <2>1
<1>2. ASSUME NEW k \in Nat, k \in T PROVE k + 1 \in T
  <2> SUFFICES ASSUME k + 1 <= n PROVE \E g \in [0 .. k + 1 -> Nat] : Grows(g, k + 1, z, c, w)
    OBVIOUS
  <2>1. PICK f \in [0 .. k -> Nat] : Grows(f, k, z, c, w)
    BY <1>2
  <2> DEFINE new == f[k] * c + w[k + 1]
             g == [m \in 0 .. k + 1 |-> IF m = k + 1 THEN new ELSE f[m]]
  <2>2. new \in Nat
    <3>1. f[k] \in Nat /\ w[k + 1] \in Nat
      OBVIOUS
    <3>2. \A a, b \in Nat : a * b \in Nat
      OBVIOUS
    <3>3. f[k] * c \in Nat
      BY <3>1, <3>2
    <3>4. QED
      BY <3>1, <3>3
  <2>3. /\ g \in [0 .. k + 1 -> Nat]
        /\ g[k + 1] = f[k] * c + w[k + 1]
        /\ \A m \in 0 .. k : g[m] = f[m]
    <3> HIDE DEF new
    <3>1. g \in [0 .. k + 1 -> Nat] /\ g[k + 1] = new /\ \A m \in 0 .. k : g[m] = f[m]
      BY <2>2
    <3>2. QED
      BY <3>1 DEF new
  <2> HIDE DEF g, new
  <2>4. \A m \in 1 .. k + 1 : m = k + 1 \/ m \in 1 .. k
    OBVIOUS
  <2>5. Grows(g, k + 1, z, c, w)
    <3>1. g[0] = z
      BY <2>1, <2>3 DEF Grows
    <3>2. ASSUME NEW m \in 1 .. k PROVE g[m] = g[m - 1] * c + w[m]
      <4>1. g[m] = f[m] /\ g[m - 1] = f[m - 1]
        BY <2>3
      <4>2. QED
        BY <2>1, <4>1 DEF Grows
    <3>3. g[k + 1] = g[(k + 1) - 1] * c + w[k + 1]
      <4>1. (k + 1) - 1 = k /\ g[k] = f[k]
        BY <2>3
      <4>2. QED
        BY <2>3, <4>1
    <3>4. QED
      BY <2>4, <3>1, <3>2, <3>3 DEF Grows
  <2>6. QED
    BY <2>3, <2>5
<1>3. n \in T
  <2> HIDE DEF T
  <2>1. QED
    BY <1>1, <1>2, EachNext
<1>4. QED
  BY <1>3

\* Two sequences, or functions, that are alike up to n.
Alike(v, w, n) == \A m \in 1 .. n : v[m] = w[m]

\* Whatever grows like that grows through natural numbers.
LEMMA GrowsIsNat ==
    ASSUME NEW n \in Nat, NEW z \in Nat, NEW c \in Nat, NEW w, \A m \in 1 .. n : w[m] \in Nat,
           NEW g, Grows(g, n, z, c, w)
    PROVE  \A m \in 0 .. n : g[m] \in Nat
<1> DEFINE T == {m \in Nat : m <= n => g[m] \in Nat}
<1>1. 0 \in T
  BY DEF Grows
<1>2. ASSUME NEW m \in Nat, m \in T PROVE m + 1 \in T
  <2> SUFFICES ASSUME m + 1 <= n PROVE g[m + 1] \in Nat
    OBVIOUS
  <2>1. g[m] \in Nat /\ w[m + 1] \in Nat /\ (m + 1) - 1 = m
    BY <1>2
  <2>2. g[m + 1] = g[m] * c + w[m + 1]
    BY <2>1 DEF Grows
  <2>3. \A a, b \in Nat : a * b \in Nat
    OBVIOUS
  <2>4. g[m] * c \in Nat
    BY <2>1, <2>3
  <2>5. QED
    BY <2>1, <2>2, <2>4
<1>3. Nat \subseteq T
  <2> HIDE DEF T
  <2>1. QED
    BY <1>1, <1>2, EachNext
<1>4. QED
  BY <1>3

\* Two that start alike and grow by the same amounts are alike.
LEMMA GrowsAlike ==
    ASSUME NEW n \in Nat, NEW z, NEW c, NEW w, NEW v, Alike(v, w, n),
           NEW g, Grows(g, n, z, c, w), NEW h, Grows(h, n, z, c, v)
    PROVE  \A m \in 0 .. n : h[m] = g[m]
<1> DEFINE T == {m \in Nat : m <= n => h[m] = g[m]}
<1>1. 0 \in T
  BY DEF Grows
<1>2. ASSUME NEW m \in Nat, m \in T PROVE m + 1 \in T
  <2> SUFFICES ASSUME m + 1 <= n PROVE h[m + 1] = g[m + 1]
    OBVIOUS
  <2>1. m + 1 \in 1 .. n /\ (m + 1) - 1 = m /\ h[m] = g[m]
    BY <1>2
  <2>2. g[m + 1] = g[m] * c + w[m + 1] /\ h[m + 1] = h[m] * c + v[m + 1]
    BY <2>1 DEF Grows
  <2>3. v[m + 1] = w[m + 1]
    BY <2>1 DEF Alike
  <2>4. QED
    BY <2>1, <2>2, <2>3
<1>3. Nat \subseteq T
  <2> HIDE DEF T
  <2>1. QED
    BY <1>1, <1>2, EachNext
<1>4. QED
  BY <1>3

\* What the bytes of the n outermost lists are: the recursive function of ListBytes
\* exists and adds.
LEMMA ListBytesGrow ==
    ASSUME NEW stack \in Seq(Nat)
    PROVE  \E g : Grows(g, Len(stack), 0, 1, stack) /\ \A n : ListBytes(stack, n) = g[n]
<1> DEFINE Adds(g) == g = [m \in 0 .. Len(stack) |-> IF m = 0 THEN 0 ELSE g[m - 1] + stack[m]]
           sum == CHOOSE g : Adds(g)
<1>1. \A n : ListBytes(stack, n) = sum[n]
  BY DEF ListBytes
<1>2. Len(stack) \in Nat /\ \A m \in 1 .. Len(stack) : stack[m] \in Nat
  OBVIOUS
<1>3. PICK f \in [0 .. Len(stack) -> Nat] : Grows(f, Len(stack), 0, 1, stack)
  BY <1>2, GrowsExists
<1>4. Adds(f)
  <2> DEFINE a == [m \in 0 .. Len(stack) |-> IF m = 0 THEN 0 ELSE f[m - 1] + stack[m]]
  <2>1. ASSUME NEW m \in 0 .. Len(stack) PROVE f[m] = a[m]
    <3>1. CASE m = 0
      BY <1>3, <3>1 DEF Grows
    <3>2. CASE m # 0
      <4>1. m \in 1 .. Len(stack) /\ m - 1 \in 0 .. Len(stack)
        BY <3>2, <1>2
      <4>2. f[m - 1] \in Nat
        BY <4>1
      <4>3. f[m] = f[m - 1] * 1 + stack[m]
        BY <1>3, <4>1 DEF Grows
      <4>4. QED
        BY <3>2, <4>2, <4>3
    <3>3. QED
      BY <3>1, <3>2
  <2>2. f = a
    BY <2>1
  <2>3. QED
    BY <2>2
<1>5. Adds(sum)
  <2> HIDE DEF Adds
  <2>1. QED
    BY <1>4
<1>6. Grows(sum, Len(stack), 0, 1, stack)
  <2> HIDE DEF sum
  <2>1. sum[0] = 0 /\ \A m \in 1 .. Len(stack) : sum[m] = sum[m - 1] + stack[m]
    <3>1. \A m \in 0 .. Len(stack) : sum[m] = IF m = 0 THEN 0 ELSE sum[m - 1] + stack[m]
      BY <1>5
    <3>2. QED
      BY <1>2, <3>1
  <2> DEFINE T == {m \in Nat : m <= Len(stack) => sum[m] \in Nat}
  <2>2. 0 \in T
    BY <2>1
  <2>3. ASSUME NEW m \in Nat, m \in T PROVE m + 1 \in T
    <3> SUFFICES ASSUME m + 1 <= Len(stack) PROVE sum[m + 1] \in Nat
      OBVIOUS
    <3>1. m + 1 \in 1 .. Len(stack) /\ (m + 1) - 1 = m /\ sum[m] \in Nat
      BY <1>2, <2>3
    <3>2. sum[m + 1] = sum[(m + 1) - 1] + stack[m + 1] /\ stack[m + 1] \in Nat
      BY <1>2, <2>1, <3>1
    <3>3. sum[m + 1] = sum[m] + stack[m + 1]
      BY <3>1, <3>2
    <3>4. QED
      BY <3>1, <3>2, <3>3
  <2>4. Nat \subseteq T
    <3> HIDE DEF T
    <3>1. QED
      BY <2>2, <2>3, EachNext
  <2>5. ASSUME NEW m \in 1 .. Len(stack) PROVE sum[m] = sum[m - 1] * 1 + stack[m]
    <3>1. m - 1 \in Nat /\ m - 1 <= Len(stack)
      BY <1>2
    <3>2. sum[m - 1] \in Nat
      BY <2>4, <3>1
    <3>3. QED
      BY <2>1, <3>2
  <2>6. QED
    BY <2>1, <2>5 DEF Grows
<1>7. QED
  BY <1>1, <1>6

\* The bytes of the lists are natural numbers that add up, and only depend on the lists counted.
LEMMA ListBytesAdd ==
    ASSUME NEW stack \in Seq(Nat)
    PROVE  /\ \A n \in 0 .. Len(stack) : ListBytes(stack, n) \in Nat
           /\ ListBytes(stack, 0) = 0
           /\ \A n \in 1 .. Len(stack) : ListBytes(stack, n) = ListBytes(stack, n - 1) + stack[n]
<1>1. PICK g : Grows(g, Len(stack), 0, 1, stack) /\ \A n : ListBytes(stack, n) = g[n]
  BY ListBytesGrow
<1>2. Len(stack) \in Nat /\ \A m \in 1 .. Len(stack) : stack[m] \in Nat
  OBVIOUS
<1>3. \A n \in 0 .. Len(stack) : g[n] \in Nat
  BY <1>1, <1>2, GrowsIsNat
<1>4. \A n \in 1 .. Len(stack) : g[n - 1] \in Nat
  <2>1. \A n \in 1 .. Len(stack) : n - 1 \in 0 .. Len(stack)
    BY <1>2
  <2>2. QED
    BY <1>3, <2>1
<1>5. \A n \in 1 .. Len(stack) : g[n] = g[n - 1] * 1 + stack[n]
  BY <1>1 DEF Grows
<1>6. g[0] = 0
  BY <1>1 DEF Grows
<1>7. \A n \in 1 .. Len(stack) : g[n] = g[n - 1] + stack[n]
  BY <1>2, <1>4, <1>5
<1>8. QED
  BY <1>1, <1>3, <1>6, <1>7

\* Stacks that agree in their first k sizes have the same sums up to k.
LEMMA ListBytesAlike ==
    ASSUME NEW s \in Seq(Nat), NEW t \in Seq(Nat), NEW k \in Nat, k <= Len(s), k <= Len(t),
           \A m \in 1 .. k : s[m] = t[m]
    PROVE  \A n \in 0 .. k : ListBytes(s, n) = ListBytes(t, n)
<1>1. PICK g : Grows(g, Len(s), 0, 1, s) /\ \A n : ListBytes(s, n) = g[n]
  BY ListBytesGrow
<1>2. PICK h : Grows(h, Len(t), 0, 1, t) /\ \A n : ListBytes(t, n) = h[n]
  BY ListBytesGrow
<1>3. Len(s) \in Nat /\ Len(t) \in Nat /\ \A m \in 1 .. k : s[m] \in Nat
  OBVIOUS
<1>4. Grows(g, k, 0, 1, s) /\ Grows(h, k, 0, 1, t)
  <2>1. \A m \in 1 .. k : m \in 1 .. Len(s) /\ m \in 1 .. Len(t)
    BY <1>3
  <2>2. QED
    BY <1>1, <1>2, <2>1 DEF Grows
<1>5. Alike(t, s, k)
  BY DEF Alike
<1>6. \A m \in 0 .. k : h[m] = g[m]
  BY <1>4, <1>5, GrowsAlike
<1>7. QED
  BY <1>1, <1>2, <1>6

(***************************************************************************)
(* Numbers of several bytes.                                               *)
(***************************************************************************)

\* The tags of the four kinds of header, in their order.
LEMMA TagsOrdered ==
    /\ Single \in Nat /\ Short \in Nat /\ Long \in Nat /\ IntBuf \in Nat /\ Radix \in Nat
    /\ Single > 0 /\ Short > 0 /\ Long > 0 /\ IntBuf > 0 /\ Radix > 1
    /\ Long < Short /\ Short <= Single
    /\ StringTag \in Nat /\ LongStringTag \in Nat /\ ListTag \in Nat /\ LongListTag \in Nat
    /\ StringTag = Single /\ LongStringTag = Single + Short - 1 /\ ListTag = Single + Short + Long
    /\ LongListTag = Single + 2 * Short + Long - 1 /\ Radix = Single + 2 * Short + 2 * Long
BY RlpAssumption DEF Radix, LongListTag, ListTag, LongStringTag, StringTag

\* Products keep the order of natural numbers.
LEMMA ProductOrder ==
    ASSUME NEW a \in Nat, NEW b \in Nat, NEW c \in Nat, a <= b
    PROVE  a * c \in Nat /\ b * c \in Nat /\ a * c <= b * c
<1>1. b = a + (b - a) /\ b - a \in Nat
  OBVIOUS
<1>2. \A x, y \in Nat : x * y \in Nat
  OBVIOUS
<1>3. a * c \in Nat /\ (b - a) * c \in Nat /\ b * c \in Nat
  BY <1>1, <1>2
<1>4. b * c = a * c + (b - a) * c
  <2>1. \A x, y, z \in Nat : (x + y) * z = x * z + y * z
    OBVIOUS
  <2>2. (a + (b - a)) * c = a * c + (b - a) * c
    BY <1>1, <2>1
  <2>3. QED
    BY <1>1, <2>2
<1>5. QED
  BY <1>3, <1>4

\* Capacity[m] is the number of values that m bytes can have.
LEMMA CapacityGrows ==
    /\ \A m \in 0 .. Long : Capacity[m] \in Nat
    /\ Capacity[0] = 1
    /\ \A m \in 1 .. Long : Capacity[m] = Capacity[m - 1] * Radix
<1> DEFINE zero == [m \in 1 .. Long |-> 0]
           Is(g) == g = [m \in 0 .. Long |-> IF m = 0 THEN 1 ELSE g[m - 1] * Radix]
<1>1. Radix \in Nat /\ Long \in Nat
  BY TagsOrdered
<1>2. PICK f \in [0 .. Long -> Nat] : Grows(f, Long, 1, Radix, zero)
  BY <1>1, GrowsExists
<1>3. \A m \in 1 .. Long : m - 1 \in 0 .. Long
  BY <1>1
<1>4. \A x, y \in Nat : x * y \in Nat /\ x * y + 0 = x * y
  OBVIOUS
<1>5. f[0] = 1 /\ \A m \in 1 .. Long : f[m] = f[m - 1] * Radix
  <2>1. \A m \in 1 .. Long : f[m] = f[m - 1] * Radix + 0 /\ f[m - 1] \in Nat
    BY <1>2, <1>3 DEF Grows
  <2>2. QED
    BY <1>1, <1>2, <1>4, <2>1 DEF Grows
<1>6. Is(f)
  <2> DEFINE a == [m \in 0 .. Long |-> IF m = 0 THEN 1 ELSE f[m - 1] * Radix]
  <2>1. \A m \in 0 .. Long : f[m] = a[m]
    BY <1>1, <1>5
  <2>2. f = a
    BY <2>1
  <2>3. QED
    BY <2>2
<1>7. Is(CHOOSE g : Is(g))
  <2> HIDE DEF Is
  <2>1. QED
    BY <1>6
<1>8. Capacity = CHOOSE g : Is(g)
  BY DEF Capacity
<1>9. Capacity[0] = 1 /\ \A m \in 1 .. Long : Capacity[m] = Capacity[m - 1] * Radix
  <2>1. Is(Capacity)
    BY <1>7, <1>8
  <2>2. \A m \in 0 .. Long : Capacity[m] = IF m = 0 THEN 1 ELSE Capacity[m - 1] * Radix
    BY <2>1
  <2>3. QED
    BY <1>1, <2>2
<1>10. \A m \in 0 .. Long : Capacity[m] = f[m]
  <2> DEFINE T == {m \in Nat : m <= Long => Capacity[m] = f[m]}
  <2>1. 0 \in T
    BY <1>5, <1>9
  <2>2. ASSUME NEW m \in Nat, m \in T PROVE m + 1 \in T
    <3> SUFFICES ASSUME m + 1 <= Long PROVE Capacity[m + 1] = f[m + 1]
      OBVIOUS
    <3>1. m + 1 \in 1 .. Long /\ (m + 1) - 1 = m /\ Capacity[m] = f[m]
      BY <1>1, <2>2
    <3>2. QED
      BY <1>5, <1>9, <3>1
  <2>3. Nat \subseteq T
    <3> HIDE DEF T
    <3>1. QED
      BY <2>1, <2>2, EachNext
  <2>4. QED
    BY <2>3
<1>11. QED
  BY <1>9, <1>10

\* A number of n bytes, n at most Long, fits in a uint64.
LEMMA CapacityWithin ==
    /\ Uint64 \in Nat /\ Radix <= Uint64
    /\ \A n \in 0 .. Long : Capacity[n] \in Nat /\ Capacity[n] > 0 /\ Capacity[n] <= Uint64
<1>1. Radix \in Nat /\ Radix > 1 /\ Long \in Nat /\ Long > 0
  BY TagsOrdered
<1> DEFINE Up == {m \in Nat : m <= Long => Capacity[m] > 0}
           Down == {m \in Nat : m <= Long => Capacity[Long - m] <= Uint64}
<1>2. 0 \in Up
  BY CapacityGrows
<1>3. ASSUME NEW m \in Nat, m \in Up PROVE m + 1 \in Up
  <2> SUFFICES ASSUME m + 1 <= Long PROVE Capacity[m + 1] > 0
    OBVIOUS
  <2>1. m + 1 \in 1 .. Long /\ m \in 0 .. Long /\ (m + 1) - 1 = m
    BY <1>1
  <2>2. Capacity[m + 1] = Capacity[m] * Radix /\ Capacity[m] \in Nat /\ 1 <= Capacity[m]
    BY <1>3, <2>1, CapacityGrows
  <2>3. 1 * Radix <= Capacity[m] * Radix /\ Capacity[m] * Radix \in Nat
    BY <1>1, <2>2, ProductOrder
  <2>4. QED
    BY <1>1, <2>2, <2>3
<1>4. Nat \subseteq Up
  <2> HIDE DEF Up
  <2>1. QED
    BY <1>2, <1>3, EachNext
<1>5. 0 \in Down
  BY <1>1, CapacityGrows DEF Uint64
<1>6. ASSUME NEW m \in Nat, m \in Down PROVE m + 1 \in Down
  <2> SUFFICES ASSUME m + 1 <= Long PROVE Capacity[Long - (m + 1)] <= Uint64
    OBVIOUS
  <2> DEFINE k == Long - (m + 1)
  <2>1. k \in 0 .. Long /\ k + 1 \in 1 .. Long /\ (k + 1) - 1 = k /\ k + 1 = Long - m
    BY <1>1
  <2>2. Capacity[Long - m] <= Uint64
    <3>1. m <= Long
      BY <1>1
    <3>2. QED
      BY <1>6, <3>1
  <2> HIDE DEF k
  <2>3. Capacity[k + 1] = Capacity[k] * Radix /\ Capacity[k] \in Nat /\ Capacity[k + 1] \in Nat /\ Uint64 \in Nat
    BY <1>1, <2>1, CapacityGrows DEF Uint64
  <2>4. 1 * Capacity[k] <= Radix * Capacity[k]
    BY <1>1, <2>3, ProductOrder
  <2>5. Radix * Capacity[k] = Capacity[k] * Radix /\ 1 * Capacity[k] = Capacity[k]
    BY <1>1, <2>3
  <2>6. Capacity[k] <= Uint64
    BY <2>1, <2>2, <2>3, <2>4, <2>5
  <2>7. QED
    BY <2>6 DEF k
<1>7. Nat \subseteq Down
  <2> HIDE DEF Down
  <2>1. QED
    BY <1>5, <1>6, EachNext
<1>8. ASSUME NEW n \in 0 .. Long PROVE Capacity[n] \in Nat /\ Capacity[n] > 0 /\ Capacity[n] <= Uint64
  <2>1. n \in Nat /\ n <= Long /\ Long - n \in Nat /\ Long - n <= Long /\ Long - (Long - n) = n
    BY <1>1
  <2>2. Capacity[n] > 0
    BY <1>4, <2>1
  <2>3. Capacity[Long - (Long - n)] <= Uint64
    BY <1>7, <2>1
  <2>4. QED
    BY <2>1, <2>2, <2>3, CapacityGrows
<1>9. Capacity[1] = Radix
  <2>1. 1 \in 1 .. Long
    BY <1>1
  <2>2. Capacity[1] = Capacity[1 - 1] * Radix
    BY <2>1, CapacityGrows
  <2>3. QED
    BY <1>1, <2>2, CapacityGrows
<1>10. QED
  <2>1. 1 \in 0 .. Long /\ Long \in 0 .. Long
    BY <1>1
  <2>2. QED
    BY <1>8, <1>9, <2>1 DEF Uint64

\* What a sequence of bytes holds.
LEMMA BytesOf ==
    ASSUME NEW b \in Seq(Byte)
    PROVE  Len(b) \in Nat /\ \A m \in 1 .. Len(b) : b[m] \in Byte /\ b[m] \in Nat /\ b[m] <= Radix - 1
<1>1. Len(b) \in Nat /\ \A m \in 1 .. Len(b) : b[m] \in Byte
  OBVIOUS
<1>2. \A x \in Byte : x \in Nat /\ x <= Radix - 1
  BY TagsOrdered DEF Byte
<1>3. QED
  BY <1>1, <1>2

\* The recursive function of BigEndian exists.
LEMMA BigEndianGrows ==
    ASSUME NEW b \in Seq(Byte)
    PROVE  \E g : Grows(g, Len(b), 0, Radix, b) /\ BigEndian(b) = g[Len(b)]
<1> DEFINE Is(g) == g = [n \in 0 .. Len(b) |-> IF n = 0 THEN 0 ELSE g[n - 1] * Radix + b[n]]
           value == CHOOSE g : Is(g)
<1>1. BigEndian(b) = value[Len(b)]
  BY DEF BigEndian
<1>2. Len(b) \in Nat /\ Radix \in Nat /\ \A m \in 1 .. Len(b) : b[m] \in Nat
  BY TagsOrdered, BytesOf
<1>3. PICK f \in [0 .. Len(b) -> Nat] : Grows(f, Len(b), 0, Radix, b)
  BY <1>2, GrowsExists
<1>4. Is(f)
  <2> DEFINE a == [m \in 0 .. Len(b) |-> IF m = 0 THEN 0 ELSE f[m - 1] * Radix + b[m]]
  <2>1. \A m \in 0 .. Len(b) : f[m] = a[m]
    BY <1>2, <1>3 DEF Grows
  <2>2. f = a
    BY <2>1
  <2>3. QED
    BY <2>2
<1>5. Is(value)
  <2> HIDE DEF Is
  <2>1. QED
    BY <1>4
<1>6. Grows(value, Len(b), 0, Radix, b)
  <2> HIDE DEF value
  <2>1. \A m \in 0 .. Len(b) : value[m] = IF m = 0 THEN 0 ELSE value[m - 1] * Radix + b[m]
    BY <1>5
  <2>2. QED
    BY <1>2, <2>1 DEF Grows
<1>7. QED
  BY <1>1, <1>6

\* A number read from a few bytes fits in them.
LEMMA BigEndianFits ==
    ASSUME NEW b \in Seq(Byte)
    PROVE  /\ BigEndian(b) \in Nat
           /\ Len(b) <= Long => BigEndian(b) < Capacity[Len(b)]
<1>1. PICK g : Grows(g, Len(b), 0, Radix, b) /\ BigEndian(b) = g[Len(b)]
  BY BigEndianGrows
<1>2. Len(b) \in Nat /\ Radix \in Nat /\ \A m \in 1 .. Len(b) : b[m] \in Nat /\ b[m] <= Radix - 1
  BY TagsOrdered, BytesOf
<1>3. \A m \in 0 .. Len(b) : g[m] \in Nat
  BY <1>1, <1>2, GrowsIsNat
<1>4. ASSUME Len(b) <= Long PROVE g[Len(b)] < Capacity[Len(b)]
  <2> DEFINE T == {m \in Nat : m <= Len(b) => g[m] < Capacity[m]}
  <2>1. 0 \in T
    BY <1>1, CapacityGrows DEF Grows
  <2>2. ASSUME NEW m \in Nat, m \in T PROVE m + 1 \in T
    <3> SUFFICES ASSUME m + 1 <= Len(b) PROVE g[m + 1] < Capacity[m + 1]
      OBVIOUS
    <3>1. /\ m + 1 \in 1 .. Len(b) /\ m \in 0 .. Len(b) /\ (m + 1) - 1 = m /\ g[m] < Capacity[m]
          /\ m + 1 \in 1 .. Long /\ m \in 0 .. Long /\ Long \in Nat
      BY <1>2, <1>4, <2>2, TagsOrdered
    <3>2. /\ g[m + 1] = g[m] * Radix + b[m + 1] /\ Capacity[m + 1] = Capacity[m] * Radix
          /\ g[m] \in Nat /\ Capacity[m] \in Nat /\ b[m + 1] \in Nat /\ b[m + 1] <= Radix - 1
      BY <1>1, <1>2, <1>3, <3>1, CapacityGrows DEF Grows
    <3> DEFINE x == g[m]
               y == Capacity[m]
    <3>3. x \in Nat /\ x + 1 \in Nat /\ y \in Nat /\ x + 1 <= y
      BY <3>1, <3>2
    <3> HIDE DEF x, y
    <3>4. (x + 1) * Radix <= y * Radix /\ y * Radix \in Nat
      BY <1>2, <3>3, ProductOrder
    <3>5. (x + 1) * Radix = x * Radix + Radix /\ x * Radix \in Nat
      <4>1. \A u, v \in Nat : (u + 1) * v = u * v + v /\ u * v \in Nat
        OBVIOUS
      <4>2. QED
        BY <1>2, <3>3, <4>1
    <3>6. x * Radix + b[m + 1] < y * Radix
      BY <1>2, <3>2, <3>4, <3>5
    <3>7. QED
      BY <3>2, <3>6 DEF x, y
  <2>3. Nat \subseteq T
    <3> HIDE DEF T
    <3>1. QED
      BY <2>1, <2>2, EachNext
  <2>4. QED
    BY <1>2, <2>3
<1>5. QED
  BY <1>1, <1>2, <1>3, <1>4


(***************************************************************************)
(* A Stream that reads.                                                    *)
(***************************************************************************)

\* what a uint64 holds
Lengths == 0 .. Uint64 - 1

Errors == {"nil", "EOL", "EOF", "ElemTooLarge", "ValueTooLarge", "UnexpectedEOF", "CanonSize", "CanonInt"}

Streams ==
    [in : Seq(Byte), remaining : Nat, limited : BOOLEAN, stack : Seq(Lengths),
     kind : {"none", "Byte", "String", "List"}, size : Lengths, kinderr : Errors, byteval : Byte]

\* the limits after n bytes
Lowered(stack, n) == IF stack = <<>> THEN <<>> ELSE [stack EXCEPT ![Len(stack)] = @ - n]

\* the stream t is s after n bytes, without what is ahead
HasRead(s, t, n) ==
    /\ t \in Streams
    /\ Len(t.in) = Len(s.in) - n
    /\ t.stack = Lowered(s.stack, n) /\ (s.stack # <<>> => n <= s.stack[Len(s.stack)])
    /\ t.limited = s.limited /\ (s.limited => n <= s.remaining)
    /\ t.remaining = IF s.limited THEN s.remaining - n ELSE s.remaining
    /\ t.size = s.size /\ t.kinderr = s.kinderr /\ t.byteval = s.byteval

\* The size of the innermost list.
LEMMA LastIs == \A s : Last(s) = s[Len(s)]
BY DEF Last

\* Lowering the innermost size keeps the stack a stack of sizes.
LEMMA LoweredIsSeq ==
    ASSUME NEW stack \in Seq(Lengths), NEW n \in Nat, stack # <<>> => n <= stack[Len(stack)]
    PROVE  /\ Lowered(stack, n) \in Seq(Lengths)
           /\ Len(Lowered(stack, n)) = Len(stack)
           /\ \A i \in 1 .. Len(stack) : Lowered(stack, n)[i] = IF i = Len(stack) THEN stack[i] - n ELSE stack[i]
<1>1. CASE stack = <<>>
  BY <1>1 DEF Lowered
<1>2. CASE stack # <<>>
  <2> DEFINE new == stack[Len(stack)] - n
  <2>1. Len(stack) \in Nat /\ Len(stack) \in 1 .. Len(stack) /\ stack[Len(stack)] \in Lengths
    BY <1>2, EmptySeq, LenProperties
  <2>2. new \in Lengths
    BY <1>2, <2>1, CapacityWithin DEF Lengths
  <2> HIDE DEF new
  <2>3. Lowered(stack, n) = [stack EXCEPT ![Len(stack)] = new]
    BY <1>2 DEF Lowered, new
  <2>4. [stack EXCEPT ![Len(stack)] = new] \in Seq(Lengths)
    BY <2>1, <2>2, ExceptSeq
  <2>5. QED
    BY <2>1, <2>2, <2>3, <2>4 DEF new
<1>3. QED
  BY <1>1, <1>2

\* willRead that succeeds charges the innermost list and the limit of the input.
LEMMA willReadNil ==
    ASSUME NEW s \in Streams, NEW n \in Nat, willRead(s, n).err = "nil"
    PROVE  /\ willRead(s, n).s = [s EXCEPT !.kind = "none", !.stack = Lowered(s.stack, n),
                                          !.remaining = IF s.limited THEN s.remaining - n ELSE s.remaining]
           /\ s.stack # <<>> => n <= s.stack[Len(s.stack)]
           /\ s.limited => n <= s.remaining
<1> DEFINE armed == [s EXCEPT !.kind = "none"]
           counted == IF InList(s) THEN [armed EXCEPT !.stack[Len(s.stack)] = @ - n] ELSE armed
           low == IF s.limited THEN [counted EXCEPT !.remaining = @ - n] ELSE counted
           large == InList(s) /\ n > listLimit(s)
           beyond == (~InList(s) \/ n <= listLimit(s)) /\ s.limited /\ n > s.remaining
<1>1. willRead(s, n) = CASE large -> Result(armed, 0, "ElemTooLarge")
                         [] beyond -> Result(counted, 0, "ValueTooLarge")
                         [] OTHER -> Result(low, 0, "nil")
  BY DEF willRead
<1>2. InList(s) <=> s.stack # <<>>
  BY DEF InList
<1>3. InList(s) => (listLimit(s) = s.stack[Len(s.stack)] /\ listLimit(s) \in Nat)
  <2> SUFFICES ASSUME InList(s) PROVE listLimit(s) = s.stack[Len(s.stack)] /\ listLimit(s) \in Nat
    OBVIOUS
  <2>1. s.stack \in Seq(Lengths) /\ s.stack # <<>>
    BY <1>2 DEF Streams
  <2>2. s.stack[Len(s.stack)] \in Lengths
    BY <2>1, EmptySeq, LenProperties
  <2>3. QED
    BY <2>2, LastIs, CapacityWithin DEF listLimit, Lengths
<1>4. s.limited \in BOOLEAN /\ s.remaining \in Nat
  BY DEF Streams
<1>5. counted = [s EXCEPT !.kind = "none", !.stack = Lowered(s.stack, n)]
  <2>1. CASE InList(s)
    <3>1. Lowered(s.stack, n) = [s.stack EXCEPT ![Len(s.stack)] = @ - n]
      BY <1>2, <2>1 DEF Lowered
    <3>2. QED
      BY <2>1, <3>1 DEF Streams
  <2>2. CASE ~InList(s)
    <3>1. Lowered(s.stack, n) = s.stack
      BY <1>2, <2>2 DEF Lowered
    <3>2. QED
      BY <2>2, <3>1 DEF Streams
  <2>3. QED
    BY <2>1, <2>2
<1>6. low = [s EXCEPT !.kind = "none", !.stack = Lowered(s.stack, n),
                      !.remaining = IF s.limited THEN s.remaining - n ELSE s.remaining]
  <2> HIDE DEF counted
  <2>1. QED
    BY <1>5 DEF Streams
<1> HIDE DEF armed, counted, low
<1>7. ~large /\ ~beyond
  <2> HIDE DEF large, beyond
  <2>1. (large => willRead(s, n).err = "ElemTooLarge") /\ ((~large /\ beyond) => willRead(s, n).err = "ValueTooLarge")
    BY <1>1 DEF Result
  <2>2. QED
    BY <2>1
<1>8. willRead(s, n).s = low
  <2> HIDE DEF large, beyond
  <2>1. QED
    BY <1>1, <1>7 DEF Result
<1>9. QED
  BY <1>2, <1>3, <1>4, <1>6, <1>7, <1>8

\* A read without an error takes its bytes from the reader and from the limits.
LEMMA readFullNil ==
    ASSUME NEW s \in Streams, NEW n \in Nat, readFull(s, n).err = "nil"
    PROVE  /\ HasRead(s, readFull(s, n).s, n) /\ readFull(s, n).s.kind = "none"
           /\ n <= Len(s.in) /\ readFull(s, n).v = SubSeq(s.in, 1, n)
<1> DEFINE w == willRead(s, n)
           t == [w.s EXCEPT !.in = SubSeq(w.s.in, n + 1, Len(w.s.in))]
<1>1. readFull(s, n) = IF w.err # "nil" THEN Result(w.s, <<>>, w.err)
                       ELSE IF n > Len(w.s.in) THEN Result([w.s EXCEPT !.in = <<>>], <<>>, "UnexpectedEOF")
                       ELSE Result(t, SubSeq(w.s.in, 1, n), "nil")
  BY DEF readFull, Then
<1>2. w.err = "nil" /\ ~(n > Len(w.s.in)) /\ readFull(s, n) = Result(t, SubSeq(w.s.in, 1, n), "nil")
  <2> HIDE DEF w, t
  <2>1. QED
    BY <1>1 DEF Result
<1>3. /\ w.s = [s EXCEPT !.kind = "none", !.stack = Lowered(s.stack, n),
                         !.remaining = IF s.limited THEN s.remaining - n ELSE s.remaining]
      /\ s.stack # <<>> => n <= s.stack[Len(s.stack)]
      /\ s.limited => n <= s.remaining
  BY <1>2, willReadNil
<1> HIDE DEF w
<1>4. w.s.in = s.in /\ s.in \in Seq(Byte) /\ Len(s.in) \in Nat /\ n <= Len(s.in)
  BY <1>2, <1>3 DEF Streams
<1> DEFINE rest == SubSeq(s.in, n + 1, Len(s.in))
<1>5. rest \in Seq(Byte) /\ Len(rest) = Len(s.in) - n
  <2>1. n + 1 \in 1 .. Len(s.in) + 1 /\ Len(s.in) \in n + 1 - 1 .. Len(s.in)
    BY <1>4
  <2>2. QED
    BY <1>4, <2>1, SubSeqProperties
<1>6. Lowered(s.stack, n) \in Seq(Lengths)
  BY <1>3, LoweredIsSeq DEF Streams
<1> DEFINE left == IF s.limited THEN s.remaining - n ELSE s.remaining
<1>7. left \in Nat
  BY <1>3 DEF Streams
<1>8. t = [s EXCEPT !.kind = "none", !.stack = Lowered(s.stack, n), !.remaining = left, !.in = rest]
  BY <1>3, <1>4 DEF Streams
<1> HIDE DEF rest, left, t
<1>9. t \in Streams /\ t.in = rest /\ t.stack = Lowered(s.stack, n) /\ t.remaining = left /\ t.limited = s.limited
      /\ t.size = s.size /\ t.kinderr = s.kinderr /\ t.byteval = s.byteval /\ t.kind = "none"
  BY <1>5, <1>6, <1>7, <1>8 DEF Streams
<1>10. HasRead(s, t, n)
  BY <1>3, <1>5, <1>9 DEF HasRead, left
<1>11. QED
  BY <1>2, <1>4, <1>9, <1>10 DEF Result

\* readByte that succeeds takes the next byte.
LEMMA readByteNil ==
    ASSUME NEW s \in Streams, readByte(s).err = "nil"
    PROVE  /\ HasRead(s, readByte(s).s, 1) /\ readByte(s).s.kind = "none"
           /\ readByte(s).v \in Byte /\ Len(s.in) >= 1 /\ readByte(s).v = s.in[1]
<1> DEFINE r == readFull(s, 1)
<1>1. readByte(s) = IF r.err # "nil" THEN Result(r.s, 0, r.err) ELSE Result(r.s, r.v[1], "nil")
  BY DEF readByte, Then
<1>2. r.err = "nil" /\ readByte(s) = Result(r.s, r.v[1], "nil")
  <2> HIDE DEF r
  <2>1. QED
    BY <1>1 DEF Result
<1>3. HasRead(s, r.s, 1) /\ r.s.kind = "none" /\ 1 <= Len(s.in) /\ r.v = SubSeq(s.in, 1, 1)
  BY <1>2, readFullNil
<1>4. s.in \in Seq(Byte) /\ Len(s.in) \in Nat
  BY DEF Streams
<1>5. SubSeq(s.in, 1, 1)[1] = s.in[1] /\ s.in[1] \in Byte
  BY <1>3, <1>4
<1> HIDE DEF r
<1>6. QED
  BY <1>2, <1>3, <1>5 DEF Result

\* A number read without an error fits in its bytes.
LEMMA readUintNil ==
    ASSUME NEW s \in Streams, NEW n \in 1 .. Long, readUint(s, n).err = "nil"
    PROVE  /\ HasRead(s, readUint(s, n).s, n) /\ readUint(s, n).s.kind = "none"
           /\ readUint(s, n).v \in Lengths
<1>0. n \in Nat /\ n # 0 /\ n <= Long /\ Long \in Nat
  BY TagsOrdered
<1>1. CASE n = 1
  <2>1. readUint(s, n) = readByte(s)
    BY <1>0, <1>1 DEF readUint
  <2>2. readByte(s).v \in Lengths
    <3>1. readByte(s).v \in Byte
      BY <2>1, readByteNil
    <3>2. QED
      BY <3>1, CapacityWithin, TagsOrdered DEF Byte, Lengths
  <2>3. QED
    BY <1>1, <2>1, <2>2, readByteNil
<1>2. CASE n # 1
  <2> DEFINE r == readFull(s, n)
  <2>1. readUint(s, n) = IF r.err # "nil" THEN Result(r.s, 0, r.err)
                         ELSE IF r.v[1] = 0 THEN Result(r.s, 0, "CanonSize")
                         ELSE Result(r.s, BigEndian(r.v), "nil")
    BY <1>0, <1>2 DEF readUint, Then
  <2>2. r.err = "nil" /\ readUint(s, n) = Result(r.s, BigEndian(r.v), "nil")
    <3> HIDE DEF r
    <3>1. QED
      BY <2>1 DEF Result
  <2>3. HasRead(s, r.s, n) /\ r.s.kind = "none" /\ n <= Len(s.in) /\ r.v = SubSeq(s.in, 1, n)
    BY <1>0, <2>2, readFullNil
  <2>4. r.v \in Seq(Byte) /\ Len(r.v) = n
    <3>1. s.in \in Seq(Byte) /\ Len(s.in) \in Nat
      BY DEF Streams
    <3>2. 1 \in 1 .. Len(s.in) + 1 /\ n \in 1 - 1 .. Len(s.in)
      BY <1>0, <2>3, <3>1
    <3>3. SubSeq(s.in, 1, n) \in Seq(Byte) /\ Len(SubSeq(s.in, 1, n)) = n - 1 + 1
      BY <3>1, <3>2, SubSeqProperties
    <3>4. QED
      BY <1>0, <2>3, <3>3
  <2> HIDE DEF r
  <2>5. BigEndian(r.v) \in Nat /\ BigEndian(r.v) < Capacity[n]
    BY <1>0, <2>4, BigEndianFits
  <2>6. Capacity[n] \in Nat /\ Capacity[n] <= Uint64 /\ Uint64 \in Nat
    BY <1>0, CapacityWithin
  <2>7. BigEndian(r.v) \in Lengths
    BY <2>5, <2>6 DEF Lengths
  <2>8. QED
    BY <2>2, <2>3, <2>7 DEF Result
<1>3. QED
  BY <1>1, <1>2

(***************************************************************************)
(* The open lists of a Stream.                                             *)
(***************************************************************************)

\* The lists of s end at e, for an input of length n, and within what s may read.
Lists(s, n, e) ==
    LET depth == Len(s.stack)
    IN  /\ Len(e) = depth
        /\ \A i \in 1 .. depth :
               e[i] = n - Len(s.in) + (ListBytes(s.stack, depth) - ListBytes(s.stack, i - 1))
        /\ s.limited => ListBytes(s.stack, depth) <= s.remaining

\* The stack of a Stream, as a sequence of numbers.
LEMMA StackIsSeq ==
    ASSUME NEW s \in Streams
    PROVE  s.stack \in Seq(Lengths) /\ s.stack \in Seq(Nat) /\ Len(s.stack) \in Nat
<1>1. Lengths \subseteq Nat
  BY CapacityWithin DEF Lengths
<1>2. s.stack \in Seq(Lengths)
  BY DEF Streams
<1>3. s.stack \in Seq(Nat)
  BY <1>1, <1>2, SeqMonotonic
<1>4. QED
  BY <1>2, <1>3

\* What the limits count, the reader has moved.
LEMMA ReadKeepsLists ==
    ASSUME NEW s \in Streams, NEW t, NEW n \in Nat, NEW k \in Nat, NEW e,
           Lists(s, k, e), HasRead(s, t, n)
    PROVE  Lists(t, k, e)
<1> DEFINE d == Len(s.stack)
<1>1. s.stack \in Seq(Lengths) /\ s.stack \in Seq(Nat) /\ d \in Nat
  BY StackIsSeq
<1>2. /\ t \in Streams /\ t.stack = Lowered(s.stack, n) /\ t.limited = s.limited
      /\ s.limited => n <= s.remaining
      /\ t.remaining = IF s.limited THEN s.remaining - n ELSE s.remaining
      /\ Len(t.in) = Len(s.in) - n
      /\ s.stack # <<>> => n <= s.stack[Len(s.stack)]
  BY DEF HasRead
<1>3. t.stack \in Seq(Nat) /\ Len(t.stack) = d
      /\ \A i \in 1 .. d : t.stack[i] = IF i = d THEN s.stack[i] - n ELSE s.stack[i]
  BY <1>1, <1>2, LoweredIsSeq, StackIsSeq
<1>4. Len(s.in) \in Nat /\ Len(t.in) \in Nat /\ s.remaining \in Nat
  BY <1>2 DEF Streams
<1>5. CASE d = 0
  <2>1. ListBytes(t.stack, 0) = 0
    BY <1>3, ListBytesAdd
  <2>2. QED
    BY <1>2, <1>3, <1>4, <1>5, <2>1 DEF Lists
<1>6. CASE d # 0
  <2>1. d - 1 \in Nat /\ d \in 1 .. d /\ d - 1 <= d
    BY <1>1, <1>6
  <2>2. \A m \in 0 .. d - 1 : ListBytes(t.stack, m) = ListBytes(s.stack, m)
    <3>1. ASSUME NEW m \in 1 .. d - 1 PROVE t.stack[m] = s.stack[m]
      <4>1. m \in 1 .. d /\ m # d
        BY <1>1
      <4>2. QED
        BY <1>3, <4>1
    <3> HIDE DEF d
    <3>2. QED
      BY <1>1, <1>3, <2>1, <3>1, ListBytesAlike DEF d
  <2>3. /\ ListBytes(t.stack, d) = ListBytes(t.stack, d - 1) + t.stack[d]
        /\ ListBytes(s.stack, d) = ListBytes(s.stack, d - 1) + s.stack[d]
    BY <1>1, <1>3, <2>1, ListBytesAdd
  <2>4. \A m \in 0 .. d : ListBytes(s.stack, m) \in Nat
    BY <1>1, ListBytesAdd
  <2>5. s.stack[d] \in Nat /\ t.stack[d] = s.stack[d] - n
    BY <1>1, <1>3, <2>1
  <2>6. ListBytes(t.stack, d) = ListBytes(s.stack, d) - n
    <3>1. d - 1 \in 0 .. d - 1 /\ d - 1 \in 0 .. d
      BY <2>1
    <3>2. ListBytes(t.stack, d - 1) = ListBytes(s.stack, d - 1) /\ ListBytes(s.stack, d - 1) \in Nat
      BY <2>2, <2>4, <3>1
    <3>3. QED
      BY <2>3, <2>5, <3>2
  <2>7. \A i \in 1 .. d : i - 1 \in 0 .. d - 1 /\ i - 1 \in 0 .. d
    BY <1>1
  <2>8. \A i \in 1 .. d : ListBytes(t.stack, i - 1) = ListBytes(s.stack, i - 1) /\ ListBytes(s.stack, i - 1) \in Nat
    BY <2>2, <2>4, <2>7
  <2>9. ListBytes(s.stack, d) \in Nat
    BY <1>1, <2>4
  <2>10. /\ Len(e) = d
         /\ \A i \in 1 .. d : e[i] = k - Len(s.in) + (ListBytes(s.stack, d) - ListBytes(s.stack, i - 1))
         /\ s.limited => ListBytes(s.stack, d) <= s.remaining
    BY DEF Lists
  <2> HIDE DEF d
  <2>11. ASSUME NEW i \in 1 .. d
         PROVE  e[i] = k - Len(t.in) + (ListBytes(t.stack, d) - ListBytes(t.stack, i - 1))
    <3> DEFINE x == ListBytes(s.stack, i - 1)
               y == ListBytes(s.stack, d)
    <3>1. x \in Nat /\ y \in Nat /\ e[i] = k - Len(s.in) + (y - x)
      BY <2>8, <2>9, <2>10
    <3>2. ListBytes(t.stack, i - 1) = x /\ ListBytes(t.stack, d) = y - n
      BY <2>6, <2>8
    <3> HIDE DEF x, y
    <3>3. \A p, q, a, b \in Nat : k - p + (b - a) = k - (p - n) + ((b - n) - a)
      OBVIOUS
    <3>4. k - Len(s.in) + (y - x) = k - (Len(s.in) - n) + ((y - n) - x)
      BY <1>4, <3>1, <3>3
    <3>5. QED
      BY <1>2, <3>1, <3>2, <3>4
  <2>12. t.limited => ListBytes(t.stack, d) <= t.remaining
    BY <1>2, <1>4, <2>6, <2>9, <2>10
  <2>13. QED
    BY <1>3, <2>10, <2>11, <2>12 DEF Lists
<1>7. QED
  BY <1>5, <1>6

\* the errors of a read, of which none is harmless
ReadErrors == {"ElemTooLarge", "ValueTooLarge", "UnexpectedEOF", "CanonSize"}

\* The errors of willRead.
LEMMA willReadErr ==
    ASSUME NEW s, NEW n
    PROVE  willRead(s, n).err \in {"nil", "ElemTooLarge", "ValueTooLarge"}
<1> DEFINE armed == [s EXCEPT !.kind = "none"]
           counted == IF InList(s) THEN [armed EXCEPT !.stack[Len(s.stack)] = @ - n] ELSE armed
           low == IF s.limited THEN [counted EXCEPT !.remaining = @ - n] ELSE counted
           large == InList(s) /\ n > listLimit(s)
           beyond == (~InList(s) \/ n <= listLimit(s)) /\ s.limited /\ n > s.remaining
<1>1. willRead(s, n) = CASE large -> Result(armed, 0, "ElemTooLarge")
                         [] beyond -> Result(counted, 0, "ValueTooLarge")
                         [] OTHER -> Result(low, 0, "nil")
  BY DEF willRead
<1> HIDE DEF armed, counted, low, large, beyond
<1>2. QED
  BY <1>1 DEF Result

\* The errors of readFull.
LEMMA readFullErr ==
    ASSUME NEW s, NEW n
    PROVE  readFull(s, n).err \in {"nil", "ElemTooLarge", "ValueTooLarge", "UnexpectedEOF"}
<1> DEFINE w == willRead(s, n)
           t == [w.s EXCEPT !.in = SubSeq(w.s.in, n + 1, Len(w.s.in))]
           u == [w.s EXCEPT !.in = <<>>]
<1>1. readFull(s, n) = IF w.err # "nil" THEN Result(w.s, <<>>, w.err)
                       ELSE IF n > Len(w.s.in) THEN Result(u, <<>>, "UnexpectedEOF")
                       ELSE Result(t, SubSeq(w.s.in, 1, n), "nil")
  BY DEF readFull, Then
<1>2. w.err \in {"nil", "ElemTooLarge", "ValueTooLarge"}
  BY willReadErr
<1> HIDE DEF w, t, u
<1>3. QED
  BY <1>1, <1>2 DEF Result

\* The errors of readByte.
LEMMA readByteErr ==
    ASSUME NEW s
    PROVE  readByte(s).err \in {"nil", "ElemTooLarge", "ValueTooLarge", "UnexpectedEOF"}
<1> DEFINE r == readFull(s, 1)
<1>1. readByte(s) = IF r.err # "nil" THEN Result(r.s, 0, r.err) ELSE Result(r.s, r.v[1], "nil")
  BY DEF readByte, Then
<1>2. r.err \in {"nil", "ElemTooLarge", "ValueTooLarge", "UnexpectedEOF"}
  BY readFullErr
<1> HIDE DEF r
<1>3. QED
  BY <1>1, <1>2 DEF Result

\* The errors of readUint.
LEMMA readUintErr ==
    ASSUME NEW s, NEW n
    PROVE  readUint(s, n).err \in {"nil"} \cup ReadErrors
<1> DEFINE r == readFull(s, n)
           u == IF r.err # "nil" THEN Result(r.s, 0, r.err)
                ELSE IF r.v[1] = 0 THEN Result(r.s, 0, "CanonSize")
                ELSE Result(r.s, BigEndian(r.v), "nil")
<1>1. readUint(s, n) = CASE n = 0 -> Result(Rearm(s), 0, "nil")
                         [] n = 1 -> readByte(s)
                         [] OTHER -> u
  BY DEF readUint, Then
<1>2. r.err \in {"nil", "ElemTooLarge", "ValueTooLarge", "UnexpectedEOF"}
  BY readFullErr
<1>3. u.err \in {"nil"} \cup ReadErrors
  <2> HIDE DEF r
  <2>1. QED
    BY <1>2 DEF Result, ReadErrors
<1>4. Result(Rearm(s), 0, "nil").err = "nil" /\ readByte(s).err \in {"nil"} \cup ReadErrors
  BY readByteErr DEF Result, ReadErrors
<1> HIDE DEF u
<1>5. QED
  BY <1>1, <1>3, <1>4

\* The end of the input outside every list: nothing is left to count.
LEMMA EndOfInput ==
    ASSUME NEW s \in Streams, s.stack = <<>>, readByte(s).err # "nil"
    PROVE  readByte(s).s \in Streams /\ readByte(s).s.stack = <<>> /\ readByte(s).s.limited = s.limited
<1> DEFINE r == readFull(s, 1)
           w == willRead(s, 1)
           u == [w.s EXCEPT !.in = <<>>]
           t == [w.s EXCEPT !.in = SubSeq(w.s.in, 2, Len(w.s.in))]
           left == IF s.limited THEN s.remaining - 1 ELSE s.remaining
<1>1. readByte(s) = IF r.err # "nil" THEN Result(r.s, 0, r.err) ELSE Result(r.s, r.v[1], "nil")
  BY DEF readByte, Then
<1>2. r.err # "nil" /\ readByte(s).s = r.s
  <2> HIDE DEF r
  <2>1. QED
    BY <1>1 DEF Result
<1>3. r = IF w.err # "nil" THEN Result(w.s, <<>>, w.err)
          ELSE IF 1 > Len(w.s.in) THEN Result(u, <<>>, "UnexpectedEOF")
          ELSE Result(t, SubSeq(w.s.in, 1, 1), "nil")
  BY DEF readFull, Then
<1>4. (w.err # "nil" => r.s = w.s) /\ (w.err = "nil" => r.s = u)
  <2> HIDE DEF w, u, t, r
  <2>1. ASSUME w.err # "nil" PROVE r.s = w.s
    BY <1>3, <2>1 DEF Result
  <2>2. ASSUME w.err = "nil" PROVE r.s = u
    <3>1. 1 > Len(w.s.in)
      BY <1>2, <1>3, <2>2 DEF Result
    <3>2. QED
      BY <1>3, <2>2, <3>1 DEF Result
  <2>3. QED
    BY <2>1, <2>2
<1>5. CASE w.err # "nil"
  <2>1. w = Result([s EXCEPT !.kind = "none"], 0, "ValueTooLarge")
    <3> DEFINE armed == [s EXCEPT !.kind = "none"]
               low == IF s.limited THEN [armed EXCEPT !.remaining = @ - 1] ELSE armed
               beyond == s.limited /\ 1 > s.remaining
    <3>1. ~InList(s)
      BY DEF InList
    <3>2. w = CASE beyond -> Result(armed, 0, "ValueTooLarge") [] OTHER -> Result(low, 0, "nil")
      BY <3>1 DEF willRead
    <3> HIDE DEF armed, low, beyond, w
    <3>3. w = Result(armed, 0, "ValueTooLarge")
      BY <1>5, <3>2 DEF Result
    <3>4. QED
      BY <3>3 DEF armed
  <2>2. w.s = [s EXCEPT !.kind = "none"]
    BY <2>1 DEF Result
  <2> HIDE DEF w
  <2>3. w.s \in Streams /\ w.s.stack = <<>> /\ w.s.limited = s.limited
    BY <2>2 DEF Streams
  <2>4. QED
    BY <1>2, <1>4, <1>5, <2>3
<1>6. CASE w.err = "nil"
  <2>1. /\ w.s = [s EXCEPT !.kind = "none", !.stack = Lowered(s.stack, 1), !.remaining = left]
        /\ s.limited => 1 <= s.remaining
    BY <1>6, willReadNil
  <2>2. Lowered(s.stack, 1) = <<>> /\ left \in Nat
    BY <2>1 DEF Lowered, Streams
  <2> HIDE DEF w, left
  <2>3. u = [s EXCEPT !.kind = "none", !.stack = <<>>, !.remaining = left, !.in = <<>>]
    BY <2>1, <2>2 DEF Streams
  <2>4. <<>> \in Seq(Byte) /\ <<>> \in Seq(Lengths)
    OBVIOUS
  <2> HIDE DEF u
  <2>5. u \in Streams /\ u.stack = <<>> /\ u.limited = s.limited
    BY <2>2, <2>3, <2>4 DEF Streams
  <2>6. QED
    BY <1>2, <1>4, <1>6, <2>5
<1>7. QED
  BY <1>5, <1>6

\* What is ahead of the Stream does not change its lists.
LEMMA ListsOf ==
    ASSUME NEW s, NEW t, NEW n, NEW e, Lists(s, n, e),
           t.stack = s.stack, Len(t.in) = Len(s.in), t.limited = s.limited, t.remaining = s.remaining
    PROVE  Lists(t, n, e)
BY DEF Lists

\* Setting the kind of the next value leaves everything else alone.
LEMMA SetKindType ==
    ASSUME NEW s \in Streams, NEW kind \in {"none", "Byte", "String", "List"}, NEW size \in Lengths,
           NEW b \in Byte, NEW err \in Errors
    PROVE  LET t == SetKind(s, kind, size, b, err)
           IN  /\ t \in Streams
               /\ t.kind = kind /\ t.size = size /\ t.byteval = b /\ t.kinderr = err
               /\ t.stack = s.stack /\ t.in = s.in /\ t.limited = s.limited /\ t.remaining = s.remaining
BY DEF SetKind, Streams

\* The error that is kept with the kind.
LEMMA SetKindErr ==
    ASSUME NEW s \in Streams, NEW kind, NEW size, NEW b, NEW err
    PROVE  SetKind(s, kind, size, b, err).kinderr = err
BY DEF SetKind, Streams

\* The length after the tag of a long string or list.
LEMMA longSizeKeeps ==
    ASSUME NEW s \in Streams, NEW n \in 1 .. Long, NEW kind \in {"String", "List"}, NEW k \in Nat, NEW e,
           Lists(s, k, e), longSize(kind, readUint(s, n)).kinderr = "nil", readUint(s, n).err = "nil"
    PROVE  LET t == longSize(kind, readUint(s, n))
           IN  t \in Streams /\ Lists(t, k, e) /\ t.limited = s.limited /\ t.kind = kind
<1> DEFINE u == readUint(s, n)
           err == IF u.err = "nil" /\ u.v < Short THEN "CanonSize" ELSE u.err
<1>1. HasRead(s, u.s, n) /\ u.v \in Lengths
  BY readUintNil
<1>2. u.s \in Streams /\ u.s.limited = s.limited /\ n \in Nat
  BY <1>1 DEF HasRead
<1>3. Lists(u.s, k, e)
  BY <1>1, <1>2, ReadKeepsLists
<1>4. longSize(kind, u) = SetKind(u.s, kind, u.v, 0, err)
  BY DEF longSize
<1>5. 0 \in Byte
  BY TagsOrdered DEF Byte
<1> HIDE DEF u, err
<1>6. err = "nil"
  BY <1>2, <1>4, SetKindErr DEF u
<1>7. err \in Errors
  BY <1>6 DEF Errors
<1> DEFINE t == SetKind(u.s, kind, u.v, 0, err)
<1>8. /\ t \in Streams /\ t.kind = kind
      /\ t.stack = u.s.stack /\ t.in = u.s.in /\ t.limited = u.s.limited /\ t.remaining = u.s.remaining
  BY <1>1, <1>2, <1>5, <1>7, SetKindType
<1> HIDE DEF t
<1>9. Lists(t, k, e)
  BY <1>3, <1>8, ListsOf
<1>10. QED
  BY <1>2, <1>4, <1>8, <1>9 DEF t, u

\* A read leaves a Stream, also a read that fails.
LEMMA willReadType ==
    ASSUME NEW s \in Streams, NEW n \in Nat
    PROVE  willRead(s, n).s \in Streams
<1> DEFINE armed == [s EXCEPT !.kind = "none"]
           counted == IF InList(s) THEN [armed EXCEPT !.stack[Len(s.stack)] = @ - n] ELSE armed
           low == IF s.limited THEN [counted EXCEPT !.remaining = @ - n] ELSE counted
           large == InList(s) /\ n > listLimit(s)
           beyond == (~InList(s) \/ n <= listLimit(s)) /\ s.limited /\ n > s.remaining
<1>1. willRead(s, n) = CASE large -> Result(armed, 0, "ElemTooLarge")
                         [] beyond -> Result(counted, 0, "ValueTooLarge")
                         [] OTHER -> Result(low, 0, "nil")
  BY DEF willRead
<1>2. InList(s) <=> s.stack # <<>>
  BY DEF InList
<1>3. armed \in Streams
  BY DEF Streams
<1>4. CASE large
  <2>0. ~beyond
    <3>1. s.stack \in Seq(Lengths) /\ s.stack # <<>>
      BY <1>2, <1>4 DEF Streams
    <3>2. s.stack[Len(s.stack)] \in Lengths
      BY <3>1, EmptySeq, LenProperties
    <3>3. listLimit(s) \in Nat
      BY <1>4, <3>2, LastIs, CapacityWithin DEF listLimit, Lengths
    <3>4. QED
      BY <1>4, <3>3
  <2> HIDE DEF large, armed, counted, low, beyond
  <2>1. willRead(s, n) = Result(armed, 0, "ElemTooLarge")
    BY <1>1, <1>4, <2>0
  <2>2. willRead(s, n).s = armed
    BY <2>1 DEF Result
  <2>3. QED
    BY <1>3, <2>2
<1>5. CASE ~large /\ beyond
  <2>1. s.stack # <<>> => n <= s.stack[Len(s.stack)]
    <3>1. ~InList(s) \/ n <= listLimit(s)
      BY <1>5
    <3>2. InList(s) => listLimit(s) = s.stack[Len(s.stack)]
      BY LastIs DEF listLimit
    <3>3. QED
      BY <1>2, <3>1, <3>2
  <2>2. Lowered(s.stack, n) \in Seq(Lengths)
    BY <2>1, LoweredIsSeq DEF Streams
  <2>3. counted = [s EXCEPT !.kind = "none", !.stack = Lowered(s.stack, n)]
    <3>1. CASE InList(s)
      <4>1. Lowered(s.stack, n) = [s.stack EXCEPT ![Len(s.stack)] = @ - n]
        BY <1>2, <3>1 DEF Lowered
      <4>2. QED
        BY <3>1, <4>1 DEF Streams
    <3>2. CASE ~InList(s)
      <4>1. Lowered(s.stack, n) = s.stack
        BY <1>2, <3>2 DEF Lowered
      <4>2. QED
        BY <3>2, <4>1 DEF Streams
    <3>3. QED
      BY <3>1, <3>2
  <2> HIDE DEF counted
  <2>4. counted \in Streams
    BY <2>2, <2>3 DEF Streams
  <2> HIDE DEF large, armed, low, beyond
  <2>5. QED
    BY <1>1, <1>5, <2>4 DEF Result
<1>6. CASE ~large /\ ~beyond
  <2> DEFINE left == IF s.limited THEN s.remaining - n ELSE s.remaining
  <2>1. willRead(s, n).err = "nil"
    <3> HIDE DEF large, armed, counted, low, beyond
    <3>1. QED
      BY <1>1, <1>6 DEF Result
  <2>2. /\ willRead(s, n).s = [s EXCEPT !.kind = "none", !.stack = Lowered(s.stack, n), !.remaining = left]
        /\ s.stack # <<>> => n <= s.stack[Len(s.stack)]
        /\ s.limited => n <= s.remaining
    BY <2>1, willReadNil
  <2>3. Lowered(s.stack, n) \in Seq(Lengths) /\ left \in Nat
    BY <2>2, LoweredIsSeq DEF Streams
  <2> HIDE DEF left
  <2>4. QED
    BY <2>2, <2>3 DEF Streams
<1>7. QED
  BY <1>4, <1>5, <1>6

\* readFull, successful or not, leaves a Stream.
LEMMA readFullType ==
    ASSUME NEW s \in Streams, NEW n \in Nat
    PROVE  readFull(s, n).s \in Streams
<1> DEFINE w == willRead(s, n)
           u == [w.s EXCEPT !.in = <<>>]
           t == [w.s EXCEPT !.in = SubSeq(w.s.in, n + 1, Len(w.s.in))]
<1>1. readFull(s, n) = IF w.err # "nil" THEN Result(w.s, <<>>, w.err)
                       ELSE IF n > Len(w.s.in) THEN Result(u, <<>>, "UnexpectedEOF")
                       ELSE Result(t, SubSeq(w.s.in, 1, n), "nil")
  BY DEF readFull, Then
<1>2. w.s \in Streams
  BY willReadType
<1>3. u \in Streams
  <2>1. <<>> \in Seq(Byte)
    OBVIOUS
  <2> HIDE DEF w
  <2>2. QED
    BY <1>2, <2>1 DEF Streams
<1>4. CASE readFull(s, n).err = "nil"
  BY <1>4, readFullNil DEF HasRead
<1>5. CASE readFull(s, n).err # "nil"
  <2> HIDE DEF w, u, t
  <2>1. CASE w.err # "nil"
    BY <1>1, <1>2, <2>1 DEF Result
  <2>2. CASE w.err = "nil"
    <3>1. n > Len(w.s.in)
      BY <1>1, <1>5, <2>2 DEF Result
    <3>2. QED
      BY <1>1, <1>3, <2>2, <3>1 DEF Result
  <2>3. QED
    BY <2>1, <2>2
<1>6. QED
  BY <1>4, <1>5

\* readByte, successful or not, leaves a Stream.
LEMMA readByteType ==
    ASSUME NEW s \in Streams
    PROVE  readByte(s).s \in Streams
<1> DEFINE r == readFull(s, 1)
<1>1. readByte(s) = IF r.err # "nil" THEN Result(r.s, 0, r.err) ELSE Result(r.s, r.v[1], "nil")
  BY DEF readByte, Then
<1>2. r.s \in Streams
  BY readFullType
<1> HIDE DEF r
<1>3. QED
  BY <1>1, <1>2 DEF Result

\* readUint, successful or not, leaves a Stream.
LEMMA readUintType ==
    ASSUME NEW s \in Streams, NEW n \in Nat
    PROVE  readUint(s, n).s \in Streams
<1> DEFINE r == readFull(s, n)
           u == IF r.err # "nil" THEN Result(r.s, 0, r.err)
                ELSE IF r.v[1] = 0 THEN Result(r.s, 0, "CanonSize")
                ELSE Result(r.s, BigEndian(r.v), "nil")
<1>1. readUint(s, n) = CASE n = 0 -> Result(Rearm(s), 0, "nil")
                         [] n = 1 -> readByte(s)
                         [] OTHER -> u
  BY DEF readUint, Then
<1>2. r.s \in Streams
  BY readFullType
<1>3. u.s \in Streams
  <2> HIDE DEF r
  <2>1. QED
    BY <1>2 DEF Result
<1>4. Result(Rearm(s), 0, "nil").s \in Streams /\ readByte(s).s \in Streams
  BY readByteType DEF Result, Rearm, Streams
<1> HIDE DEF u
<1>5. QED
  BY <1>1, <1>3, <1>4

\* The errors of a long header.
LEMMA longSizeErr ==
    ASSUME NEW s \in Streams, NEW n \in Nat, NEW kind
    PROVE  /\ longSize(kind, readUint(s, n)).kinderr \in {"nil"} \cup ReadErrors
           /\ longSize(kind, readUint(s, n)).kinderr = "nil" => readUint(s, n).err = "nil"
<1> DEFINE u == readUint(s, n)
           err == IF u.err = "nil" /\ u.v < Short THEN "CanonSize" ELSE u.err
<1>1. longSize(kind, u) = SetKind(u.s, kind, u.v, 0, err)
  BY DEF longSize
<1>2. u.s \in Streams
  BY readUintType
<1>3. err \in {"nil"} \cup ReadErrors /\ (err = "nil" => u.err = "nil")
  <2>1. u.err \in {"nil"} \cup ReadErrors
    BY readUintErr
  <2> HIDE DEF u
  <2>2. QED
    BY <2>1 DEF ReadErrors
<1> HIDE DEF u, err
<1>4. longSize(kind, u).kinderr = err
  BY <1>1, <1>2, SetKindErr
<1>5. QED
  BY <1>3, <1>4 DEF u

\* the tag b and what it says of the value
Tagged(s, t, k, e) ==
    /\ t.kinderr \in {"nil"} \cup ReadErrors
    /\ t.kinderr = "nil" => /\ t \in Streams /\ Lists(t, k, e) /\ t.limited = s.limited
                            /\ t.kind \in {"Byte", "String", "List"}

\* A header whose tag has the length in it.
LEMMA ShortTagged ==
    ASSUME NEW s \in Streams, NEW k, NEW e, Lists(s, k, e), NEW kind \in {"Byte", "String", "List"},
           NEW size \in Lengths, NEW b \in Byte
    PROVE  Tagged(s, SetKind(s, kind, size, b, "nil"), k, e)
<1> DEFINE t == SetKind(s, kind, size, b, "nil")
<1>1. "nil" \in Errors
  BY DEF Errors
<1>2. /\ t \in Streams /\ t.kind = kind /\ t.kinderr = "nil"
      /\ t.stack = s.stack /\ t.in = s.in /\ t.limited = s.limited /\ t.remaining = s.remaining
  BY <1>1, SetKindType
<1> HIDE DEF t
<1>3. Lists(t, k, e)
  BY <1>2, ListsOf
<1>4. QED
  BY <1>2, <1>3 DEF Tagged, t

\* A header whose length follows its tag.
LEMMA LongTagged ==
    ASSUME NEW s \in Streams, NEW k \in Nat, NEW e, Lists(s, k, e), NEW kind \in {"String", "List"}, NEW n \in 1 .. Long
    PROVE  Tagged(s, longSize(kind, readUint(s, n)), k, e)
<1> DEFINE t == longSize(kind, readUint(s, n))
<1>1. n \in Nat
  OBVIOUS
<1>2. t.kinderr \in {"nil"} \cup ReadErrors /\ (t.kinderr = "nil" => readUint(s, n).err = "nil")
  BY <1>1, longSizeErr
<1>3. t.kinderr = "nil" => (t \in Streams /\ Lists(t, k, e) /\ t.limited = s.limited /\ t.kind = kind)
  BY <1>2, longSizeKeeps
<1> HIDE DEF t
<1>4. QED
  BY <1>2, <1>3 DEF Tagged, t

\* Every header, by the range its tag is in.
LEMMA tagKindKeeps ==
    ASSUME NEW s \in Streams, NEW b \in Byte, NEW k \in Nat, NEW e, Lists(s, k, e)
    PROVE  Tagged(s, tagKind(s, b), k, e)
<1>1. b \in Nat /\ b < Radix /\ 0 \in Byte /\ 0 \in Lengths
  BY TagsOrdered, CapacityWithin DEF Byte, Lengths
<1>2. CASE b < Single
  <2>1. tagKind(s, b) = SetKind(s, "Byte", 0, b, "nil")
    BY <1>1, <1>2, TagsOrdered DEF tagKind
  <2>2. QED
    BY <1>1, <2>1, ShortTagged
<1>3. CASE b \in StringTag .. LongStringTag
  <2>1. tagKind(s, b) = SetKind(s, "String", b - StringTag, 0, "nil")
    BY <1>1, <1>3, TagsOrdered DEF tagKind
  <2>2. b - StringTag \in Lengths
    BY <1>1, <1>3, TagsOrdered, CapacityWithin DEF Lengths
  <2>3. QED
    BY <1>1, <2>1, <2>2, ShortTagged
<1>4. CASE b \in LongStringTag + 1 .. ListTag - 1
  <2>1. tagKind(s, b) = longSize("String", readUint(s, b - LongStringTag))
    BY <1>1, <1>4, TagsOrdered DEF tagKind
  <2>2. b - LongStringTag \in 1 .. Long
    BY <1>1, <1>4, TagsOrdered
  <2>3. QED
    BY <2>1, <2>2, LongTagged
<1>5. CASE b \in ListTag .. LongListTag
  <2>1. tagKind(s, b) = SetKind(s, "List", b - ListTag, 0, "nil")
    BY <1>1, <1>5, TagsOrdered DEF tagKind
  <2>2. b - ListTag \in Lengths
    BY <1>1, <1>5, TagsOrdered, CapacityWithin DEF Lengths
  <2>3. QED
    BY <1>1, <2>1, <2>2, ShortTagged
<1>6. CASE b > LongListTag
  <2>1. tagKind(s, b) = longSize("List", readUint(s, b - LongListTag))
    BY <1>1, <1>6, TagsOrdered DEF tagKind
  <2>2. b - LongListTag \in 1 .. Long
    BY <1>1, <1>6, TagsOrdered
  <2>3. QED
    BY <2>1, <2>2, LongTagged
<1>7. QED
  BY <1>1, <1>2, <1>3, <1>4, <1>5, <1>6, TagsOrdered

(***************************************************************************)
(* The inductive invariant: a Stream whose lists are where they should be, *)
(* and what is known of the value ahead.                                   *)
(***************************************************************************)

Sound(s, k, e) ==
    /\ s \in Streams
    /\ s.kinderr \in {"nil", "EOF"}
    /\ s.kinderr = "EOF" => s.kind = "Byte" /\ s.stack = <<>>
    /\ (s.kind = "List" /\ s.limited) => s.size <= s.remaining
    /\ Lists(s, k, e)

\* A tag was read: its errors are not harmless, and its size was compared.
LEMMA newKindKeeps ==
    ASSUME NEW s \in Streams, NEW t, NEW k \in Nat, NEW e, Tagged(s, t, k, e), newKind(s, t).err \in Harmless
    PROVE  /\ Sound(newKind(s, t).s, k, e) /\ newKind(s, t).err = "nil"
           /\ newKind(s, t).s.kinderr = "nil" /\ newKind(s, t).s.kind \in {"Byte", "String", "List"}
<1> DEFINE err == sizeError(s, t)
           u == [t EXCEPT !.kinderr = err]
<1>1. newKind(s, t) = Result(u, 0, err)
  BY DEF newKind, KindFrom
<1>2. err \in Harmless /\ newKind(s, t).s = u /\ newKind(s, t).err = err
  <2> HIDE DEF u, err
  <2>1. QED
    BY <1>1 DEF Result
<1> DEFINE large == InList(s) /\ t.size > listLimit(s)
           beyond == s.limited /\ t.size > t.remaining
<1>3. err = CASE t.kinderr # "nil" -> t.kinderr
              [] t.kinderr = "nil" /\ large -> "ElemTooLarge"
              [] t.kinderr = "nil" /\ ~large /\ beyond -> "ValueTooLarge"
              [] OTHER -> "nil"
  BY DEF sizeError
<1>4. t.kinderr = "nil" /\ err = "nil" /\ ~beyond
  <2> HIDE DEF large, beyond, err
  <2>1. t.kinderr \in {"nil"} \cup ReadErrors
    BY DEF Tagged
  <2>2. t.kinderr = "nil"
    <3> SUFFICES ASSUME t.kinderr # "nil" PROVE FALSE
      OBVIOUS
    <3>1. err = t.kinderr
      BY <1>3
    <3>2. QED
      BY <1>2, <2>1, <3>1 DEF Harmless, ReadErrors
  <2>3. ~large
    BY <1>2, <1>3, <2>2 DEF Harmless
  <2>4. ~beyond
    BY <1>2, <1>3, <2>2, <2>3 DEF Harmless
  <2>5. QED
    BY <1>3, <2>2, <2>3, <2>4
<1>5. t \in Streams /\ Lists(t, k, e) /\ t.limited = s.limited /\ t.kind \in {"Byte", "String", "List"}
  BY <1>4 DEF Tagged
<1> HIDE DEF err, large
<1>6. u = t
  BY <1>4, <1>5 DEF Streams
<1>7. t.size \in Nat /\ t.remaining \in Nat
  BY <1>5, CapacityWithin DEF Streams, Lengths
<1>8. t.limited => t.size <= t.remaining
  BY <1>4, <1>5, <1>7
<1> HIDE DEF u
<1>9. QED
  BY <1>2, <1>4, <1>5, <1>6, <1>8 DEF Sound

\* The reader is at its end, outside every list.
LEMMA EndKeeps ==
    ASSUME NEW s, NEW k \in Nat, NEW e, Sound(s, k, e), readByte(s).err # "nil",
           newKind(s, tagError(s, readByte(s))).err \in Harmless
    PROVE  /\ Sound(newKind(s, tagError(s, readByte(s))).s, k, e)
           /\ newKind(s, tagError(s, readByte(s))).err # "nil"
<1> DEFINE r == readByte(s)
           cause == IF s.stack = <<>> /\ r.err \in {"UnexpectedEOF", "ValueTooLarge"} THEN "EOF" ELSE r.err
           t == tagError(s, r)
           err == sizeError(s, t)
           u == [t EXCEPT !.kinderr = err]
<1>0. s \in Streams /\ Lists(s, k, e)
  BY DEF Sound
<1>1. newKind(s, t).s = u /\ newKind(s, t).err = err
  BY DEF newKind, KindFrom, Result
<1>2. t = SetKind(r.s, "Byte", 0, s.byteval, cause)
  BY DEF tagError
<1>3. r.s \in Streams /\ r.err \in {"ElemTooLarge", "ValueTooLarge", "UnexpectedEOF"}
  BY <1>0, readByteType, readByteErr
<1>4. cause \in Errors /\ cause # "nil" /\ 0 \in Lengths /\ s.byteval \in Byte
  <2> HIDE DEF r
  <2>1. QED
    BY <1>0, <1>3, CapacityWithin DEF Errors, Lengths, Streams
<1> HIDE DEF r
<1>5. /\ t \in Streams /\ t.kind = "Byte" /\ t.size = 0 /\ t.kinderr = cause
      /\ t.stack = r.s.stack /\ t.in = r.s.in /\ t.limited = r.s.limited /\ t.remaining = r.s.remaining
  <2> HIDE DEF t, cause
  <2>1. QED
    BY <1>2, <1>3, <1>4, SetKindType
<1>6. err = cause
  <2> HIDE DEF t, cause
  <2>1. QED
    BY <1>4, <1>5 DEF sizeError
<1>7. u = t
  <2> HIDE DEF t, cause, err
  <2>1. QED
    BY <1>5, <1>6 DEF Streams
<1>8. err \in Harmless
  BY <1>1 DEF r
<1>9. cause = "EOF" /\ s.stack = <<>>
  <2> HIDE DEF err
  <2>1. QED
    BY <1>3, <1>6, <1>8 DEF Harmless
<1>10. r.s.stack = <<>> /\ r.s.limited = s.limited
  BY <1>0, <1>9, EndOfInput DEF r
<1> HIDE DEF t, err, u, cause
<1>11. Lists(t, k, e)
  <2>1. t.stack = <<>> /\ t.stack \in Seq(Nat) /\ Len(t.stack) = 0 /\ Len(s.stack) = 0 /\ t.remaining \in Nat
    BY <1>5, <1>9, <1>10 DEF Streams
  <2>2. ListBytes(t.stack, 0) = 0
    BY <2>1, ListBytesAdd
  <2>3. QED
    BY <1>0, <2>1, <2>2 DEF Lists
<1>12. Sound(t, k, e)
  BY <1>5, <1>9, <1>10, <1>11 DEF Sound
<1>13. QED
  BY <1>1, <1>4, <1>6, <1>7, <1>12 DEF t, r

\* Kind keeps the lists, and without an error it knows what comes next.
LEMMA KindKeeps ==
    ASSUME NEW s, NEW k \in Nat, NEW e, Sound(s, k, e), Kind(s).err \in Harmless
    PROVE  /\ Sound(Kind(s).s, k, e)
           /\ Kind(s).err = "nil" => /\ Kind(s).s.kinderr = "nil"
                                     /\ Kind(s).s.kind \in {"Byte", "String", "List"}
<1>0. s \in Streams /\ Lists(s, k, e)
  BY DEF Sound
<1> DEFINE ended == s.kind = "none" /\ InList(s) /\ listLimit(s) = 0
           n == newKind(s, readKind(s))
<1>1. Kind(s) = CASE s.kind # "none" -> Result(s, 0, s.kinderr)
                  [] ended -> Result(s, 0, "EOL")
                  [] OTHER -> n
  BY DEF Kind
<1>2. CASE s.kind # "none"
  <2>1. Kind(s) = Result(s, 0, s.kinderr)
    BY <1>1, <1>2
  <2>2. Kind(s).s = s /\ Kind(s).err = s.kinderr
    BY <2>1 DEF Result
  <2>3. s.kind \in {"Byte", "String", "List"}
    BY <1>0, <1>2 DEF Streams
  <2>4. QED
    BY <2>2, <2>3
<1>3. CASE s.kind = "none" /\ ended
  <2>1. Kind(s) = Result(s, 0, "EOL")
    BY <1>1, <1>3
  <2>2. Kind(s).s = s /\ Kind(s).err = "EOL"
    BY <2>1 DEF Result
  <2>3. QED
    BY <2>2
<1>4. CASE s.kind = "none" /\ ~ended
  <2> HIDE DEF ended
  <2>1. Kind(s) = n
    BY <1>1, <1>4
  <2> DEFINE r == readByte(s)
  <2>2. CASE r.err = "nil"
    <3>1. readKind(s) = tagKind(r.s, r.v)
      BY <2>2 DEF readKind, readKindFrom
    <3>2. HasRead(s, r.s, 1) /\ r.v \in Byte
      BY <1>0, <2>2, readByteNil
    <3>3. r.s \in Streams /\ r.s.limited = s.limited
      BY <3>2 DEF HasRead
    <3>4. Lists(r.s, k, e)
      BY <1>0, <3>2, ReadKeepsLists
    <3> HIDE DEF r
    <3>5. Tagged(r.s, tagKind(r.s, r.v), k, e)
      BY <3>2, <3>3, <3>4, tagKindKeeps
    <3>6. Tagged(s, readKind(s), k, e)
      BY <3>1, <3>3, <3>5 DEF Tagged
    <3>7. QED
      BY <1>0, <2>1, <3>6, newKindKeeps
  <2>3. CASE r.err # "nil"
    <3>1. readKind(s) = tagError(s, r)
      BY <2>3 DEF readKind, readKindFrom
    <3>2. QED
      BY <2>1, <2>3, <3>1, EndKeeps
  <2>4. QED
    BY <2>2, <2>3
<1>5. QED
  BY <1>2, <1>3, <1>4

(***************************************************************************)
(* The calls. Each first asks for the kind; the rest of it is about a      *)
(* Stream without an error.                                                *)
(***************************************************************************)

\* the result q of a call is an error that is not harmless, or leaves a sound Stream
Keeps(q, k, e) == q.err \in Harmless => Sound(q.s, k, e)

Ahead(s, k, e) == Sound(s, k, e) /\ s.kinderr = "nil" /\ s.kind \in {"Byte", "String", "List"}

\* After an error of the reader nothing is promised.
LEMMA ReadErrorsHarm == \A err \in ReadErrors \cup {"CanonInt", "Uint256Large"} : err \notin Harmless
BY DEF ReadErrors, Harmless

\* Forgetting the kind of the next value keeps the lists.
LEMMA RearmKeeps ==
    ASSUME NEW s, NEW k, NEW e, Sound(s, k, e), s.kinderr = "nil"
    PROVE  Sound(Rearm(s), k, e)
<1>1. s \in Streams
  BY DEF Sound
<1>2. /\ Rearm(s) \in Streams /\ Rearm(s).kind = "none" /\ Rearm(s).kinderr = "nil"
      /\ Rearm(s).stack = s.stack /\ Rearm(s).in = s.in
      /\ Rearm(s).limited = s.limited /\ Rearm(s).remaining = s.remaining
  BY <1>1 DEF Rearm, Streams
<1>3. Lists(Rearm(s), k, e)
  BY <1>2, ListsOf DEF Sound
<1>4. QED
  BY <1>2, <1>3 DEF Sound

\* Reading the bytes of a value keeps the lists.
LEMMA FullReadKeeps ==
    ASSUME NEW s, NEW k \in Nat, NEW e, Sound(s, k, e), s.kinderr = "nil", NEW n \in Nat
    PROVE  /\ readFull(s, n).err = "nil" => Sound(readFull(s, n).s, k, e)
           /\ readFull(s, n).err # "nil" => readFull(s, n).err \in ReadErrors
<1>1. s \in Streams /\ Lists(s, k, e)
  BY DEF Sound
<1>2. ASSUME readFull(s, n).err = "nil" PROVE Sound(readFull(s, n).s, k, e)
  <2> DEFINE t == readFull(s, n).s
  <2>1. HasRead(s, t, n) /\ t.kind = "none"
    BY <1>1, <1>2, readFullNil
  <2>2. t \in Streams /\ t.kinderr = "nil"
    BY <2>1 DEF HasRead
  <2>3. Lists(t, k, e)
    BY <1>1, <2>1, ReadKeepsLists
  <2> HIDE DEF t
  <2>4. Sound(t, k, e)
    BY <2>1, <2>2, <2>3 DEF Sound
  <2>5. QED
    BY <2>4 DEF t
<1>3. readFull(s, n).err # "nil" => readFull(s, n).err \in ReadErrors
  BY readFullErr DEF ReadErrors
<1>4. QED
  BY <1>2, <1>3

\* The size of the next value is a number.
LEMMA SizeIsNat ==
    ASSUME NEW s, NEW k, NEW e, Sound(s, k, e)
    PROVE  s.size \in Nat
BY CapacityWithin DEF Sound, Streams, Lengths

\* the bytes of a string, of any length and of length 1
LEMMA StringKeeps ==
    ASSUME NEW s, NEW k \in Nat, NEW e, Ahead(s, k, e)
    PROVE  Keeps(StringAt(s, LAMBDA n : TRUE), k, e) /\ Keeps(StringAt(s, LAMBDA m : m = 1), k, e)
<1> DEFINE r == readFull(s, s.size)
           read == IF r.err # "nil" THEN Result(r.s, <<>>, r.err)
                   ELSE IF shortByte(s, r.v) THEN Result(r.s, <<>>, "CanonSize") ELSE r
           byte == Result(Rearm(s), <<s.byteval>>, "nil")
           wrong == Result(s, <<>>, "WrongSize")
           notstring == Result(s, <<>>, "ExpectedString")
<1>1. Sound(s, k, e) /\ s.kinderr = "nil" /\ s.kind \in {"Byte", "String", "List"} /\ s.size \in Nat
  BY SizeIsNat DEF Ahead
<1>2. Keeps(notstring, k, e) /\ Keeps(wrong, k, e) /\ Keeps(byte, k, e)
  BY <1>1, RearmKeeps DEF Keeps, Result
<1>3. Keeps(read, k, e)
  <2>1. (r.err = "nil" => Sound(r.s, k, e)) /\ (r.err # "nil" => r.err \in ReadErrors)
    BY <1>1, FullReadKeeps
  <2>2. "CanonSize" \in ReadErrors
    BY DEF ReadErrors
  <2> HIDE DEF r
  <2>3. QED
    BY <2>1, <2>2, ReadErrorsHarm DEF Keeps, Result
<1>4. StringAt(s, LAMBDA n : TRUE) \in {notstring, wrong, byte, read}
  BY <1>1 DEF StringAt, Then
<1>5. StringAt(s, LAMBDA m : m = 1) \in {notstring, wrong, byte, read}
  BY <1>1 DEF StringAt, Then
<1> HIDE DEF notstring, wrong, byte, read
<1>6. QED
  BY <1>2, <1>3, <1>4, <1>5

\* Raw keeps the lists (Stream.Raw).
LEMMA RawKeeps ==
    ASSUME NEW s, NEW k \in Nat, NEW e, Ahead(s, k, e)
    PROVE  Keeps(RawAt(s), k, e)
<1> DEFINE r == readFull(s, s.size)
           read == IF r.err # "nil" THEN Result(r.s, <<>>, r.err) ELSE Result(r.s, rawHead(s) \o r.v, "nil")
           byte == Result(Rearm(s), <<s.byteval>>, "nil")
<1>1. Sound(s, k, e) /\ s.kinderr = "nil" /\ s.size \in Nat
  BY SizeIsNat DEF Ahead
<1>2. Keeps(byte, k, e)
  BY <1>1, RearmKeeps DEF Keeps, Result
<1>3. Keeps(read, k, e)
  <2>1. (r.err = "nil" => Sound(r.s, k, e)) /\ (r.err # "nil" => r.err \in ReadErrors)
    BY <1>1, FullReadKeeps
  <2> HIDE DEF r
  <2>2. QED
    BY <2>1, ReadErrorsHarm DEF Keeps, Result
<1>4. RawAt(s) \in {byte, read}
  BY DEF RawAt, Then
<1> HIDE DEF byte, read
<1>5. QED
  BY <1>2, <1>3, <1>4

\* Uint keeps the lists (Stream.uint).
LEMMA UintKeeps ==
    ASSUME NEW s, NEW k \in Nat, NEW e, Ahead(s, k, e), NEW n \in Nat
    PROVE  Keeps(UintAt(s, n), k, e)
<1>1. Sound(s, k, e) /\ s.kinderr = "nil" /\ s.kind \in {"Byte", "String", "List"} /\ s.size \in Nat
  BY SizeIsNat DEF Ahead
<1> DEFINE u == readUint(s, s.size)
           byte == Result(Rearm(s), s.byteval, "nil")
           notstring == Result(s, 0, "ExpectedString")
           over == Result(s, 0, "UintOverflow")
           zero == Result(s, 0, "CanonInt")
<1>2. Keeps(notstring, k, e) /\ Keeps(over, k, e) /\ Keeps(byte, k, e) /\ Keeps(zero, k, e)
  BY <1>1, RearmKeeps DEF Keeps, Result
<1>3. (u.err = "nil" => Sound(u.s, k, e)) /\ (u.err # "nil" => u.err \in ReadErrors)
  <2> DEFINE f == readFull(s, s.size)
             g == readFull(s, 1)
             m == IF f.err # "nil" THEN Result(f.s, 0, f.err)
                  ELSE IF f.v[1] = 0 THEN Result(f.s, 0, "CanonSize") ELSE Result(f.s, BigEndian(f.v), "nil")
             b == IF g.err # "nil" THEN Result(g.s, 0, g.err) ELSE Result(g.s, g.v[1], "nil")
             z == Result(Rearm(s), 0, "nil")
  <2>1. u \in {z, b, m}
    BY DEF readUint, readByte, Then
  <2>2. (f.err = "nil" => Sound(f.s, k, e)) /\ (g.err = "nil" => Sound(g.s, k, e))
    BY <1>1, FullReadKeeps
  <2>3. z.err = "nil" /\ Sound(z.s, k, e)
    BY <1>1, RearmKeeps DEF Result
  <2>4. b.err = "nil" => Sound(b.s, k, e)
    <3> HIDE DEF g
    <3>1. QED
      BY <2>2 DEF Result
  <2>5. m.err = "nil" => Sound(m.s, k, e)
    <3> HIDE DEF f
    <3>1. QED
      BY <2>2 DEF Result
  <2>6. u.err \in {"nil"} \cup ReadErrors
    BY readUintErr
  <2> HIDE DEF z, b, m, u
  <2>7. QED
    BY <2>1, <2>3, <2>4, <2>5, <2>6
<1>4. Keeps(checkUint(s, u), k, e)
  <2> DEFINE a == Result(u.s, 0, "CanonInt")
             b == Result(u.s, 0, "CanonSize")
  <2>1. checkUint(s, u) \in {a, b, u}
    BY DEF checkUint
  <2>2. Keeps(a, k, e) /\ Keeps(b, k, e)
    BY ReadErrorsHarm DEF Keeps, Result, ReadErrors
  <2>3. Keeps(u, k, e)
    <3> HIDE DEF u
    <3>1. QED
      BY <1>3, ReadErrorsHarm DEF Keeps
  <2> HIDE DEF a, b, u
  <2>4. QED
    BY <2>1, <2>2, <2>3
<1>5. UintAt(s, n) \in {notstring, byte, zero, over, checkUint(s, u)}
  BY <1>1 DEF UintAt
<1> HIDE DEF notstring, byte, zero, over, u
<1>6. QED
  BY <1>2, <1>4, <1>5

\* BigInt keeps the lists (Stream.decodeBigInt).
LEMMA BigIntKeeps ==
    ASSUME NEW s, NEW k \in Nat, NEW e, Ahead(s, k, e)
    PROVE  Keeps(BigIntAt(s, TRUE), k, e)
<1>1. Sound(s, k, e) /\ s.kinderr = "nil" /\ s.kind \in {"Byte", "String", "List"} /\ s.size \in Nat
  BY SizeIsNat DEF Ahead
<1> DEFINE r == readFull(s, s.size)
           read == IF r.err # "nil" THEN Result(r.s, 0, r.err)
                   ELSE IF shortByte(s, r.v) THEN Result(r.s, 0, "CanonSize") ELSE bigNumber(r.s, r.v)
           byte == bigNumber(Rearm(s), <<s.byteval>>)
           empty == Result(Rearm(s), 0, "nil")
           notstring == Result(s, 0, "ExpectedString")
           over == Result(s, 0, "Uint256Large")
<1>2. \A t, b : Sound(t, k, e) => Keeps(bigNumber(t, b), k, e)
  BY DEF Keeps, Result, bigNumber
<1>3. Keeps(notstring, k, e) /\ Keeps(over, k, e) /\ Keeps(empty, k, e)
  BY <1>1, RearmKeeps DEF Keeps, Result
<1>4. Keeps(byte, k, e)
  BY <1>1, <1>2, RearmKeeps
<1>5. Keeps(read, k, e)
  <2>1. (r.err = "nil" => Sound(r.s, k, e)) /\ (r.err # "nil" => r.err \in ReadErrors)
    BY <1>1, FullReadKeeps
  <2>2. "CanonSize" \in ReadErrors
    BY DEF ReadErrors
  <2> HIDE DEF r
  <2>3. CASE r.err = "nil" /\ ~shortByte(s, r.v)
    BY <1>2, <2>1, <2>3
  <2>4. CASE r.err # "nil" \/ shortByte(s, r.v)
    BY <2>1, <2>2, <2>4, ReadErrorsHarm DEF Keeps, Result
  <2>5. QED
    BY <2>3, <2>4
<1>6. BigIntAt(s, TRUE) \in {notstring, byte, empty, over, read}
  BY <1>1 DEF BigIntAt, Then
<1> HIDE DEF notstring, byte, empty, over, read
<1>7. QED
  BY <1>3, <1>4, <1>5, <1>6

\* The calls that read a value.
LEMMA ValueCallsKeep ==
    ASSUME NEW s, NEW k \in Nat, NEW e, Sound(s, k, e)
    PROVE  /\ Keeps(Kind(s), k, e) /\ Keeps(Bytes(s), k, e) /\ Keeps(ReadBytes(s, 1), k, e)
           /\ Keeps(Raw(s), k, e) /\ Keeps(Uint(s, Long), k, e) /\ Keeps(BigInt(s, TRUE), k, e)
<1> DEFINE r == Kind(s)
<1>1. Keeps(r, k, e)
  BY KindKeeps DEF Keeps
<1>2. \A v : Keeps(Result(r.s, v, r.err), k, e)
  BY <1>1 DEF Keeps, Result
<1>3. r.err = "nil" => Ahead(r.s, k, e)
  BY KindKeeps DEF Ahead, Harmless
<1>4. Long \in Nat
  BY TagsOrdered
<1>5. Keeps(Bytes(s), k, e)
  <2>1. Bytes(s) = IF r.err # "nil" THEN Result(r.s, <<>>, r.err) ELSE StringAt(r.s, LAMBDA n : TRUE)
    BY DEF Bytes, Then
  <2> HIDE DEF r
  <2>2. r.err = "nil" => Keeps(StringAt(r.s, LAMBDA n : TRUE), k, e)
    BY <1>3, StringKeeps
  <2>3. QED
    BY <1>2, <2>1, <2>2
<1>6. Keeps(ReadBytes(s, 1), k, e)
  <2>1. ReadBytes(s, 1) = IF r.err # "nil" THEN Result(r.s, <<>>, r.err) ELSE StringAt(r.s, LAMBDA m : m = 1)
    BY DEF ReadBytes, Then
  <2> HIDE DEF r
  <2>2. r.err = "nil" => Keeps(StringAt(r.s, LAMBDA m : m = 1), k, e)
    BY <1>3, StringKeeps
  <2>3. QED
    BY <1>2, <2>1, <2>2
<1>7. Keeps(Raw(s), k, e)
  <2>1. Raw(s) = IF r.err # "nil" THEN Result(r.s, <<>>, r.err) ELSE RawAt(r.s)
    BY DEF Raw, Then
  <2> HIDE DEF r
  <2>2. QED
    BY <1>2, <1>3, <2>1, RawKeeps
<1>8. Keeps(Uint(s, Long), k, e)
  <2>1. Uint(s, Long) = IF r.err # "nil" THEN Result(r.s, 0, r.err) ELSE UintAt(r.s, Long)
    BY DEF Uint, Then
  <2> HIDE DEF r
  <2>2. QED
    BY <1>2, <1>3, <1>4, <2>1, UintKeeps
<1>9. Keeps(BigInt(s, TRUE), k, e)
  <2>1. BigInt(s, TRUE) = IF r.err # "nil" THEN Result(r.s, 0, r.err) ELSE BigIntAt(r.s, TRUE)
    BY DEF BigInt, Then
  <2> HIDE DEF r
  <2>2. QED
    BY <1>2, <1>3, <2>1, BigIntKeeps
<1>10. QED
  BY <1>1, <1>5, <1>6, <1>7, <1>8, <1>9

\* Lowering the innermost size lowers only the last of the sums.
LEMMA LoweredBytes ==
    ASSUME NEW stack \in Seq(Lengths), stack \in Seq(Nat), stack # <<>>, NEW n \in Nat, n <= stack[Len(stack)]
    PROVE  /\ ListBytes(Lowered(stack, n), Len(stack)) = ListBytes(stack, Len(stack)) - n
           /\ \A m \in 0 .. Len(stack) - 1 : ListBytes(Lowered(stack, n), m) = ListBytes(stack, m)
<1> DEFINE d == Len(stack)
           low == Lowered(stack, n)
<1>1. d \in Nat /\ d \in 1 .. d /\ d - 1 \in Nat /\ d - 1 <= d /\ d - 1 \in 0 .. d - 1 /\ d - 1 \in 0 .. d
  BY EmptySeq, LenProperties
<1>2. low \in Seq(Lengths) /\ Len(low) = d
      /\ \A i \in 1 .. d : low[i] = IF i = d THEN stack[i] - n ELSE stack[i]
  BY LoweredIsSeq
<1>3. low \in Seq(Nat)
  <2>1. Lengths \subseteq Nat
    BY CapacityWithin DEF Lengths
  <2> HIDE DEF low
  <2>2. QED
    BY <1>2, <2>1, SeqMonotonic
<1> HIDE DEF low, d
<1>4. \A m \in 1 .. d - 1 : low[m] = stack[m]
  <2>1. \A m \in 1 .. d - 1 : m \in 1 .. d /\ m # d
    BY <1>1
  <2>2. QED
    BY <1>2, <2>1
<1>5. d = Len(stack)
  BY DEF d
<1>6. \A m \in 0 .. d - 1 : ListBytes(low, m) = ListBytes(stack, m)
  BY <1>1, <1>2, <1>3, <1>4, <1>5, ListBytesAlike
<1>7. /\ ListBytes(low, d) = ListBytes(low, d - 1) + low[d]
      /\ ListBytes(stack, d) = ListBytes(stack, d - 1) + stack[d]
      /\ ListBytes(stack, d - 1) \in Nat
  BY <1>1, <1>2, <1>3, <1>5, ListBytesAdd
<1>8. stack[d] \in Nat /\ low[d] = stack[d] - n
  BY <1>1, <1>2, <1>5
<1>9. ListBytes(low, d) = ListBytes(stack, d) - n
  BY <1>1, <1>6, <1>7, <1>8
<1>10. QED
  BY <1>5, <1>6, <1>9 DEF low

\* A number below the modulus is its own remainder.
LEMMA Remainder ==
    ASSUME NEW x \in Int, NEW y \in Nat, 0 <= x, x < y
    PROVE  x % y = x
OBVIOUS

\* A list of n bytes is opened: the list around it, if there is one, has n bytes less.
LEMMA OpenedList ==
    ASSUME NEW s, NEW t, NEW k \in Nat, NEW e, NEW n \in Lengths, s \in Streams, Lists(s, k, e),
           s.stack # <<>> => n <= s.stack[Len(s.stack)], s.stack = <<>> => (s.limited => n <= s.remaining),
           t.stack = Append(Lowered(s.stack, n), n), t.in = s.in,
           t.limited = s.limited, t.remaining = s.remaining, e \in Seq(Int)
    PROVE  Lists(t, k, Append(e, k - Len(t.in) + n))
<1> DEFINE d == Len(s.stack)
           low == Lowered(s.stack, n)
           f == Append(e, k - Len(t.in) + n)
<1>1. s.stack \in Seq(Lengths) /\ s.stack \in Seq(Nat) /\ d \in Nat /\ n \in Nat /\ Lengths \subseteq Nat
  BY StackIsSeq, CapacityWithin DEF Lengths
<1>2. low \in Seq(Lengths) /\ low \in Seq(Nat) /\ Len(low) = d
  <2>1. low \in Seq(Lengths) /\ Len(low) = d
    BY <1>1, LoweredIsSeq
  <2> HIDE DEF low
  <2>2. QED
    BY <1>1, <2>1, SeqMonotonic
<1>3. Len(s.in) \in Nat /\ s.remaining \in Nat
  BY DEF Streams
<1>4. Len(e) = d /\ e \in Seq(Int)
  BY DEF Lists
<1>5. Len(f) = d + 1 /\ f[d + 1] = k - Len(s.in) + n /\ \A i \in 1 .. d : f[i] = e[i]
  <2>1. k - Len(t.in) + n \in Int /\ k - Len(t.in) + n = k - Len(s.in) + n
    BY <1>1, <1>3
  <2> DEFINE x == k - Len(t.in) + n
  <2> HIDE DEF x, d
  <2>2. x \in Int /\ x = k - Len(s.in) + n /\ f = Append(e, x)
    BY <2>1 DEF x
  <2> HIDE DEF f
  <2>3. Len(f) = d + 1 /\ f[d + 1] = x /\ \A i \in 1 .. d : f[i] = e[i]
    BY <1>1, <1>4, <2>2, AppendProperties
  <2>4. QED
    BY <2>2, <2>3
<1> HIDE DEF low, f
<1>6. t.stack \in Seq(Nat) /\ Len(t.stack) = d + 1 /\ t.stack[d + 1] = n /\ \A i \in 1 .. d : t.stack[i] = low[i]
  BY <1>1, <1>2 DEF low
<1> HIDE DEF d
<1>7. \A m \in 0 .. d : ListBytes(t.stack, m) = ListBytes(low, m)
  <2>1. d <= Len(t.stack) /\ d <= Len(low)
    BY <1>1, <1>2, <1>6
  <2>2. \A m \in 1 .. d : t.stack[m] = low[m]
    BY <1>6
  <2>3. t.stack \in Seq(Nat)
    BY <1>6
  <2>4. QED
    BY <1>1, <1>2, <2>1, <2>2, <2>3, ListBytesAlike
<1>8. ListBytes(t.stack, d + 1) = ListBytes(low, d) + n /\ ListBytes(low, d) \in Nat
  <2>1. d + 1 \in 1 .. Len(t.stack) /\ (d + 1) - 1 = d /\ d \in 0 .. d
    BY <1>1, <1>6
  <2>2. ListBytes(t.stack, d + 1) = ListBytes(t.stack, (d + 1) - 1) + t.stack[d + 1]
    BY <1>6, <2>1, ListBytesAdd
  <2>3. ListBytes(low, d) \in Nat
    BY <1>2, <2>1, ListBytesAdd
  <2>4. QED
    BY <1>6, <1>7, <2>1, <2>2, <2>3
<1>9. d = Len(s.stack)
  BY DEF d
<1>10. f[d + 1] = k - Len(t.in) + (ListBytes(t.stack, d + 1) - ListBytes(t.stack, (d + 1) - 1))
  <2>1. (d + 1) - 1 = d /\ d \in 0 .. d
    BY <1>1
  <2>2. ListBytes(t.stack, (d + 1) - 1) = ListBytes(low, d)
    BY <1>7, <2>1
  <2>3. \A b \in Nat : (b + n) - b = n
    BY <1>1
  <2>4. ListBytes(t.stack, d + 1) - ListBytes(t.stack, (d + 1) - 1) = n
    BY <1>8, <2>2, <2>3
  <2>5. QED
    BY <1>5, <2>4
<1>11. CASE s.stack = <<>>
  <2>1. d = 0
    BY <1>9, <1>11
  <2>2. ListBytes(low, 0) = 0
    BY <1>2, ListBytesAdd
  <2>3. t.limited => ListBytes(t.stack, d + 1) <= t.remaining
    BY <1>1, <1>8, <1>11, <2>1, <2>2
  <2>4. \A i \in 1 .. d + 1 : i = d + 1
    BY <2>1
  <2>5. Lists(t, k, f)
    BY <1>5, <1>6, <1>10, <2>3, <2>4 DEF Lists
  <2>6. QED
    BY <2>5 DEF f
<1>12. CASE s.stack # <<>>
  <2>1. /\ ListBytes(low, d) = ListBytes(s.stack, d) - n
        /\ \A m \in 0 .. d - 1 : ListBytes(low, m) = ListBytes(s.stack, m)
    BY <1>1, <1>9, <1>12, LoweredBytes DEF low
  <2>2. ListBytes(s.stack, d) \in Nat
    BY <1>1, <1>9, ListBytesAdd
  <2>3. ListBytes(t.stack, d + 1) = ListBytes(s.stack, d)
    BY <1>1, <1>8, <2>1, <2>2
  <2>4. t.limited => ListBytes(t.stack, d + 1) <= t.remaining
    BY <1>9, <2>3 DEF Lists
  <2>5. ASSUME NEW i \in 1 .. d
        PROVE  f[i] = k - Len(t.in) + (ListBytes(t.stack, d + 1) - ListBytes(t.stack, i - 1))
    <3>1. i - 1 \in 0 .. d - 1 /\ i - 1 \in 0 .. d
      BY <1>1
    <3>2. ListBytes(t.stack, i - 1) = ListBytes(s.stack, i - 1)
      BY <1>7, <2>1, <3>1
    <3>3. e[i] = k - Len(s.in) + (ListBytes(s.stack, d) - ListBytes(s.stack, i - 1))
      BY <1>9 DEF Lists
    <3>4. QED
      BY <1>5, <2>3, <3>2, <3>3
  <2>6. \A i \in 1 .. d + 1 : i = d + 1 \/ i \in 1 .. d
    BY <1>1
  <2>7. Lists(t, k, f)
    BY <1>5, <1>6, <1>10, <2>4, <2>5, <2>6 DEF Lists
  <2>8. QED
    BY <2>7 DEF f
<1>13. QED
  BY <1>11, <1>12

\* The innermost list is closed with no bytes left in it.
LEMMA ClosedList ==
    ASSUME NEW s, NEW t, NEW k \in Nat, NEW e \in Seq(Int), s \in Streams, Lists(s, k, e),
           s.stack # <<>>, s.stack[Len(s.stack)] = 0, t.stack = Front(s.stack), t.in = s.in,
           t.limited = s.limited, t.remaining = s.remaining
    PROVE  Lists(t, k, Front(e)) /\ t.stack \in Seq(Lengths) /\ Front(e) \in Seq(Int)
<1> DEFINE d == Len(s.stack)
           st == Front(s.stack)
           f == Front(e)
<1>1. s.stack \in Seq(Lengths) /\ s.stack \in Seq(Nat) /\ d \in Nat /\ d # 0
  BY StackIsSeq, EmptySeq
<1>2. d - 1 \in Nat /\ d \in 1 .. d /\ d - 1 <= d /\ d - 1 \in 0 .. d - 1 /\ d - 1 \in 0 .. d /\ 1 \in 1 .. d + 1 /\ d - 1 \in 1 - 1 .. d
  BY <1>1
<1>3. /\ st \in Seq(Lengths) /\ st \in Seq(Nat) /\ Len(st) = d - 1
      /\ \A i \in 1 .. d - 1 : st[i] = s.stack[i]
  <2>1. /\ SubSeq(s.stack, 1, d - 1) \in Seq(Lengths) /\ SubSeq(s.stack, 1, d - 1) \in Seq(Nat)
        /\ Len(SubSeq(s.stack, 1, d - 1)) = d - 1
        /\ \A i \in 1 .. d - 1 : SubSeq(s.stack, 1, d - 1)[i] = s.stack[i]
    <3>1. \A i \in 1 .. d - 1 : s.stack[i] \in Lengths /\ s.stack[i] \in Nat
      BY <1>1
    <3>2. \A i \in 1 .. d - 1 : s.stack[i] \in Lengths
      BY <3>1
    <3>3. \A i \in 1 .. d - 1 : s.stack[i] \in Nat
      BY <3>1
    <3> DEFINE q == d - 1
    <3>5. q \in Int /\ q \in Nat
      BY <1>2
    <3> HIDE DEF q
    <3>6. SubSeq(s.stack, 1, q) \in Seq(Lengths)
      BY <1>1, <3>2, <3>5, SubSeqProperties DEF q
    <3>7. SubSeq(s.stack, 1, q) \in Seq(Nat)
      BY <1>1, <3>3, <3>5, SubSeqProperties DEF q
    <3>8. Len(SubSeq(s.stack, 1, q)) = q /\ \A i \in 1 .. q : SubSeq(s.stack, 1, q)[i] = s.stack[i]
      BY <1>1, <3>3, <3>5, SubSeqProperties DEF q
    <3>9. QED
      BY <3>6, <3>7, <3>8 DEF q
  <2>2. QED
    BY <2>1 DEF Front
<1>4. Len(e) = d
  BY DEF Lists
<1>5. f \in Seq(Int) /\ Len(f) = d - 1 /\ \A i \in 1 .. d - 1 : f[i] = e[i]
  <2>1. /\ SubSeq(e, 1, d - 1) \in Seq(Int) /\ Len(SubSeq(e, 1, d - 1)) = d - 1
        /\ \A i \in 1 .. d - 1 : SubSeq(e, 1, d - 1)[i] = e[i]
    BY <1>2, <1>4
  <2>2. QED
    BY <1>4, <2>1 DEF Front
<1> HIDE DEF st, f
<1>6. d = Len(s.stack)
  OBVIOUS
<1> HIDE DEF d
<1>7. \A m \in 0 .. d - 1 : ListBytes(st, m) = ListBytes(s.stack, m)
  <2>1. d - 1 <= Len(st) /\ d - 1 <= Len(s.stack)
    BY <1>2, <1>3, <1>6
  <2>2. \A m \in 1 .. d - 1 : st[m] = s.stack[m]
    BY <1>3
  <2>3. st \in Seq(Nat)
    BY <1>3
  <2>4. QED
    BY <1>1, <1>2, <2>1, <2>2, <2>3, ListBytesAlike
<1>8. ListBytes(s.stack, d) = ListBytes(s.stack, d - 1) + s.stack[d] /\ ListBytes(s.stack, d - 1) \in Nat
  BY <1>1, <1>2, <1>6, ListBytesAdd
<1>9. ListBytes(st, d - 1) = ListBytes(s.stack, d)
  BY <1>2, <1>6, <1>7, <1>8
<1>10. t.stack = st
  BY DEF st
<1>11. ASSUME NEW i \in 1 .. d - 1
       PROVE  f[i] = k - Len(t.in) + (ListBytes(t.stack, d - 1) - ListBytes(t.stack, i - 1))
  <2>1. i - 1 \in 0 .. d - 1 /\ i \in 1 .. d
    BY <1>1
  <2>2. ListBytes(t.stack, i - 1) = ListBytes(s.stack, i - 1)
    BY <1>7, <1>10, <2>1
  <2>3. e[i] = k - Len(s.in) + (ListBytes(s.stack, d) - ListBytes(s.stack, i - 1))
    BY <1>6, <2>1 DEF Lists
  <2>4. QED
    BY <1>5, <1>9, <1>10, <2>2, <2>3
<1>12. t.limited => ListBytes(t.stack, d - 1) <= t.remaining
  BY <1>6, <1>9, <1>10 DEF Lists
<1>13. Lists(t, k, f)
  BY <1>3, <1>5, <1>10, <1>11, <1>12 DEF Lists
<1>14. QED
  BY <1>3, <1>5, <1>10, <1>13 DEF f

\* The list ahead is entered: unless it is larger than the list it is in, its end is known.
LEMMA EnteredKeeps ==
    ASSUME NEW s, NEW k \in Nat, NEW e \in Seq(Int), Ahead(s, k, e), s.kind = "List",
           InList(s) => s.size <= listLimit(s), NEW t,
           t = [s EXCEPT !.stack = Append(outerLimits(s), s.size), !.kind = "none", !.size = 0]
    PROVE  Sound(t, k, Append(e, k - Len(t.in) + s.size))
<1> DEFINE low == Lowered(s.stack, s.size)
           f == Append(e, k - Len(t.in) + s.size)
<1>1. s \in Streams /\ Lists(s, k, e) /\ s.kinderr = "nil" /\ (s.limited => s.size <= s.remaining)
  BY DEF Ahead, Sound
<1>2. s.size \in Lengths /\ s.size \in Nat /\ s.stack \in Seq(Lengths) /\ 0 \in Lengths
  BY <1>1, CapacityWithin DEF Streams, Lengths
<1>3. s.stack # <<>> => s.size <= s.stack[Len(s.stack)]
  BY LastIs DEF InList, listLimit
<1>4. outerLimits(s) = low
  <2>1. CASE s.stack = <<>>
    BY <2>1 DEF outerLimits, InList, Lowered
  <2>2. CASE s.stack # <<>>
    <3>1. Len(s.stack) \in 1 .. Len(s.stack)
      BY <1>2, <2>2, EmptySeq, LenProperties
    <3>2. s.stack[Len(s.stack)] \in Lengths
      BY <1>2, <3>1
    <3>3. (s.stack[Len(s.stack)] - s.size) % Uint64 = s.stack[Len(s.stack)] - s.size
      <4> DEFINE x == s.stack[Len(s.stack)]
      <4> HIDE DEF x
      <4>1. x \in Lengths /\ s.size <= x /\ Uint64 \in Nat
        BY <1>3, <2>2, <3>2, CapacityWithin DEF x
      <4>2. x - s.size \in Int /\ 0 <= x - s.size /\ x - s.size < Uint64
        BY <1>2, <4>1 DEF Lengths
      <4>3. QED
        BY <4>1, <4>2, Remainder DEF x
    <3>4. QED
      BY <2>2, <3>3 DEF outerLimits, InList, Lowered
  <2>3. QED
    BY <2>1, <2>2
<1>5. low \in Seq(Lengths)
  BY <1>2, <1>3, LoweredIsSeq
<1> HIDE DEF low, f
<1>6. /\ t \in Streams /\ t.stack = Append(low, s.size) /\ t.in = s.in /\ t.kind = "none"
      /\ t.limited = s.limited /\ t.remaining = s.remaining /\ t.kinderr = "nil"
  <2>1. Append(low, s.size) \in Seq(Lengths)
    BY <1>2, <1>5
  <2>2. t = [s EXCEPT !.stack = Append(low, s.size), !.kind = "none", !.size = 0]
    BY <1>4
  <2>3. QED
    BY <1>1, <1>2, <2>1, <2>2 DEF Streams
<1>7. Lists(t, k, f)
  BY <1>1, <1>2, <1>3, <1>6, OpenedList DEF low, f
<1>8. Sound(t, k, f)
  BY <1>6, <1>7 DEF Sound
<1>9. QED
  BY <1>8 DEF f

\* List: the end of a list that was entered is known, the lists around it end where they did.
LEMMA ListKeeps ==
    ASSUME NEW s, NEW k \in Nat, NEW e \in Seq(Int), Sound(s, k, e), List(s).err \in Harmless
    PROVE  /\ List(s).err # "nil" => Sound(List(s).s, k, e)
           /\ (List(s).err = "nil" /\ ~(InList(s) /\ List(s).v > listLimit(Kind(s).s))) =>
                  Sound(List(s).s, k, Append(e, k - Len(List(s).s.in) + List(s).v))
<1> DEFINE r == Kind(s)
           t == [r.s EXCEPT !.stack = Append(outerLimits(r.s), r.s.size), !.kind = "none", !.size = 0]
<1>1. List(s) = IF r.err # "nil" THEN Result(r.s, 0, r.err)
                ELSE IF r.s.kind # "List" THEN Result(r.s, 0, "ExpectedList")
                ELSE Result(t, r.s.size, "nil")
  BY DEF List, Then
<1>2. Keeps(r, k, e) /\ (r.err = "nil" => Ahead(r.s, k, e))
  BY KindKeeps DEF Keeps, Ahead, Harmless
<1>3. Len(e) = Len(s.stack) /\ s.stack \in Seq(Lengths)
  BY StackIsSeq DEF Sound, Lists
<1>4. r.err = "nil" => (InList(r.s) <=> InList(s)) /\ r.s.size \in Nat
  <2>1. SUFFICES ASSUME r.err = "nil"
                 PROVE  (InList(r.s) <=> InList(s)) /\ r.s.size \in Nat
    OBVIOUS
  <2>2. Sound(r.s, k, e)
    BY <1>2, <2>1 DEF Ahead
  <2> HIDE DEF r
  <2>3. Len(e) = Len(r.s.stack) /\ r.s.stack \in Seq(Lengths)
    BY <2>2, StackIsSeq DEF Sound, Lists
  <2>4. QED
    BY <1>3, <2>2, <2>3, SizeIsNat, EmptySeq DEF InList
<1> HIDE DEF r
<1>5. CASE r.err # "nil"
  BY <1>1, <1>2, <1>5 DEF Keeps, Result
<1>6. CASE r.err = "nil" /\ r.s.kind # "List"
  BY <1>1, <1>2, <1>6 DEF Ahead, Result
<1>7. CASE r.err = "nil" /\ r.s.kind = "List"
  <2>1. List(s).s = t /\ List(s).v = r.s.size /\ List(s).err = "nil"
    BY <1>1, <1>7 DEF Result
  <2>2. SUFFICES ASSUME ~(InList(s) /\ r.s.size > listLimit(r.s))
                 PROVE  Sound(t, k, Append(e, k - Len(t.in) + r.s.size))
    BY <2>1 DEF r
  <2>3. InList(r.s) => r.s.size <= listLimit(r.s)
    <3>1. SUFFICES ASSUME InList(r.s)
                   PROVE  r.s.size <= listLimit(r.s)
      OBVIOUS
    <3>2. listLimit(r.s) \in Nat
      <4>1. r.s.stack \in Seq(Nat) /\ r.s.stack # <<>>
        BY <1>2, <1>7, <3>1, StackIsSeq DEF Ahead, Sound, InList
      <4>2. Len(r.s.stack) \in 1 .. Len(r.s.stack)
        BY <4>1, EmptySeq, LenProperties
      <4>3. QED
        BY <3>1, <4>1, <4>2, LastIs DEF listLimit
    <3>3. QED
      BY <1>4, <1>7, <2>2, <3>1, <3>2
  <2>4. Ahead(r.s, k, e)
    BY <1>2, <1>7
  <2>5. QED
    BY <1>7, <2>3, <2>4, EnteredKeeps
<1>8. QED
  BY <1>5, <1>6, <1>7

\* List returns the size of the list that it entered.
LEMMA EnteredSize ==
    ASSUME NEW s, NEW k \in Nat, NEW e, Sound(s, k, e), List(s).err = "nil"
    PROVE  List(s).v \in Nat
<1> DEFINE r == Kind(s)
           t == [r.s EXCEPT !.stack = Append(outerLimits(r.s), r.s.size), !.kind = "none", !.size = 0]
<1>1. List(s) = IF r.err # "nil" THEN Result(r.s, 0, r.err)
                ELSE IF r.s.kind # "List" THEN Result(r.s, 0, "ExpectedList")
                ELSE Result(t, r.s.size, "nil")
  BY DEF List, Then
<1>2. r.err = "nil" => r.s.size \in Nat
  BY KindKeeps, SizeIsNat DEF Harmless
<1> HIDE DEF r
<1>3. QED
  BY <1>1, <1>2 DEF Result

\* ListEnd: it closes a list only where the list ends.
LEMMA ListEndKeeps ==
    ASSUME NEW s, NEW k \in Nat, NEW e \in Seq(Int), Sound(s, k, e)
    PROVE  /\ ListEnd(s).err # "nil" => Sound(ListEnd(s).s, k, e)
           /\ ListEnd(s).err = "nil" => Sound(ListEnd(s).s, k, Front(e)) /\ Front(e) \in Seq(Int)
<1> DEFINE t == [s EXCEPT !.stack = Front(@), !.kind = "none", !.size = 0]
<1>1. s \in Streams /\ Lists(s, k, e) /\ s.stack \in Seq(Nat) /\ s.stack \in Seq(Lengths)
  BY StackIsSeq DEF Sound
<1>2. CASE ~InList(s)
  BY <1>2 DEF ListEnd, Result
<1>3. CASE InList(s) /\ listLimit(s) > 0
  BY <1>3 DEF ListEnd, Result
<1>4. CASE InList(s) /\ ~(listLimit(s) > 0)
  <2>1. Len(s.stack) \in 1 .. Len(s.stack)
    BY <1>1, <1>4, EmptySeq, LenProperties DEF InList
  <2>2. listLimit(s) = s.stack[Len(s.stack)] /\ s.stack[Len(s.stack)] \in Nat
    BY <1>1, <1>4, <2>1, LastIs DEF listLimit
  <2>3. s.stack[Len(s.stack)] = 0 /\ s.stack # <<>>
    BY <1>4, <2>2 DEF InList
  <2>4. s.kinderr = "nil"
    BY <2>3 DEF Sound
  <2>5. /\ t.stack = Front(s.stack) /\ t.in = s.in /\ t.limited = s.limited /\ t.remaining = s.remaining
        /\ t.kind = "none" /\ t.kinderr = s.kinderr
    BY <1>1 DEF Streams
  <2>6. ListEnd(s) = Result(t, 0, "nil")
    BY <1>4 DEF ListEnd
  <2>7. 0 \in Lengths
    BY CapacityWithin, TagsOrdered DEF Lengths
  <2>8. Lists(t, k, Front(e)) /\ t.stack \in Seq(Lengths) /\ Front(e) \in Seq(Int)
    <3> HIDE DEF t
    <3>1. QED
      BY <1>1, <2>3, <2>5, ClosedList
  <2>9. t \in Streams
    <3>1. Front(s.stack) \in Seq(Lengths)
      BY <2>5, <2>8
    <3>2. QED
      BY <1>1, <2>7, <3>1 DEF Streams
  <2> HIDE DEF t
  <2>10. Sound(t, k, Front(e))
    BY <2>4, <2>5, <2>8, <2>9 DEF Sound
  <2>11. QED
    BY <2>6, <2>8, <2>10 DEF Result
<1>5. QED
  BY <1>2, <1>3, <1>4

-----------------------------------------------------------------------------
(* The invariant of a Stream under its caller: as long as no read failed and *)
(* no list overran its own, the stream is Sound for the ends recorded.        *)

StreamInv ==
    intact => /\ input \in Seq(Byte) /\ ends \in Seq(Int)
              /\ Sound(stream, Len(input), ends)

\* A new Stream, limited or not, and one that starts inside a list.
LEMMA NewStreamSound ==
    ASSUME NEW b \in Seq(Byte), NEW n \in Nat, NEW k \in Nat
    PROVE  /\ Sound(NewStream(b, n), k, <<>>)
           /\ n < Uint64 => Sound(NewListStream(b, n), k, <<>>)
<1>1. 0 \in Byte /\ 0 \in Lengths /\ <<>> \in Seq(Lengths) /\ <<>> \in Seq(Nat) /\ (n > 0) \in BOOLEAN
  BY CapacityWithin, TagsOrdered DEF Lengths, Byte
<1>2. \A s : (s.stack = <<>> /\ s.remaining = n) => Lists(s, k, <<>>)
  <2>1. ListBytes(<<>>, 0) = 0
    BY <1>1, ListBytesAdd
  <2>2. Len(<<>>) = 0 /\ \A i \in 1 .. 0 : FALSE
    OBVIOUS
  <2>3. QED
    BY <2>1, <2>2 DEF Lists
<1> DEFINE s == NewStream(b, n)
           t == NewListStream(b, n)
<1>3. s \in Streams /\ s.kinderr = "nil" /\ s.kind = "none" /\ s.stack = <<>> /\ s.remaining = n
  BY <1>1 DEF NewStream, Streams, Errors
<1>4. Sound(s, k, <<>>)
  BY <1>2, <1>3 DEF Sound
<1>5. ASSUME n < Uint64
      PROVE  Sound(t, k, <<>>)
  <2>1. n \in Lengths
    BY <1>5, CapacityWithin DEF Lengths
  <2>2. t = [s EXCEPT !.kind = "List", !.size = n]
    BY DEF NewListStream
  <2> HIDE DEF s, t
  <2>3. t \in Streams /\ t.kinderr = "nil" /\ t.stack = <<>> /\ t.remaining = n /\ t.size = n
    BY <1>3, <2>1, <2>2 DEF Streams
  <2>4. t.size <= t.remaining
    BY <2>3
  <2>5. QED
    BY <1>2, <2>3, <2>4 DEF Sound
<1>6. QED
  BY <1>4, <1>5

\* The invariant holds before any input is opened.
LEMMA StreamInvInit == StreamInit => StreamInv
<1>1. <<>> \in Seq(Byte) /\ <<>> \in Seq(Int) /\ Len(<<>>) \in Nat /\ 0 \in Nat
  OBVIOUS
<1>2. QED
  BY <1>1, NewStreamSound DEF StreamInit, StreamInv, StreamIdle

\* A new Stream has no lists.
LEMMA OpenKeeps == Open => StreamInv'
<1> SUFFICES ASSUME Open
             PROVE  StreamInv'
  OBVIOUS
<1>1. PICK b \in Inputs \ {<<>>} :
          /\ input' = b
          /\ stream' \in {NewStream(b, Len(b)), NewStream(b, 0), NewListStream(b, Len(b))}
  BY DEF Open
<1>2. b \in Seq(Byte) /\ Len(b) < Uint64 /\ Len(b) \in Nat /\ 0 \in Nat /\ <<>> \in Seq(Int)
  BY <1>1, InputsAssumption
<1>3. ends' = <<>>
  BY DEF Open
<1>4. Sound(stream', Len(b), <<>>)
  BY <1>1, <1>2, NewStreamSound
<1>5. QED
  BY <1>1, <1>2, <1>3, <1>4 DEF StreamInv

\* A call with a result that keeps the stream sound.
LEMMA CallKeeps ==
    ASSUME NEW r, StreamInv, Call(r), Keeps(r, Len(input), ends), ends' = ends
    PROVE  StreamInv'
BY DEF StreamInv, Call, Keeps

\* Every call keeps the invariant.
LEMMA StreamInvStep == StreamInv /\ [StreamNext]_streamVars => StreamInv'
<1> SUFFICES ASSUME StreamInv, [StreamNext]_streamVars
             PROVE  StreamInv'
  OBVIOUS
<1> DEFINE k == Len(input)
<1>0. intact => k \in Nat /\ ends \in Seq(Int) /\ input \in Seq(Byte) /\ Sound(stream, k, ends)
  BY LenProperties DEF StreamInv
<1> HIDE DEF k
<1>1. CASE Open
  BY <1>1, OpenKeeps
<1>2. CASE CallKind \/ CallBytes \/ CallReadBytes \/ CallRaw \/ CallUint \/ CallBigInt
  <2>1. CASE ~intact
    BY <1>2, <2>1 DEF CallKind, CallBytes, CallReadBytes, CallRaw, CallUint, CallBigInt, Call, StreamInv
  <2>2. CASE intact
    <3>1. /\ Keeps(Kind(stream), k, ends) /\ Keeps(Bytes(stream), k, ends)
          /\ Keeps(ReadBytes(stream, 1), k, ends) /\ Keeps(Raw(stream), k, ends)
          /\ Keeps(Uint(stream, Long), k, ends) /\ Keeps(BigInt(stream, TRUE), k, ends)
      BY <1>0, <2>2, ValueCallsKeep
    <3>2. QED
      BY <1>2, <3>1, CallKeeps DEF k, CallKind, CallBytes, CallReadBytes, CallRaw, CallUint, CallBigInt
  <2>3. QED
    BY <2>1, <2>2
<1>3. CASE CallList
  <2> DEFINE r == List(stream)
  <2>1. /\ stream' = r.s /\ input' = input
        /\ intact' = (intact /\ r.err \in Harmless
                      /\ ~(r.err = "nil" /\ InList(stream) /\ r.v > listLimit(Kind(stream).s)))
        /\ ends' = IF r.err = "nil" THEN Append(ends, k - Len(r.s.in) + r.v) ELSE ends
    BY <1>3 DEF CallList, EnterList, Oversized, k
  <2>2. SUFFICES ASSUME intact'
                 PROVE  ends' \in Seq(Int) /\ Sound(r.s, k, ends')
    BY <1>0, <2>1 DEF StreamInv, k
  <2>3. intact /\ r.err \in Harmless
    BY <2>1, <2>2
  <2>4. CASE r.err # "nil"
    BY <1>0, <2>1, <2>3, <2>4, ListKeeps
  <2>5. CASE r.err = "nil"
    <3>1. Sound(r.s, k, Append(ends, k - Len(r.s.in) + r.v))
      BY <1>0, <2>1, <2>2, <2>3, <2>5, ListKeeps
    <3>2. Len(r.s.in) \in Nat
      BY <3>1, LenProperties DEF Sound, Streams
    <3>3. r.v \in Nat
      BY <1>0, <2>3, <2>5, EnteredSize
    <3> HIDE DEF r
    <3>4. k - Len(r.s.in) + r.v \in Int
      BY <1>0, <2>3, <3>2, <3>3
    <3>5. Append(ends, k - Len(r.s.in) + r.v) \in Seq(Int)
      BY <1>0, <2>3, <3>4
    <3>6. QED
      BY <2>1, <2>5, <3>1, <3>5
  <2>6. QED
    BY <2>4, <2>5
<1>4. CASE CallListEnd
  <2> DEFINE r == ListEnd(stream)
  <2>1. /\ stream' = r.s /\ input' = input /\ intact' = (intact /\ r.err \in Harmless)
        /\ ends' = IF r.err = "nil" THEN Front(ends) ELSE ends
    BY <1>4 DEF CallListEnd, Call
  <2>2. CASE ~intact
    BY <2>1, <2>2 DEF StreamInv
  <2>3. CASE intact
    <3>1. /\ r.err # "nil" => Sound(r.s, k, ends)
          /\ r.err = "nil" => Sound(r.s, k, Front(ends)) /\ Front(ends) \in Seq(Int)
      BY <1>0, <2>3, ListEndKeeps
    <3> HIDE DEF r
    <3>2. QED
      BY <1>0, <2>1, <2>3, <3>1 DEF StreamInv, k
  <2>4. QED
    BY <2>2, <2>3
<1>5. CASE UNCHANGED streamVars
  BY <1>5 DEF streamVars, StreamInv
<1>6. QED
  BY <1>1, <1>2, <1>3, <1>4, <1>5 DEF StreamNext, StreamCall

\* The invariant says that the lists end where their headers said.
LEMMA StreamInvKeepsLists == StreamInv => StreamKeepsLists
<1> SUFFICES ASSUME StreamInv, intact
             PROVE  StreamKeepsLists
  BY DEF StreamKeepsLists, ListsFitInput, ListsEndWhereDeclared
<1> DEFINE d == Len(stream.stack)
<1>1. stream \in Streams /\ Lists(stream, Len(input), ends) /\ ends \in Seq(Int)
  BY DEF StreamInv, Sound
<1>2. stream.stack \in Seq(Nat) /\ d \in Nat
  BY <1>1, StackIsSeq
<1>3. ListBytes(stream.stack, 0) = 0 /\ ListBytes(stream.stack, d) \in Nat
  <2>1. d \in 0 .. Len(stream.stack)
    BY <1>2
  <2>2. QED
    BY <1>2, <2>1, ListBytesAdd
<1>4. ListsFitInput
  <2>1. stream.limited => ListBytes(stream.stack, d) <= stream.remaining
    BY <1>1 DEF Lists
  <2>2. Budget(1) = ListBytes(stream.stack, d)
    <3>1. Budget(1) = ListBytes(stream.stack, d) - ListBytes(stream.stack, 1 - 1)
      BY DEF Budget
    <3>2. 1 - 1 = 0 /\ \A x \in Nat : x - 0 = x
      OBVIOUS
    <3> HIDE DEF d
    <3>3. QED
      BY <1>3, <3>1, <3>2
  <2>3. QED
    BY <2>1, <2>2 DEF ListsFitInput
<1>5. ListsEndWhereDeclared
  <2>1. Len(ends) = Len(stream.stack) /\ DOMAIN ends = 1 .. d
    BY <1>1, LenProperties DEF Lists
  <2>2. \A i \in 1 .. d : ends[i] = Position + Budget(i)
    BY <1>1 DEF Lists, Position, Budget
  <2>3. QED
    BY <2>1, <2>2 DEF ListsEndWhereDeclared
<1>6. QED
  BY <1>4, <1>5 DEF StreamKeepsLists

\* For every size of the tags' ranges and every input: whatever a caller of a Stream
\* calls, in whatever order (decode.go: Kind, Bytes, Raw, Uint, BigInt, List, ListEnd),
\* as long as no read failed and no list overran its own, the open lists fit in the
\* input that may still be read and each of them ends where its header said.
THEOREM StreamListsKept == StreamSpec => []StreamKeepsLists
<1>1. StreamInit => StreamInv
  BY StreamInvInit
<1>2. StreamInv /\ [StreamNext]_streamVars => StreamInv'
  BY StreamInvStep
<1>3. StreamInv => StreamKeepsLists
  BY StreamInvKeepsLists
<1>4. QED
  BY <1>1, <1>2, <1>3, PTL DEF StreamSpec

(***************************************************************************)
(* The bytes of a number: the digits that the code shifts out one by one   *)
(* are what it adds up when it reads them.                                 *)
(***************************************************************************)

\* What \div and % are.
LEMMA Division ==
    ASSUME NEW n \in Nat, NEW r \in Nat, r > 1
    PROVE  \E q \in Nat, m \in 0 .. r - 1 :
               /\ n \div r = q /\ n % r = m /\ n = q * r + m
               /\ n >= r => q >= 1 /\ q < n
<1> DEFINE q == n \div r
           m == n % r
<1>1. q \in Int /\ m \in 0 .. r - 1
  OBVIOUS
<1>2. m = n - r * q
  OBVIOUS
<1>3. q \in Nat
  OBVIOUS
<1>4. n \div r = q /\ n % r = m
  OBVIOUS
<1> HIDE DEF q, m
<1>5. n = q * r + m
  <2>1. \A a, b \in Int : a * b = b * a /\ a * b \in Int
    OBVIOUS
  <2>2. \A p, x, a \in Int : x = a - p => a = p + x
    OBVIOUS
  <2>3. QED
    BY <1>1, <1>2, <2>1, <2>2
<1>6. ASSUME n >= r PROVE q >= 1 /\ q < n
  <2>1. q # 0
    BY <1>1, <1>5, <1>6
  <2>2. 2 * q \in Nat /\ r * q \in Nat /\ 2 * q <= r * q
    BY <1>3, ProductOrder
  <2>3. QED
    BY <1>1, <1>2, <1>3, <2>1, <2>2
<1>7. QED
  BY <1>1, <1>3, <1>4, <1>5, <1>6

\* d has the digits of all numbers up to i.
Digits(d, i) == d = [n \in 0 .. i |-> IF n < Radix THEN <<n>> ELSE Append(d[n \div Radix], n % Radix)]

\* What putint computes with exists.
LEMMA DigitsExist ==
    ASSUME NEW i \in Nat
    PROVE  \E d : Digits(d, i)
<1> DEFINE T == {j \in Nat : \E d : Digits(d, j)}
<1>1. Radix \in Nat /\ Radix > 1
  BY TagsOrdered
<1>2. 0 \in T
  <2> DEFINE d == [n \in 0 .. 0 |-> <<n>>]
  <2>1. \A n \in 0 .. 0 : n < Radix
    BY <1>1
  <2>2. Digits(d, 0)
    BY <2>1 DEF Digits
  <2>3. QED
    BY <2>2
<1>3. ASSUME NEW j \in Nat, j \in T PROVE j + 1 \in T
  <2>1. PICK d : Digits(d, j)
    BY <1>3
  <2> DEFINE e == [n \in 0 .. j + 1 |-> IF n < Radix THEN <<n>> ELSE Append(d[n \div Radix], n % Radix)]
  <2>2. \A n \in 0 .. j : d[n] = e[n]
    <3>1. \A n \in 0 .. j : d[n] = IF n < Radix THEN <<n>> ELSE Append(d[n \div Radix], n % Radix)
      BY <2>1 DEF Digits
    <3>2. \A n \in 0 .. j : n \in 0 .. j + 1
      OBVIOUS
    <3>3. \A n \in 0 .. j : e[n] = IF n < Radix THEN <<n>> ELSE Append(d[n \div Radix], n % Radix)
      BY <3>2
    <3> HIDE DEF e
    <3>4. QED
      BY <3>1, <3>3
  <2>3. \A n \in 0 .. j + 1 : ~(n < Radix) => n \div Radix \in 0 .. j
    <3> SUFFICES ASSUME NEW n \in 0 .. j + 1, ~(n < Radix) PROVE n \div Radix \in 0 .. j
      OBVIOUS
    <3> DEFINE q == n \div Radix
    <3>1. q \in Nat /\ q < n
      BY <1>1, Division
    <3> HIDE DEF q
    <3>2. q \in 0 .. j
      BY <3>1
    <3>3. QED
      BY <3>2 DEF q
  <2>4. Digits(e, j + 1)
    <3>1. \A n \in 0 .. j + 1 : ~(n < Radix) => d[n \div Radix] = e[n \div Radix]
      BY <2>2, <2>3
    <3> DEFINE f == [n \in 0 .. j + 1 |-> IF n < Radix THEN <<n>> ELSE Append(e[n \div Radix], n % Radix)]
    <3>2. \A n \in 0 .. j + 1 : e[n] = f[n]
      <4> SUFFICES ASSUME NEW n \in 0 .. j + 1 PROVE e[n] = f[n]
        OBVIOUS
      <4>1. e[n] = IF n < Radix THEN <<n>> ELSE Append(d[n \div Radix], n % Radix)
        OBVIOUS
      <4>2. f[n] = IF n < Radix THEN <<n>> ELSE Append(e[n \div Radix], n % Radix)
        OBVIOUS
      <4>3. ~(n < Radix) => d[n \div Radix] = e[n \div Radix]
        BY <3>1
      <4> HIDE DEF e, f
      <4>4. QED
        BY <4>1, <4>2, <4>3
    <3>3. e = f
      BY <3>2
    <3>4. QED
      BY <3>3 DEF Digits
  <2>5. QED
    BY <2>4
<1> HIDE DEF T
<1>4. i \in T
  BY <1>2, <1>3, EachNext
<1>5. QED
  BY <1>4 DEF T

\* The digits of a number do not depend on how far they were computed.
LEMMA DigitsUnique ==
    ASSUME NEW i \in Nat, NEW j \in Nat, NEW d, NEW e, Digits(d, i), Digits(e, j),
           NEW k \in Nat, k <= i, k <= j
    PROVE  d[k] = e[k]
<1> DEFINE T == {n \in Nat : (n <= i /\ n <= j) => d[n] = e[n]}
<1>1. Radix \in Nat /\ Radix > 1
  BY TagsOrdered
<1>2. ASSUME NEW n \in Nat, \A m \in 0 .. n - 1 : m \in T PROVE n \in T
  <2> SUFFICES ASSUME n <= i, n <= j PROVE d[n] = e[n]
    OBVIOUS
  <2>1. n \in 0 .. i /\ n \in 0 .. j
    OBVIOUS
  <2>2. d[n] = IF n < Radix THEN <<n>> ELSE Append(d[n \div Radix], n % Radix)
    BY <2>1 DEF Digits
  <2>3. e[n] = IF n < Radix THEN <<n>> ELSE Append(e[n \div Radix], n % Radix)
    BY <2>1 DEF Digits
  <2>4. ~(n < Radix) => d[n \div Radix] = e[n \div Radix]
    <3> SUFFICES ASSUME ~(n < Radix) PROVE d[n \div Radix] = e[n \div Radix]
      OBVIOUS
    <3> DEFINE q == n \div Radix
    <3>1. q \in Nat /\ q < n
      BY <1>1, Division
    <3> HIDE DEF q
    <3>2. q \in 0 .. n - 1 /\ q <= i /\ q <= j
      BY <3>1
    <3>3. q \in T
      BY <1>2, <3>2
    <3>4. d[q] = e[q]
      BY <3>2, <3>3
    <3>5. QED
      BY <3>4 DEF q
  <2>5. QED
    BY <2>2, <2>3, <2>4
<1> HIDE DEF T
<1>3. k \in T
  BY <1>2, AllNumbers
<1>4. QED
  BY <1>3 DEF T

\* putint, as the recursion it is.
LEMMA putintIs ==
    ASSUME NEW i \in Nat
    PROVE  putint(i) = IF i < Radix THEN <<i>> ELSE Append(putint(i \div Radix), i % Radix)
<1>1. ASSUME NEW n \in Nat PROVE \E d : Digits(d, n) /\ putint(n) = d[n]
  <2> DEFINE d == CHOOSE f : Digits(f, n)
  <2>1. Digits(d, n)
    BY DigitsExist
  <2>2. putint(n) = d[n]
    BY DEF putint, Digits
  <2>3. QED
    BY <2>1, <2>2
<1>2. PICK d : Digits(d, i) /\ putint(i) = d[i]
  BY <1>1
<1>3. i \in 0 .. i
  OBVIOUS
<1>4. d[i] = IF i < Radix THEN <<i>> ELSE Append(d[i \div Radix], i % Radix)
  BY <1>2, <1>3 DEF Digits
<1>5. ASSUME ~(i < Radix) PROVE d[i \div Radix] = putint(i \div Radix)
  <2> DEFINE q == i \div Radix
  <2>1. q \in Nat /\ q < i
    BY <1>5, Division, TagsOrdered
  <2> HIDE DEF q
  <2>2. PICK e : Digits(e, q) /\ putint(q) = e[q]
    BY <1>1, <2>1
  <2>3. q <= i /\ q <= q
    BY <2>1
  <2>4. d[q] = e[q]
    BY <1>2, <2>1, <2>2, <2>3, DigitsUnique
  <2>5. QED
    BY <2>2, <2>4 DEF q
<1>6. QED
  BY <1>2, <1>4, <1>5

\* One more byte.
LEMMA BigEndianAppend ==
    ASSUME NEW b \in Seq(Byte), NEW x \in Byte
    PROVE  BigEndian(Append(b, x)) = BigEndian(b) * Radix + x
<1> DEFINE c == Append(b, x)
           n == Len(b)
<1>1. c \in Seq(Byte) /\ n \in Nat /\ Len(c) = n + 1 /\ c[n + 1] = x /\ \A m \in 1 .. n : c[m] = b[m]
  OBVIOUS
<1> HIDE DEF c
<1>2. PICK g : Grows(g, Len(b), 0, Radix, b) /\ BigEndian(b) = g[Len(b)]
  BY BigEndianGrows
<1>3. PICK h : Grows(h, Len(c), 0, Radix, c) /\ BigEndian(c) = h[Len(c)]
  BY <1>1, BigEndianGrows
<1> HIDE DEF n
<1>4. n + 1 \in 1 .. n + 1 /\ (n + 1) - 1 = n /\ n \in 0 .. n /\ \A m \in 1 .. n : m \in 1 .. n + 1
  BY <1>1
<1>5. Grows(h, n, 0, Radix, c) /\ h[n + 1] = h[n] * Radix + c[n + 1]
  BY <1>1, <1>3, <1>4 DEF Grows
<1>6. Alike(c, b, n)
  BY <1>1 DEF Alike
<1>7. h[n] = g[n]
  <2>1. Grows(g, n, 0, Radix, b)
    BY <1>2 DEF n
  <2>2. \A m \in 0 .. n : h[m] = g[m]
    BY <1>1, <1>5, <1>6, <2>1, GrowsAlike
  <2>3. QED
    BY <1>4, <2>2
<1>8. BigEndian(b) = g[n]
  BY <1>2 DEF n
<1>9. QED
  BY <1>1, <1>3, <1>5, <1>7, <1>8 DEF c

\* One byte.
LEMMA BigEndianByte ==
    ASSUME NEW x \in Byte
    PROVE  BigEndian(<<x>>) = x
<1>1. <<>> \in Seq(Byte) /\ Len(<<>>) = 0 /\ <<x>> = Append(<<>>, x)
  OBVIOUS
<1>2. BigEndian(<<>>) = 0
  <2>1. PICK g : Grows(g, Len(<<>>), 0, Radix, <<>>) /\ BigEndian(<<>>) = g[Len(<<>>)]
    BY <1>1, BigEndianGrows
  <2>2. QED
    BY <1>1, <2>1 DEF Grows
<1>3. x \in Int /\ Radix \in Nat
  BY TagsOrdered DEF Byte
<1>4. BigEndian(Append(<<>>, x)) = 0 * Radix + x
  BY <1>1, <1>2, BigEndianAppend
<1>5. QED
  BY <1>1, <1>3, <1>4

\* The bytes b are the number i, with the least number of bytes.
BytesOfInt(b, i) ==
    /\ b \in Seq(Byte) /\ Len(b) \in Nat /\ Len(b) >= 1
    /\ BigEndian(b) = i
    /\ i > 0 => b[1] # 0
    /\ \A m \in 1 .. Long : i < Capacity[m] => Len(b) <= m

\* putint writes every number with the least number of bytes, and they are the number.
LEMMA putintBytes ==
    ASSUME NEW i \in Nat
    PROVE  BytesOfInt(putint(i), i)
<1> DEFINE T == {n \in Nat : BytesOfInt(putint(n), n)}
<1>1. Radix \in Nat /\ Radix > 1 /\ Long \in Nat /\ Byte = 0 .. Radix - 1
  BY TagsOrdered DEF Byte
<1>2. ASSUME NEW n \in Nat, \A k \in 0 .. n - 1 : k \in T PROVE n \in T
  <2>1. CASE n < Radix
    <3>1. n \in Byte /\ putint(n) = <<n>>
      BY <1>1, <2>1, putintIs
    <3>2. <<n>> \in Seq(Byte) /\ Len(<<n>>) = 1 /\ <<n>>[1] = n
      BY <3>1
    <3>3. BigEndian(<<n>>) = n
      BY <3>1, BigEndianByte
    <3>4. n > 0 => n # 0
      OBVIOUS
    <3>5. BytesOfInt(<<n>>, n)
      BY <3>2, <3>3, <3>4 DEF BytesOfInt
    <3>6. QED
      BY <3>1, <3>5
  <2>2. CASE ~(n < Radix)
    <3>1. PICK q \in Nat, x \in 0 .. Radix - 1 :
              /\ n \div Radix = q /\ n % Radix = x /\ n = q * Radix + x
              /\ n >= Radix => q >= 1 /\ q < n
      BY <1>1, Division
    <3> DEFINE p == putint(q)
               b == Append(p, x)
    <3>2. q >= 1 /\ q < n /\ x \in Byte /\ x \in Nat
      BY <1>1, <2>2, <3>1
    <3>3. putint(n) = b
      BY <2>2, <3>1, putintIs
    <3>4. BytesOfInt(p, q)
      <4>1. q \in 0 .. n - 1
        BY <3>2
      <4>2. QED
        BY <1>2, <4>1
    <3> HIDE DEF p, T
    <3>5. p \in Seq(Byte) /\ Len(p) \in Nat /\ Len(p) >= 1 /\ BigEndian(p) = q /\ p[1] # 0
      BY <3>2, <3>4 DEF BytesOfInt
    <3>6. b \in Seq(Byte) /\ Len(b) = Len(p) + 1 /\ b[1] = p[1]
      BY <3>2, <3>5
    <3>7. BigEndian(b) = n
      BY <3>1, <3>2, <3>5, BigEndianAppend
    <3>8. ASSUME NEW m \in 1 .. Long, n < Capacity[m] PROVE Len(b) <= m
      <4>1. Capacity[m] = Capacity[m - 1] * Radix /\ Capacity[m - 1] \in Nat /\ Capacity[0] = 1 /\ Capacity[m] \in Nat
        <5>1. m - 1 \in 0 .. Long /\ m \in 0 .. Long
          BY <1>1
        <5>2. QED
          BY <5>1, CapacityGrows
      <4> DEFINE c == Capacity[m - 1]
      <4>2. q * Radix < c * Radix
        <5>1. q * Radix \in Nat /\ c * Radix \in Nat
          BY <1>1, <4>1
        <5>2. q * Radix <= n /\ n < c * Radix
          BY <3>1, <3>2, <3>8, <4>1, <5>1
        <5>3. QED
          BY <5>1, <5>2
      <4> HIDE DEF c
      <4>3. c \in Nat
        BY <4>1 DEF c
      <4>4. q < c
        <5>1. SUFFICES ASSUME c <= q PROVE FALSE
          BY <4>3
        <5>2. c * Radix \in Nat /\ q * Radix \in Nat /\ c * Radix <= q * Radix
          BY <1>1, <4>3, <5>1, ProductOrder
        <5>3. QED
          BY <4>2, <5>2
      <4>5. m # 1
        BY <3>2, <4>1, <4>4 DEF c
      <4>6. m - 1 \in 1 .. Long
        BY <1>1, <4>5
      <4>7. Len(p) <= m - 1
        BY <3>4, <4>4, <4>6 DEF BytesOfInt, c
      <4>8. QED
        BY <3>5, <3>6, <4>7
    <3> HIDE DEF b
    <3>9. Len(b) \in Nat /\ Len(b) >= 1 /\ b[1] # 0
      BY <3>5, <3>6
    <3>10. BytesOfInt(b, n)
      BY <3>6, <3>7, <3>8, <3>9 DEF BytesOfInt
    <3>11. QED
      BY <3>3, <3>10 DEF T
  <2>3. QED
    BY <2>1, <2>2
<1> HIDE DEF T
<1>3. i \in T
  BY <1>2, AllNumbers
<1>4. QED
  BY <1>3 DEF T

(***************************************************************************)
(* What the encoder writes is read back.                                   *)
(***************************************************************************)

\* The limits of s leave n bytes.
Allows(s, n) ==
    /\ s.stack # <<>> => n <= s.stack[Len(s.stack)]
    /\ s.limited => n <= s.remaining

\* t is s after n bytes, and rest is what follows.
Moved(s, t, n, rest) ==
    /\ t \in Streams /\ t.in = rest /\ t.stack = Lowered(s.stack, n)
    /\ t.limited = s.limited /\ t.remaining = IF s.limited THEN s.remaining - n ELSE s.remaining

\* What is left after some of the bytes that the limits allow.
LEMMA MovedTwice ==
    ASSUME NEW s \in Streams, NEW n \in Nat, NEW m \in Nat, Allows(s, n + m), NEW t, NEW x, Moved(s, t, n, x)
    PROVE  /\ Allows(t, m)
           /\ \A u, y : Moved(t, u, m, y) => Moved(s, u, n + m, y)
<1> DEFINE d == Len(s.stack)
<1>1. s.stack \in Seq(Lengths) /\ s.stack \in Seq(Nat) /\ d \in Nat /\ s.remaining \in Nat /\ s.limited \in BOOLEAN
  BY StackIsSeq DEF Streams
<1>2. s.stack # <<>> => n <= s.stack[d]
  <2> SUFFICES ASSUME s.stack # <<>> PROVE n <= s.stack[d]
    OBVIOUS
  <2>1. s.stack[d] \in Nat
    BY <1>1
  <2>2. n + m <= s.stack[d]
    BY DEF Allows
  <2>3. QED
    BY <2>1, <2>2
<1>3. /\ t.stack \in Seq(Lengths) /\ Len(t.stack) = d
      /\ \A i \in 1 .. d : t.stack[i] = IF i = d THEN s.stack[i] - n ELSE s.stack[i]
  BY <1>1, <1>2, LoweredIsSeq DEF Moved
<1>4. s.stack = <<>> <=> t.stack = <<>>
  BY <1>1, <1>3
<1>5. s.stack # <<>> => d \in 1 .. d /\ t.stack[d] = s.stack[d] - n /\ s.stack[d] \in Nat
  BY <1>1, <1>3
<1>6. t.stack # <<>> => m <= t.stack[d]
  <2>1. s.stack # <<>> => n + m <= s.stack[d]
    BY DEF Allows
  <2>2. QED
    BY <1>4, <1>5, <2>1
<1>7. t.limited => m <= t.remaining
  <2>1. s.limited => n + m <= s.remaining
    BY DEF Allows
  <2>2. QED
    BY <1>1, <2>1 DEF Moved
<1>8. ASSUME NEW u, NEW y, Moved(t, u, m, y) PROVE Moved(s, u, n + m, y)
  <2>1. Lowered(t.stack, m) = Lowered(s.stack, n + m)
    <3>1. CASE s.stack = <<>>
      BY <1>4, <3>1 DEF Lowered
    <3>2. CASE s.stack # <<>>
      <4>1. s.stack # <<>> => n + m <= s.stack[d]
        BY DEF Allows
      <4>2. Lowered(s.stack, n + m) \in Seq(Lengths) /\ Len(Lowered(s.stack, n + m)) = d
            /\ \A i \in 1 .. d : Lowered(s.stack, n + m)[i] = IF i = d THEN s.stack[i] - (n + m) ELSE s.stack[i]
        BY <1>1, <4>1, LoweredIsSeq
      <4>3. Lowered(t.stack, m) \in Seq(Lengths) /\ Len(Lowered(t.stack, m)) = d
            /\ \A i \in 1 .. d : Lowered(t.stack, m)[i] = IF i = d THEN t.stack[i] - m ELSE t.stack[i]
        BY <1>3, <1>6, LoweredIsSeq
      <4> HIDE DEF d
      <4>4. \A i \in 1 .. d : Lowered(s.stack, n + m)[i] = Lowered(t.stack, m)[i]
        <5>1. (s.stack[d] - n) - m = s.stack[d] - (n + m)
          BY <1>5, <3>2
        <5>2. QED
          BY <1>3, <1>5, <3>2, <4>2, <4>3, <5>1
      <4>5. QED
        BY <4>2, <4>3, <4>4, SeqEqual
    <3>3. QED
      BY <3>1, <3>2
  <2>2. s.limited => (s.remaining - n) - m = s.remaining - (n + m)
    BY <1>1
  <2>3. QED
    BY <1>8, <2>1, <2>2 DEF Moved
<1>9. QED
  BY <1>3, <1>6, <1>7, <1>8 DEF Allows

\* Bytes that are there and that the limits allow are read.
LEMMA FullRead ==
    ASSUME NEW s \in Streams, NEW w \in Seq(Byte), NEW rest \in Seq(Byte), s.in = w \o rest, Allows(s, Len(w))
    PROVE  /\ readFull(s, Len(w)).err = "nil" /\ readFull(s, Len(w)).v = w
           /\ HasRead(s, readFull(s, Len(w)).s, Len(w)) /\ readFull(s, Len(w)).s.kind = "none"
           /\ Moved(s, readFull(s, Len(w)).s, Len(w), rest)
<1> DEFINE n == Len(w)
           r == willRead(s, n)
<1>1. n \in Nat /\ Len(s.in) \in Nat /\ n <= Len(s.in) /\ s.in \in Seq(Byte)
  OBVIOUS
<1>2. SubSeq(s.in, 1, n) = w /\ SubSeq(s.in, n + 1, Len(s.in)) = rest
  OBVIOUS
<1>3. r.err = "nil"
  <2>1. InList(s) => ~(n > listLimit(s))
    BY <1>1, LastIs, StackIsSeq DEF InList, listLimit, Allows
  <2>2. s.limited => ~(n > s.remaining)
    BY <1>1 DEF Allows, Streams
  <2>3. QED
    BY <2>1, <2>2 DEF willRead, Result
<1>4. r.s.in = s.in
  <2>1. r.s = [s EXCEPT !.kind = "none", !.stack = Lowered(s.stack, n),
                        !.remaining = IF s.limited THEN s.remaining - n ELSE s.remaining]
    BY <1>1, <1>3, willReadNil
  <2>2. QED
    BY <2>1 DEF Streams
<1> HIDE DEF r
<1>5. readFull(s, n) = Result([r.s EXCEPT !.in = SubSeq(@, n + 1, Len(@))], SubSeq(r.s.in, 1, n), "nil")
  BY <1>1, <1>3, <1>4 DEF readFull, Then, r
<1>6. readFull(s, n).err = "nil" /\ readFull(s, n).v = w
  BY <1>2, <1>4, <1>5 DEF Result
<1>7. HasRead(s, readFull(s, n).s, n) /\ readFull(s, n).s.kind = "none"
  BY <1>1, <1>6, readFullNil
<1>8. readFull(s, n).s.in = rest
  <2>1. r.s \in Streams
    BY <1>1, willReadType DEF r
  <2>2. readFull(s, n).s = [r.s EXCEPT !.in = SubSeq(r.s.in, n + 1, Len(r.s.in))]
    BY <1>5 DEF Result
  <2>3. QED
    BY <1>2, <1>4, <2>1, <2>2 DEF Streams
<1>9. QED
  BY <1>6, <1>7, <1>8 DEF HasRead, Moved

\* A string of one byte.
LEMMA OneByte ==
    ASSUME NEW w \in Seq(Byte), Len(w) = 1
    PROVE  w = <<w[1]>> /\ w[1] \in Byte
<1>1. w[1] \in Byte
  OBVIOUS
<1> DEFINE x == w[1]
           u == <<x>>
<1>2. u \in Seq(Byte) /\ Len(u) = 1 /\ u[1] = x
  BY <1>1
<1> HIDE DEF u
<1>3. \A i \in 1 .. 1 : w[i] = u[i]
  BY <1>2
<1>4. w = u
  BY <1>2, <1>3, SeqEqual
<1>5. QED
  BY <1>1, <1>4 DEF u

\* A byte that is there is read.
LEMMA ByteRead ==
    ASSUME NEW s \in Streams, NEW b \in Byte, NEW rest \in Seq(Byte), s.in = <<b>> \o rest, Allows(s, 1)
    PROVE  /\ readByte(s).err = "nil" /\ readByte(s).v = b
           /\ Moved(s, readByte(s).s, 1, rest) /\ readByte(s).s.kind = "none"
<1> DEFINE w == <<b>>
<1>1. w \in Seq(Byte) /\ Len(w) = 1 /\ w[1] = b
  OBVIOUS
<1> HIDE DEF w
<1>2. s.in = w \o rest /\ Allows(s, Len(w))
  BY <1>1 DEF w
<1>3. /\ readFull(s, 1).err = "nil" /\ readFull(s, 1).v = w
      /\ Moved(s, readFull(s, 1).s, 1, rest) /\ readFull(s, 1).s.kind = "none"
  BY <1>1, <1>2, FullRead
<1>4. readByte(s) = Result(readFull(s, 1).s, readFull(s, 1).v[1], "nil")
  BY <1>3 DEF readByte, Then
<1>5. QED
  BY <1>1, <1>3, <1>4 DEF Result

\* A number that putint wrote is read by readUint.
LEMMA NumberRead ==
    ASSUME NEW s \in Streams, NEW i \in Nat, i > 0, NEW rest \in Seq(Byte), s.in = putint(i) \o rest,
           Allows(s, Len(putint(i)))
    PROVE  LET r == readUint(s, Len(putint(i)))
           IN  /\ r.err = "nil" /\ r.v = i
               /\ Moved(s, r.s, Len(putint(i)), rest) /\ r.s.kind = "none"
<1> DEFINE w == putint(i)
           n == Len(w)
<1>1. w \in Seq(Byte) /\ n \in Nat /\ n >= 1 /\ BigEndian(w) = i /\ w[1] # 0
  BY putintBytes DEF BytesOfInt
<1> HIDE DEF w
<1>2. s.in = w \o rest /\ Allows(s, n)
  BY DEF w
<1>3. CASE n = 1
  <2>1. w = <<w[1]>> /\ w[1] \in Byte
    BY <1>1, <1>3, OneByte
  <2>2. w[1] = i
    BY <1>1, <2>1, BigEndianByte
  <2>3. /\ readByte(s).err = "nil" /\ readByte(s).v = i
        /\ Moved(s, readByte(s).s, 1, rest) /\ readByte(s).s.kind = "none"
    BY <1>2, <1>3, <2>1, <2>2, ByteRead
  <2>4. readUint(s, 1) = readByte(s)
    BY DEF readUint
  <2>5. QED
    BY <1>3, <2>3, <2>4 DEF w
<1>4. CASE n # 1
  <2>1. /\ readFull(s, n).err = "nil" /\ readFull(s, n).v = w
        /\ Moved(s, readFull(s, n).s, n, rest) /\ readFull(s, n).s.kind = "none"
    BY <1>1, <1>2, FullRead
  <2> HIDE DEF n
  <2>2. n # 0 /\ n # 1
    BY <1>1, <1>4
  <2>3. readUint(s, n) = Result(readFull(s, n).s, BigEndian(w), "nil")
    BY <1>1, <2>1, <2>2 DEF readUint, Then
  <2>4. QED
    BY <1>1, <2>1, <2>3 DEF Result, w, n
<1>5. QED
  BY <1>3, <1>4

\* Kind, for a header that was read and a size that the limits allow.
LEMMA KindFound ==
    ASSUME NEW s \in Streams, s.kind = "none", NEW n \in Nat, n >= 1, Allows(s, n),
           NEW r \in Streams, readKind(s) = r, r.kinderr = "nil",
           r.size <= n, s.limited => r.size <= r.remaining
    PROVE  Kind(s) = Result(r, 0, "nil")
<1>1. /\ r.size \in Nat /\ s.remaining \in Nat /\ r.remaining \in Nat
      /\ InList(s) => listLimit(s) \in Nat /\ n <= listLimit(s)
  <2>1. InList(s) => listLimit(s) = s.stack[Len(s.stack)] /\ s.stack[Len(s.stack)] \in Nat
    BY StackIsSeq, LastIs DEF InList, listLimit
  <2>2. QED
    BY <2>1, CapacityWithin DEF Allows, Streams, Lengths, InList
<1>2. InList(s) => listLimit(s) # 0 /\ ~(r.size > listLimit(s))
  BY <1>1
<1>3. s.limited => ~(r.size > r.remaining)
  BY <1>1
<1>4. Kind(s) = newKind(s, r)
  BY <1>2 DEF Kind
<1>5. sizeError(s, r) = "nil"
  BY <1>2, <1>3 DEF sizeError
<1>6. [r EXCEPT !.kinderr = "nil"] = r
  BY DEF Streams
<1>7. QED
  BY <1>4, <1>5, <1>6 DEF newKind, KindFrom

\* Kind found a value of this kind and size, m bytes on.
Found(s, k, kind, size, m, rest) ==
    /\ k \in Streams /\ Kind(s) = Result(k, 0, "nil")
    /\ k.kind = kind /\ k.size = size /\ Moved(s, k, m, rest)

\* A tag is read, and says what comes next.
LEMMA TagFound ==
    ASSUME NEW s \in Streams, NEW tag \in Byte, NEW rest \in Seq(Byte), s.in = <<tag>> \o rest, Allows(s, 1)
    PROVE  \E t \in Streams : Moved(s, t, 1, rest) /\ t.kind = "none" /\ readKind(s) = tagKind(t, tag)
<1> DEFINE r == readByte(s)
<1>1. r.err = "nil" /\ r.v = tag /\ Moved(s, r.s, 1, rest) /\ r.s.kind = "none"
  BY ByteRead
<1> HIDE DEF r
<1>2. readKind(s) = tagKind(r.s, tag)
  BY <1>1 DEF readKind, readKindFrom, r
<1>3. QED
  BY <1>1, <1>2 DEF Moved

\* What a tag says comes next.
Says(tag, kind, size, x) == \A t : tagKind(t, tag) = SetKind(t, kind, size, x, "nil")

\* A value without a length of its own behind the tag.
ShortAhead(s, tag, rest, kind, size, x) ==
    /\ s \in Streams /\ s.kind = "none" /\ tag \in Byte /\ rest \in Seq(Byte) /\ s.in = <<tag>> \o rest
    /\ kind \in {"Byte", "String"} /\ size \in Lengths /\ x \in Byte
    /\ Says(tag, kind, size, x) /\ Allows(s, 1 + size)

LEMMA ShortFound ==
    ASSUME NEW s, NEW tag, NEW rest, NEW kind, NEW n, NEW x, ShortAhead(s, tag, rest, kind, n, x)
    PROVE  \E k : Found(s, k, kind, n, 1, rest) /\ k.byteval = x /\ Allows(k, n)
<1>0. /\ s \in Streams /\ s.kind = "none" /\ tag \in Byte /\ rest \in Seq(Byte) /\ s.in = <<tag>> \o rest
      /\ kind \in {"Byte", "String"} /\ n \in Lengths /\ n \in Nat /\ x \in Byte
      /\ Says(tag, kind, n, x) /\ Allows(s, 1 + n)
  BY CapacityWithin DEF ShortAhead, Lengths
<1>1. Allows(s, 1)
  <2>1. s.stack # <<>> => s.stack[Len(s.stack)] \in Nat
    BY <1>0, StackIsSeq
  <2>2. s.remaining \in Nat
    BY <1>0 DEF Streams
  <2>3. QED
    BY <1>0, <2>1, <2>2 DEF Allows
<1>2. PICK t \in Streams : Moved(s, t, 1, rest) /\ t.kind = "none" /\ readKind(s) = tagKind(t, tag)
  BY <1>0, <1>1, TagFound
<1> DEFINE k == SetKind(t, kind, n, x, "nil")
<1>3. /\ k \in Streams /\ k.kind = kind /\ k.size = n /\ k.byteval = x /\ k.kinderr = "nil"
      /\ k.stack = t.stack /\ k.in = t.in /\ k.limited = t.limited /\ k.remaining = t.remaining
  <2>1. "nil" \in Errors /\ kind \in {"none", "Byte", "String", "List"}
    BY <1>0 DEF Errors
  <2>2. t \in Streams /\ n \in Lengths /\ x \in Byte
    BY <1>0, <1>2
  <2>3. QED
    BY <2>1, <2>2, SetKindType
<1>4. readKind(s) = k
  BY <1>0, <1>2 DEF Says
<1> HIDE DEF k
<1>5. Moved(s, k, 1, rest)
  BY <1>2, <1>3 DEF Moved
<1>6. Allows(k, n) /\ n \in Nat /\ 1 + n \in Nat /\ 1 + n >= 1
  BY <1>0, <1>5, MovedTwice
<1>7. /\ k.size <= 1 + n /\ (s.limited => k.size <= k.remaining)
  <2>1. n \in Nat /\ k.remaining \in Nat
    BY <1>0, <1>3, CapacityWithin DEF Lengths, Streams
  <2>2. k.limited => n <= k.remaining
    BY <1>6 DEF Allows
  <2>3. k.limited = s.limited
    BY <1>5 DEF Moved
  <2>4. QED
    BY <1>0, <1>3, <2>1, <2>2, <2>3
<1>8. Kind(s) = Result(k, 0, "nil")
  BY <1>0, <1>3, <1>4, <1>6, <1>7, KindFound
<1>9. QED
  BY <1>3, <1>5, <1>6, <1>8 DEF Found

\* A string with a length behind the tag.
LEMMA LongFound ==
    ASSUME NEW s \in Streams, s.kind = "none", NEW n \in Lengths, n >= Short, NEW rest \in Seq(Byte),
           s.in = (<<LongStringTag + Len(putint(n))>> \o putint(n)) \o rest,
           Allows(s, 1 + Len(putint(n)) + n)
    PROVE  \E k : Found(s, k, "String", n, 1 + Len(putint(n)), rest) /\ Allows(k, n)
<1> DEFINE p == putint(n)
           l == Len(p)
           tag == LongStringTag + l
<1>1. n \in Nat /\ n > 0 /\ n < Capacity[Long] /\ Long \in 1 .. Long
  BY TagsOrdered, CapacityWithin DEF Lengths, Uint64
<1>2. p \in Seq(Byte) /\ l \in Nat /\ l >= 1 /\ l <= Long
  BY <1>1, putintBytes DEF BytesOfInt
<1>3. tag \in Byte /\ tag \in LongStringTag + 1 .. ListTag - 1 /\ tag - LongStringTag = l
      /\ ~(tag < Single) /\ tag \notin StringTag .. LongStringTag
      /\ tag \notin ListTag .. LongListTag /\ ~(tag > LongListTag)
  <2> HIDE DEF l
  <2>1. QED
    BY <1>2, TagsOrdered DEF Byte
<1> HIDE DEF p
<1>4. s.in = (<<tag>> \o p) \o rest /\ Allows(s, 1 + l + n)
  BY DEF p
<1> HIDE DEF tag
<1>5. s.in = <<tag>> \o (p \o rest) /\ p \o rest \in Seq(Byte)
  <2>1. <<tag>> \in Seq(Byte)
    BY <1>3
  <2> DEFINE w == <<tag>>
  <2> HIDE DEF w
  <2>2. (w \o p) \o rest = w \o (p \o rest)
    BY <1>2, <2>1, ConcatAssociative DEF w
  <2>3. p \o rest \in Seq(Byte)
    BY <1>2, ConcatProperties
  <2>4. s.in = (w \o p) \o rest
    BY <1>4 DEF w
  <2>5. s.in = w \o (p \o rest)
    BY <2>2, <2>4
  <2>6. QED
    BY <2>3, <2>5 DEF w
<1> HIDE DEF l
<1>6. Allows(s, 1) /\ Allows(s, 1 + l)
  <2>1. s.stack # <<>> => s.stack[Len(s.stack)] \in Nat
    BY StackIsSeq
  <2>2. s.remaining \in Nat
    BY DEF Streams
  <2>3. \A a, b, c \in Nat : 1 + a + b <= c => 1 <= c /\ 1 + a <= c
    OBVIOUS
  <2>4. QED
    BY <1>1, <1>2, <1>4, <2>1, <2>2, <2>3 DEF Allows
<1>7. PICK t \in Streams : Moved(s, t, 1, p \o rest) /\ t.kind = "none" /\ readKind(s) = tagKind(t, tag)
  BY <1>3, <1>5, <1>6, TagFound
<1>8. Allows(t, l) /\ t.in = p \o rest
  BY <1>2, <1>6, <1>7, MovedTwice DEF Moved
<1> DEFINE u == readUint(t, l)
<1>9. u.err = "nil" /\ u.v = n /\ Moved(t, u.s, l, rest) /\ u.s.kind = "none"
  BY <1>1, <1>8, NumberRead DEF p, l
<1>10. tagKind(t, tag) = longSize("String", u)
  BY <1>3 DEF tagKind
<1> HIDE DEF u
<1> DEFINE k == SetKind(u.s, "String", n, 0, "nil")
<1>11. longSize("String", u) = k
  <2>1. ~(n < Short)
    BY <1>1, TagsOrdered
  <2>2. QED
    BY <1>9, <2>1 DEF longSize
<1>12. /\ k \in Streams /\ k.kind = "String" /\ k.size = n /\ k.kinderr = "nil"
       /\ k.stack = u.s.stack /\ k.in = u.s.in /\ k.limited = u.s.limited /\ k.remaining = u.s.remaining
  <2>1. "nil" \in Errors /\ 0 \in Byte /\ u.s \in Streams
    BY <1>9, TagsOrdered DEF Errors, Byte, Moved
  <2>2. QED
    BY <2>1, SetKindType
<1>13. readKind(s) = k
  BY <1>7, <1>10, <1>11
<1> HIDE DEF k
<1>14. Moved(t, k, l, rest)
  BY <1>9, <1>12 DEF Moved
<1>15. Moved(s, k, 1 + l, rest)
  BY <1>2, <1>6, <1>7, <1>14, MovedTwice
<1>16. Allows(k, n) /\ 1 + l + n \in Nat /\ 1 + l + n >= 1 /\ n <= 1 + l + n /\ 1 + l \in Nat
  <2>1. 1 + l \in Nat /\ 1 + l + n = (1 + l) + n
    BY <1>1, <1>2
  <2>2. Allows(k, n)
    BY <1>1, <1>4, <1>15, <2>1, MovedTwice
  <2>3. QED
    BY <1>1, <1>2, <2>2
<1>17. s.limited => k.size <= k.remaining
  BY <1>12, <1>15, <1>16 DEF Allows, Moved
<1>18. Kind(s) = Result(k, 0, "nil")
  <2> DEFINE m == 1 + l + n
  <2>1. m \in Nat /\ m >= 1 /\ k.size <= m /\ Allows(s, m)
    BY <1>4, <1>12, <1>16
  <2> HIDE DEF m
  <2>2. QED
    BY <1>12, <1>13, <1>17, <2>1, KindFound
<1>19. QED
  BY <1>12, <1>15, <1>16, <1>18 DEF Found, l, p

\* What is written to an empty buffer.
LEMMA Written ==
    ASSUME NEW w \in Seq(Byte)
    PROVE  Write(EmptyBuffer, w).str = w
BY DEF Write, EmptyBuffer

\* The call with the result r has read the value v, of n bytes, and nothing behind it.
ReadBack(s, r, v, n, rest) == r.err = "nil" /\ r.v = v /\ Moved(s, r.s, n, rest) /\ r.s.kind = "none"

\* The bytes w, alone or in a list or with more behind them, are ahead of s.
IsAhead(s, w, rest) ==
    /\ s \in Streams /\ s.kind = "none" /\ rest \in Seq(Byte)
    /\ s.in = w \o rest /\ Allows(s, Len(w))

\* So they are for the Stream that DecodeBytes makes of them, and for one without a limit.
LEMMA WholeInput ==
    ASSUME NEW w \in Seq(Byte), NEW limit \in {0, Len(w)}
    PROVE  IsAhead(NewStream(w, limit), w, <<>>)
<1> DEFINE s == NewStream(w, limit)
<1>1. 0 \in Byte /\ 0 \in Lengths /\ "nil" \in Errors /\ Len(w) \in Nat /\ limit \in Nat
  BY TagsOrdered, CapacityWithin DEF Byte, Lengths, Errors
<1>2. /\ s \in Streams /\ s.kind = "none" /\ s.in = w /\ s.stack = <<>> /\ s.remaining = limit
  BY <1>1 DEF NewStream, Streams
<1>3. s.limited => Len(w) <= s.remaining
  <2>1. CASE limit = 0
    <3>1. ~(limit > 0)
      BY <2>1
    <3>2. ~s.limited
      BY <3>1, Zenon DEF NewStream
    <3>3. QED
      BY <3>2
  <2>2. CASE limit = Len(w)
    <3>1. Len(w) <= limit
      BY <1>1, <2>2
    <3>2. QED
      BY <1>2, <3>1
  <2>3. QED
    BY <2>1, <2>2
<1> HIDE DEF s
<1>4. w \o <<>> = w /\ <<>> \in Seq(Byte)
  OBVIOUS
<1>5. QED
  BY <1>2, <1>3, <1>4 DEF IsAhead, Allows, s

\* A value that was in the tag itself.
LEMMA RearmRead ==
    ASSUME NEW s, NEW k \in Streams, NEW n, NEW rest, Moved(s, k, n, rest), NEW v
    PROVE  ReadBack(s, Result(Rearm(k), v, "nil"), v, n, rest)
<1> DEFINE r == Rearm(k)
<1>1. /\ r \in Streams /\ r.kind = "none" /\ r.in = k.in /\ r.stack = k.stack
      /\ r.limited = k.limited /\ r.remaining = k.remaining
  BY DEF Rearm, Streams
<1> HIDE DEF r
<1>2. Moved(s, r, n, rest)
  BY <1>1 DEF Moved
<1>3. QED
  BY <1>1, <1>2 DEF ReadBack, Result, r

\* Every integer of 64 bits that the encoder wrote is read back as itself, with all of its
\* bytes and no other, wherever it is in the input (writeUint64 of encbuffer.go, Uint64 of
\* decode.go).
THEOREM IntegersReadBack ==
    \A i \in 0 .. Uint64 - 1 : \A s, rest :
        LET w == writeUint64(EmptyBuffer, i).str
        IN  IsAhead(s, w, rest) => ReadBack(s, Uint(s, Long), i, Len(w), rest)
<1> SUFFICES ASSUME NEW i \in Lengths, NEW s, NEW rest, IsAhead(s, writeUint64(EmptyBuffer, i).str, rest)
             PROVE  ReadBack(s, Uint(s, Long), i, Len(writeUint64(EmptyBuffer, i).str), rest)
  BY DEF Lengths
<1> DEFINE w == writeUint64(EmptyBuffer, i).str
<1>1. /\ s \in Streams /\ s.kind = "none" /\ rest \in Seq(Byte) /\ s.in = w \o rest /\ Allows(s, Len(w))
  BY DEF IsAhead
<1>2. i \in Nat /\ i < Capacity[Long] /\ Long \in 1 .. Long /\ Long \in Nat
  BY TagsOrdered, CapacityWithin DEF Lengths, Uint64
<1>3. \A k : Kind(s) = Result(k, 0, "nil") => Uint(s, Long) = UintAt(k, Long)
  BY DEF Uint, Then, Result
<1>4. CASE i = 0
  <2> DEFINE tag == StringTag
  <2>1. tag \in Byte /\ 0 \in Byte /\ 0 \in Lengths /\ ~(tag < Single) /\ tag \in StringTag .. LongStringTag
        /\ tag - StringTag = 0
    BY TagsOrdered, CapacityWithin DEF Byte, Lengths
  <2>2. w = <<tag>>
    <3>1. writeUint64(EmptyBuffer, i) = Write(EmptyBuffer, <<tag>>)
      BY <1>4 DEF writeUint64
    <3> HIDE DEF tag
    <3>2. <<tag>> \in Seq(Byte)
      BY <2>1
    <3>3. QED
      BY <3>1, <3>2, Written
  <2>3. Says(tag, "String", 0, 0)
    <3>1. /\ tag \notin LongStringTag + 1 .. ListTag - 1 /\ tag \notin ListTag .. LongListTag /\ ~(tag > LongListTag)
      BY TagsOrdered
    <3>2. QED
      BY <2>1, <3>1 DEF tagKind, Says
  <2> HIDE DEF w, tag
  <2>4. Len(w) = 1 + 0 /\ 0 \in Nat /\ 0 <= 0
    BY <2>2
  <2>5. PICK k : Found(s, k, "String", 0, 1, rest) /\ k.byteval = 0 /\ Allows(k, 0)
    <3>1. ShortAhead(s, tag, rest, "String", 0, 0)
      BY <1>1, <2>1, <2>2, <2>3, <2>4 DEF ShortAhead
    <3>2. QED
      BY <3>1, ShortFound
  <2>6. Uint(s, Long) = UintAt(k, Long) /\ k \in Streams /\ k.kind = "String" /\ k.size = 0 /\ Moved(s, k, 1, rest)
    BY <1>3, <2>5 DEF Found
  <2>7. UintAt(k, Long) = Result(Rearm(k), 0, "nil")
    <3>1. ~(0 > Long) /\ ~(0 > 0)
      BY <1>2
    <3>2. readUint(k, 0) = Result(Rearm(k), 0, "nil")
      BY DEF readUint
    <3>3. checkUint(k, readUint(k, 0)) = readUint(k, 0)
      BY <2>6, <3>1, <3>2 DEF checkUint, Result
    <3>4. QED
      BY <2>6, <3>1, <3>2, <3>3 DEF UintAt
  <2>8. ReadBack(s, Result(Rearm(k), 0, "nil"), 0, 1, rest)
    BY <2>6, RearmRead
  <2>9. ReadBack(s, Uint(s, Long), 0, Len(w), rest)
    BY <2>4, <2>6, <2>7, <2>8
  <2>10. QED
    BY <1>4, <2>9, Zenon DEF w
<1>5. CASE i \in 1 .. Single - 1
  <2>1. i \in Byte /\ i < Single /\ i \in Lengths /\ 0 \in Lengths /\ i # 0
    BY <1>5, TagsOrdered, CapacityWithin DEF Byte, Lengths
  <2>2. w = <<i>>
    <3>1. writeUint64(EmptyBuffer, i) = Write(EmptyBuffer, <<i>>)
      BY <1>5, <2>1 DEF writeUint64
    <3>2. <<i>> \in Seq(Byte)
      BY <2>1
    <3>3. QED
      BY <3>1, <3>2, Written
  <2>3. Says(i, "Byte", 0, i)
    <3>1. /\ i \notin StringTag .. LongStringTag /\ i \notin LongStringTag + 1 .. ListTag - 1
          /\ i \notin ListTag .. LongListTag /\ ~(i > LongListTag)
      BY <1>2, <2>1, TagsOrdered
    <3>2. QED
      BY <2>1, <3>1 DEF tagKind, Says
  <2> HIDE DEF w
  <2>4. Len(w) = 1 + 0 /\ 0 \in Nat /\ 0 <= 0
    BY <2>2
  <2>5. PICK k : Found(s, k, "Byte", 0, 1, rest) /\ k.byteval = i /\ Allows(k, 0)
    <3>1. ShortAhead(s, i, rest, "Byte", 0, i)
      BY <1>1, <2>1, <2>2, <2>3, <2>4 DEF ShortAhead
    <3>2. QED
      BY <3>1, ShortFound
  <2>6. Uint(s, Long) = UintAt(k, Long) /\ k \in Streams /\ k.kind = "Byte" /\ Moved(s, k, 1, rest)
    BY <1>3, <2>5 DEF Found
  <2>7. UintAt(k, Long) = Result(Rearm(k), i, "nil")
    BY <2>1, <2>5, <2>6 DEF UintAt
  <2>8. ReadBack(s, Result(Rearm(k), i, "nil"), i, 1, rest)
    BY <2>6, RearmRead
  <2>9. QED
    BY <2>4, <2>6, <2>7, <2>8 DEF w
<1>6. CASE i >= Single
  <2> DEFINE p == putint(i)
             l == Len(p)
             tag == StringTag + l
  <2>0. i > 0 /\ i # 0 /\ i \notin 1 .. Single - 1 /\ ~(i < Single)
    BY <1>2, <1>6, TagsOrdered
  <2>1. p \in Seq(Byte) /\ l \in Nat /\ l >= 1 /\ l <= Long
    BY <1>2, putintBytes DEF BytesOfInt
  <2>2. tag \in Byte /\ 0 \in Byte /\ l \in Lengths /\ ~(tag < Single) /\ tag \in StringTag .. LongStringTag
        /\ tag - StringTag = l
    <3> HIDE DEF l
    <3>1. QED
      BY <2>1, TagsOrdered, CapacityWithin DEF Byte, Lengths
  <2>3. Says(tag, "String", l, 0)
    <3> HIDE DEF l
    <3>1. /\ tag \notin LongStringTag + 1 .. ListTag - 1 /\ tag \notin ListTag .. LongListTag /\ ~(tag > LongListTag)
      BY <2>1, <2>2, TagsOrdered
    <3> HIDE DEF tag
    <3>2. QED
      BY <2>2, <3>1 DEF tagKind, Says
  <2>4. w = <<tag>> \o p
    <3>1. writeUint64(EmptyBuffer, i) = Write(EmptyBuffer, <<tag>> \o p)
      BY <2>0 DEF writeUint64, intsize
    <3> HIDE DEF tag, p
    <3>2. <<tag>> \o p \in Seq(Byte)
      BY <2>1, <2>2
    <3>3. QED
      BY <3>1, <3>2, Written
  <2> HIDE DEF w, tag, p
  <2>5. <<tag>> \in Seq(Byte) /\ Len(<<tag>>) = 1 /\ p \o rest \in Seq(Byte)
    BY <1>1, <2>1, <2>2, ConcatProperties
  <2>6. Len(w) = 1 + l
    BY <2>1, <2>4, <2>5, ConcatProperties
  <2>7. s.in = <<tag>> \o (p \o rest)
    <3> DEFINE h == <<tag>>
    <3> HIDE DEF h
    <3>1. (h \o p) \o rest = h \o (p \o rest)
      BY <1>1, <2>1, <2>5, ConcatAssociative DEF h
    <3>2. s.in = (h \o p) \o rest
      BY <1>1, <2>4 DEF h
    <3>3. s.in = h \o (p \o rest)
      BY <3>1, <3>2
    <3>4. QED
      BY <3>3 DEF h
  <2> HIDE DEF l
  <2>8. l <= l /\ Allows(s, 1 + l)
    BY <1>1, <2>1, <2>6
  <2> DEFINE y == p \o rest
  <2> HIDE DEF y
  <2>9. PICK k : Found(s, k, "String", l, 1, y) /\ k.byteval = 0 /\ Allows(k, l)
    <3>1. y \in Seq(Byte) /\ s.in = <<tag>> \o y
      BY <2>5, <2>7 DEF y
    <3>2. ShortAhead(s, tag, y, "String", l, 0)
      BY <1>1, <2>1, <2>2, <2>3, <2>8, <3>1 DEF ShortAhead
    <3>3. QED
      BY <3>2, ShortFound
  <2>10. /\ Uint(s, Long) = UintAt(k, Long) /\ k \in Streams /\ k.kind = "String" /\ k.size = l
         /\ Moved(s, k, 1, p \o rest) /\ k.in = p \o rest
    BY <1>3, <2>9 DEF Found, Moved, y
  <2> DEFINE u == readUint(k, l)
  <2>11. u.err = "nil" /\ u.v = i /\ Moved(k, u.s, l, rest) /\ u.s.kind = "none"
    <3>1. i \in Nat /\ i > 0 /\ rest \in Seq(Byte) /\ k \in Streams
      BY <1>1, <1>2, <2>0, <2>10
    <3>2. k.in = putint(i) \o rest /\ Allows(k, Len(putint(i)))
      BY <2>9, <2>10 DEF p, l
    <3>3. QED
      BY <3>1, <3>2, NumberRead DEF p, l
  <2>12. UintAt(k, Long) = checkUint(k, u)
    <3>1. ~(l > Long)
      BY <1>2, <2>1
    <3>2. QED
      BY <2>10, <3>1 DEF UintAt
  <2> HIDE DEF u
  <2>13. checkUint(k, u) = u
    BY <2>0, <2>11 DEF checkUint
  <2>14. Moved(s, u.s, 1 + l, rest)
    BY <1>1, <2>1, <2>8, <2>10, <2>11, MovedTwice
  <2>15. QED
    BY <2>6, <2>10, <2>11, <2>12, <2>13, <2>14 DEF ReadBack, w
<1>7. QED
  BY <1>2, <1>4, <1>5, <1>6, TagsOrdered
\* A string that was found, with all of its bytes ahead, is read.
LEMMA StringRead ==
    ASSUME NEW s \in Streams, NEW m \in Nat, NEW b \in Seq(Byte), NEW rest \in Seq(Byte), NEW k,
           Allows(s, m + Len(b)), Found(s, k, "String", Len(b), m, b \o rest),
           ~(Len(b) = 1 /\ b[1] < Single)
    PROVE  ReadBack(s, Bytes(s), b, m + Len(b), rest)
<1> DEFINE n == Len(b)
           r == readFull(k, n)
<1>1. k \in Streams /\ Kind(s) = Result(k, 0, "nil") /\ k.kind = "String" /\ k.size = n /\ Moved(s, k, m, b \o rest)
  BY DEF Found
<1>2. n \in Nat /\ k.in = b \o rest
  BY <1>1 DEF Moved
<1>3. Allows(k, n)
  BY <1>1, <1>2, MovedTwice
<1>4. r.err = "nil" /\ r.v = b /\ Moved(k, r.s, n, rest) /\ r.s.kind = "none"
  BY <1>1, <1>2, <1>3, FullRead
<1>5. Moved(s, r.s, m + n, rest)
  BY <1>1, <1>2, <1>4, MovedTwice
<1> HIDE DEF r
<1>6. ~shortByte(k, r.v)
  BY <1>1, <1>4 DEF shortByte
<1>7. Bytes(s) = r
  BY <1>1, <1>4, <1>6 DEF Bytes, StringAt, Then, Result, r
<1>8. QED
  BY <1>4, <1>5, <1>7 DEF ReadBack

\* Every string that the encoder wrote is read back as itself, with all of its bytes and no
\* other, wherever it is in the input (writeBytes and encodeStringHeader of encbuffer.go, Bytes
\* of decode.go).
THEOREM StringsReadBack ==
    \A b \in Seq(Byte) : \A s, rest :
        LET w == writeBytes(EmptyBuffer, b).str
        IN  Len(b) < Uint64 /\ IsAhead(s, w, rest) => ReadBack(s, Bytes(s), b, Len(w), rest)
<1> SUFFICES ASSUME NEW b \in Seq(Byte), NEW s, NEW rest, Len(b) < Uint64,
                    IsAhead(s, writeBytes(EmptyBuffer, b).str, rest)
             PROVE  ReadBack(s, Bytes(s), b, Len(writeBytes(EmptyBuffer, b).str), rest)
  OBVIOUS
<1> DEFINE w == writeBytes(EmptyBuffer, b).str
           n == Len(b)
<1>1. /\ s \in Streams /\ s.kind = "none" /\ rest \in Seq(Byte) /\ s.in = w \o rest /\ Allows(s, Len(w))
  BY DEF IsAhead
<1>2. n \in Nat /\ n \in Lengths /\ b \o rest \in Seq(Byte)
  BY <1>1, CapacityWithin, ConcatProperties DEF Lengths, Uint64
<1> DEFINE y == b \o rest
<1>3. CASE n = 1 /\ b[1] < Single
  <2>1. b = <<b[1]>> /\ b[1] \in Byte /\ b[1] \in Nat
    BY <1>3, OneByte DEF Byte
  <2>2. w = b
    <3>1. writeBytes(EmptyBuffer, b) = Write(EmptyBuffer, b)
      BY <1>3 DEF writeBytes
    <3>2. QED
      BY <3>1, Written
  <2>3. Says(b[1], "Byte", 0, b[1])
    <3> DEFINE i == b[1]
    <3>0. i \in Nat /\ i < Single
      BY <1>3, <2>1
    <3> HIDE DEF i
    <3>1. /\ i \notin StringTag .. LongStringTag /\ i \notin LongStringTag + 1 .. ListTag - 1
          /\ i \notin ListTag .. LongListTag /\ ~(i > LongListTag) /\ i < Single
      BY <3>0, TagsOrdered
    <3>2. Says(i, "Byte", 0, i)
      BY <3>1 DEF tagKind, Says
    <3>3. QED
      BY <3>2 DEF i
  <2> HIDE DEF w
  <2>4. PICK k : Found(s, k, "Byte", 0, 1, rest) /\ k.byteval = b[1] /\ Allows(k, 0)
    <3>1. s.in = <<b[1]>> \o rest
      BY <1>1, <2>1, <2>2
    <3>2. Allows(s, 1 + 0) /\ 0 \in Lengths
      <4>1. Len(w) = 1 + 0
        BY <1>3, <2>2
      <4>2. 0 \in Lengths
        BY TagsOrdered, CapacityWithin DEF Lengths
      <4>3. QED
        BY <1>1, <4>1, <4>2
    <3>3. ShortAhead(s, b[1], rest, "Byte", 0, b[1])
      BY <1>1, <2>1, <2>3, <3>1, <3>2 DEF ShortAhead
    <3>4. QED
      BY <3>3, ShortFound
  <2>5. k \in Streams /\ Kind(s) = Result(k, 0, "nil") /\ k.kind = "Byte" /\ Moved(s, k, 1, rest)
    BY <2>4 DEF Found
  <2>6. Bytes(s) = Result(Rearm(k), b, "nil")
    BY <2>1, <2>4, <2>5 DEF Bytes, StringAt, Then, Result
  <2>7. ReadBack(s, Result(Rearm(k), b, "nil"), b, 1, rest)
    BY <2>5, RearmRead
  <2>8. QED
    BY <1>3, <2>2, <2>6, <2>7 DEF w
<1>4. CASE ~(n = 1 /\ b[1] < Single) /\ n < Short
  <2> DEFINE tag == StringTag + n
  <2>1. tag \in Byte /\ 0 \in Byte
    <3> HIDE DEF n
    <3>1. QED
      BY <1>2, <1>4, TagsOrdered DEF Byte
  <2>2. Says(tag, "String", n, 0)
    <3> HIDE DEF n
    <3>1. /\ ~(tag < Single) /\ tag \in StringTag .. LongStringTag /\ tag - StringTag = n
          /\ tag \notin LongStringTag + 1 .. ListTag - 1 /\ tag \notin ListTag .. LongListTag /\ ~(tag > LongListTag)
      BY <1>2, <1>4, TagsOrdered
    <3> HIDE DEF tag
    <3>2. QED
      BY <3>1 DEF tagKind, Says
  <2>3. w = <<tag>> \o b
    <3>1. writeBytes(EmptyBuffer, b) = Write(EmptyBuffer, <<tag>> \o b)
      BY <1>4 DEF writeBytes, encodeStringHeader, puthead
    <3> HIDE DEF tag
    <3>2. <<tag>> \o b \in Seq(Byte)
      BY <2>1
    <3>3. QED
      BY <3>1, <3>2, Written
  <2> HIDE DEF w, tag
  <2>4. <<tag>> \in Seq(Byte) /\ Len(<<tag>>) = 1
    BY <2>1
  <2>5. Len(w) = 1 + n
    BY <2>3, <2>4, ConcatProperties
  <2>6. s.in = <<tag>> \o y
    <3> DEFINE h == <<tag>>
    <3> HIDE DEF h
    <3>1. (h \o b) \o rest = h \o (b \o rest)
      BY <1>1, <2>4, ConcatAssociative DEF h
    <3>2. s.in = (h \o b) \o rest
      BY <1>1, <2>3 DEF h
    <3>3. s.in = h \o (b \o rest)
      BY <3>1, <3>2
    <3>4. QED
      BY <3>3 DEF h
  <2>7. PICK k : Found(s, k, "String", n, 1, y) /\ k.byteval = 0 /\ Allows(k, n)
    <3>1. Allows(s, 1 + n) /\ y \in Seq(Byte)
      BY <1>1, <1>2, <2>5
    <3> HIDE DEF y, n
    <3>2. ShortAhead(s, tag, y, "String", n, 0)
      BY <1>1, <1>2, <2>1, <2>2, <2>6, <3>1 DEF ShortAhead
    <3>3. QED
      BY <3>2, ShortFound
  <2>8. 1 \in Nat /\ Allows(s, 1 + n)
    BY <1>1, <2>5
  <2>9. ReadBack(s, Bytes(s), b, 1 + n, rest)
    BY <1>1, <1>4, <2>7, <2>8, StringRead
  <2>10. QED
    BY <2>5, <2>9 DEF w
<1>5. CASE ~(n = 1 /\ b[1] < Single) /\ ~(n < Short)
  <2> DEFINE p == putint(n)
             l == Len(p)
             h == <<LongStringTag + l>> \o p
  <2>0. n > 0 /\ n >= Short /\ n < Capacity[Long] /\ Long \in 1 .. Long
    BY <1>2, <1>5, TagsOrdered, CapacityWithin DEF Lengths, Uint64
  <2>1. p \in Seq(Byte) /\ l \in Nat /\ l >= 1 /\ l <= Long
    BY <1>2, <2>0, putintBytes DEF BytesOfInt
  <2>2. h \in Seq(Byte) /\ Len(h) = 1 + l
    <3> DEFINE tag == LongStringTag + l
    <3>1. tag \in Byte
      <4> HIDE DEF l
      <4>1. QED
        BY <2>1, TagsOrdered DEF Byte
    <3> HIDE DEF tag, p
    <3>2. <<tag>> \in Seq(Byte) /\ Len(<<tag>>) = 1
      BY <3>1
    <3>3. <<tag>> \o p \in Seq(Byte) /\ Len(<<tag>> \o p) = 1 + l
      BY <2>1, <3>2, ConcatProperties
    <3>4. QED
      BY <3>3 DEF tag
  <2>3. w = h \o b
    <3>1. writeBytes(EmptyBuffer, b) = Write(EmptyBuffer, h \o b)
      BY <1>5 DEF writeBytes, encodeStringHeader, puthead, intsize
    <3> HIDE DEF h
    <3>2. h \o b \in Seq(Byte)
      BY <2>2, ConcatProperties
    <3>3. QED
      BY <3>1, <3>2, Written
  <2> HIDE DEF w, h, p
  <2>4. Len(w) = (1 + l) + n
    BY <2>2, <2>3, ConcatProperties
  <2>5. s.in = h \o y /\ Allows(s, (1 + l) + n)
    <3>1. (h \o b) \o rest = h \o (b \o rest)
      BY <1>1, <2>2, ConcatAssociative
    <3>2. QED
      BY <1>1, <2>3, <2>4, <3>1
  <2>6. PICK k : Found(s, k, "String", n, 1 + l, y) /\ Allows(k, n)
    <3>1. y \in Seq(Byte) /\ n \in Lengths /\ n >= Short /\ s \in Streams /\ s.kind = "none"
      BY <1>1, <1>2, <2>0
    <3>2. /\ s.in = (<<LongStringTag + Len(putint(n))>> \o putint(n)) \o y
          /\ Allows(s, 1 + Len(putint(n)) + n)
      BY <2>5 DEF h, p
    <3> HIDE DEF y, n
    <3>3. QED
      BY <3>1, <3>2, LongFound DEF p
  <2>7. 1 + l \in Nat
    BY <2>1
  <2> HIDE DEF l
  <2>8. ReadBack(s, Bytes(s), b, (1 + l) + n, rest)
    BY <1>1, <1>5, <2>5, <2>6, <2>7, StringRead
  <2>9. QED
    BY <2>4, <2>8 DEF w
<1>6. QED
  BY <1>3, <1>4, <1>5

(***************************************************************************)
(* The index of addresses. The array is a trie: the element i stands for   *)
(* the bytes paths[i], and every element but those that a loop of          *)
(* makeByteValue has still to make is what a lookup needs.                 *)
(***************************************************************************)

KeyBytes == 0 .. KeyRadix - 2

Elements ==
    [nextLo : Nat, nextLen : 0 .. KeyRadix - 1, nextOffset : KeyBytes, valid : BOOLEAN,
     value : Seq(KeyBytes) \cup {NoAddress}]

\* the keys of ks that start with p
Below(ks, p) == {k \in ks : Len(p) <= Len(k) /\ \A m \in 1 .. Len(p) : k[m] = p[m]}

\* The element i has what lookups need: it knows whether its path is a key, and every
\* longer key below it goes on with a byte of its range.
Built(ks, st, ps, i) ==
    /\ st[i].valid <=> ps[i] \in ks
    /\ st[i].value = IF ps[i] \in ks THEN ps[i] ELSE NoAddress
    /\ \A k \in Below(ks, ps[i]) : Len(k) > Len(ps[i]) => ~outside(st[i], k[Len(ps[i]) + 1])

\* the elements behind i continue its path, one for each byte of its range
Continued(st, ps, i) ==
    /\ st[i].nextLo + st[i].nextLen <= Len(st)
    /\ \A b \in 0 .. st[i].nextLen - 1 :
           ps[st[i].nextLo + b + 1] = Append(ps[i], st[i].nextOffset + b)

\* the ranges of i and j are one behind the other
Apart(st, i, j) ==
    (st[i].nextLen > 0 /\ st[j].nextLen > 0) =>
        \/ st[i].nextLo + st[i].nextLen <= st[j].nextLo
        \/ st[j].nextLo + st[j].nextLen <= st[i].nextLo

Shape(st, ps) ==
    /\ st \in Seq(Elements) /\ ps \in Seq(Seq(KeyBytes)) /\ Len(ps) = Len(st)
    /\ 1 <= Len(st) /\ ps[1] = <<>>
    /\ \A i \in 1 .. Len(st) : Continued(st, ps, i)
    /\ \A i, j \in 1 .. Len(st) : i # j => Apart(st, i, j)

\* the element that the loop r makes for the key k
ElementOf(st, r, k) == st[r.bv + 1].nextLo + (k[r.byteIndex + 1] - st[r.bv + 1].nextOffset) + 1

\* the loop r, under way, of the element below: with a key it has all keys that go on
\* with the same byte, and their element was not made yet
Loop(ks, st, ps, r) ==
    /\ r.bv \in Nat /\ r.bv + 1 \in 1 .. Len(st) /\ r.byteIndex = Len(ps[r.bv + 1])
    /\ r.keys # {} /\ r.keys \subseteq Below(ks, ps[r.bv + 1])
    /\ \A k \in r.keys : /\ Len(k) > r.byteIndex /\ ~outside(st[r.bv + 1], k[r.byteIndex + 1])
                         /\ st[ElementOf(st, r, k)] = Empty
    /\ \A k \in r.keys : \A m \in Below(ks, ps[r.bv + 1]) :
           (Len(m) > r.byteIndex /\ m[r.byteIndex + 1] = k[r.byteIndex + 1]) => m \in r.keys

Awaited(st, rs, i) == \E j \in 1 .. Len(rs) : \E k \in rs[j].keys : i = ElementOf(st, rs[j], k)

\* What is built is right, but for the elements that a loop is still to make and those of X.
Trie(ks, st, ps, rs, X) ==
    /\ Shape(st, ps)
    /\ \A j \in 1 .. Len(rs) : Loop(ks, st, ps, rs[j])
    /\ \A i, j \in 1 .. Len(rs) : i # j => rs[i].bv # rs[j].bv
    /\ \A i \in 1 .. Len(st) : i \in X \/ Awaited(st, rs, i) \/ Built(ks, st, ps, i)

\* The bytes of keys are numbers.
LEMMA BytesAreNumbers == KeyBytes \subseteq Nat
BY DEF KeyBytes

\* The least and the greatest byte of keys.
LEMMA LeastAndGreatest ==
    ASSUME NEW m \in Nat, NEW S, S \subseteq 0 .. m, S # {}
    PROVE  /\ Min(S) \in S /\ Max(S) \in S
           /\ \A x \in S : Min(S) <= x /\ x <= Max(S)
<1>1. \E x \in S : \A y \in S : x <= y
  <2>1. S \subseteq Nat
    OBVIOUS
  <2>2. PICK x \in S : \A y \in S : ~(y < x)
    BY <2>1, LeastNumber
  <2>3. QED
    BY <2>1, <2>2
<1>2. \E x \in S : \A y \in S : x >= y
  <2> DEFINE Above == {u \in Nat : \A y \in S : y <= u}
  <2>1. m \in Above /\ Above \subseteq Nat
    OBVIOUS
  <2>2. PICK u \in Above : \A v \in Above : ~(v < u)
    <3> HIDE DEF Above
    <3>1. QED
      BY <2>1, LeastNumber
  <2>3. u \in S
    <3>1. SUFFICES ASSUME u \notin S
                   PROVE  FALSE
      OBVIOUS
    <3>2. u \in Nat /\ \A y \in S : y <= u /\ y # u /\ y \in Nat
      BY <2>2, <3>1
    <3>3. u # 0
      <4>1. PICK y : y \in S
        OBVIOUS
      <4>2. QED
        BY <3>2, <4>1
    <3>4. u - 1 \in Nat /\ u - 1 < u /\ \A y \in Nat : (y <= u /\ y # u) => y <= u - 1
      BY <3>2, <3>3
    <3>5. u - 1 \in Above
      BY <3>2, <3>4
    <3>6. QED
      BY <2>2, <3>4, <3>5
  <2>4. QED
    BY <2>2, <2>3
<1>3. Min(S) \in S /\ \A y \in S : Min(S) <= y
  BY <1>1 DEF Min
<1>4. Max(S) \in S /\ \A y \in S : Max(S) >= y
  BY <1>2 DEF Max
<1>5. QED
  BY <1>3, <1>4

\* An element that has no key below it is built as it is allocated.
LEMMA NoKeysBuilt ==
    ASSUME NEW ks, NEW st, NEW ps, NEW i, st[i] = Empty, ps[i] \in Seq(KeyBytes), Below(ks, ps[i]) = {}
    PROVE  Built(ks, st, ps, i)
<1>1. Len(ps[i]) \in Nat
  BY LenProperties
<1>2. ps[i] \notin ks
  <2>1. SUFFICES ASSUME ps[i] \in ks PROVE FALSE
    OBVIOUS
  <2>2. ps[i] \in Below(ks, ps[i])
    BY <1>1, <2>1 DEF Below
  <2>3. QED
    BY <2>2
<1>3. st[i].valid = FALSE /\ st[i].value = NoAddress
  BY DEF Empty
<1>4. QED
  BY <1>2, <1>3 DEF Built

\* what byteValue makes for the keys that start with p
MadeFor(bv, ks, p, lo) ==
    /\ bv \in Elements
    /\ (bv.valid <=> p \in ks) /\ bv.value = (IF p \in ks THEN p ELSE NoAddress)
    /\ \A k \in Longer(Below(ks, p), Len(p)) : ~outside(bv, k[Len(p) + 1])
    /\ bv.nextLen > 0 => bv.nextLo = lo /\ bv.nextOffset + bv.nextLen - 1 \in KeyBytes
    /\ bv.nextLen = 0 => bv.nextLo = 0
    /\ Longer(Below(ks, p), Len(p)) = {} => bv.nextLen = 0

\* The element that makeByteValue writes is what lookups need, for the keys below its
\* path.
LEMMA ByteValueBuilt ==
    ASSUME NEW ks, ks \subseteq Seq(KeyBytes), NEW p \in Seq(KeyBytes), NEW lo \in Nat, KeyRadix \in Nat \ {0, 1},
           NEW bv, bv = byteValue(Below(ks, p), Len(p), lo)
    PROVE  MadeFor(bv, ks, p, lo)
<1> DEFINE n == Len(p)
           below == Below(ks, p)
           longer == Longer(below, n)
           next == BytesAt(longer, n)
           own == [Empty EXCEPT !.valid = longer # below,
                                !.value = IF longer = below THEN NoAddress ELSE CHOOSE k \in below : k \notin longer]
<1>1. n \in Nat
  BY LenProperties
<1>2. \A k \in below : k \in Seq(KeyBytes) /\ k \in ks /\ Len(k) \in Nat /\ n <= Len(k)
  BY LenProperties DEF Below
<1>3. \A k \in below : k \notin longer => k = p
  <2>1. SUFFICES ASSUME NEW k \in below, k \notin longer
                 PROVE  k = p
    OBVIOUS
  <2>2. Len(k) = n
    BY <1>1, <1>2, <2>1 DEF Longer
  <2>3. \A m \in 1 .. Len(p) : k[m] = p[m]
    BY DEF Below
  <2>4. QED
    BY <1>2, <2>2, <2>3, SeqEqual
<1>4. p \in ks <=> longer # below
  <2>1. p \in ks => p \in below /\ p \notin longer
    BY <1>1 DEF Below, Longer
  <2>2. longer \subseteq below
    BY DEF Longer
  <2>3. QED
    BY <1>2, <1>3, <2>1, <2>2
<1>5. \E v \in BOOLEAN, a \in Seq(KeyBytes) \cup {NoAddress} :
          /\ own = [nextLo |-> 0, nextLen |-> 0, nextOffset |-> 0, valid |-> v, value |-> a]
          /\ (v <=> p \in ks) /\ a = IF p \in ks THEN p ELSE NoAddress
  <2> DEFINE v == longer # below
             a == IF longer = below THEN NoAddress ELSE CHOOSE k \in below : k \notin longer
  <2>1. own = [nextLo |-> 0, nextLen |-> 0, nextOffset |-> 0, valid |-> v, value |-> a]
    <3> HIDE DEF v, a
    <3>1. own = [Empty EXCEPT !.valid = v, !.value = a]
      BY DEF v, a
    <3> HIDE DEF own
    <3>2. QED
      BY <3>1 DEF Empty
  <2>2. longer \subseteq below
    BY DEF Longer
  <2>3. longer # below => (CHOOSE k \in below : k \notin longer) = p
    <3> HIDE DEF longer, below
    <3>1. QED
      BY <1>3, <2>2
  <2>4. a = (IF p \in ks THEN p ELSE NoAddress) /\ v \in BOOLEAN /\ (v <=> p \in ks)
    <3>1. v \in BOOLEAN /\ (v <=> p \in ks)
      <4> HIDE DEF longer, below
      <4>1. QED
        BY <1>4
    <3>2. CASE longer = below
      <4>1. a = NoAddress /\ p \notin ks
        BY <1>4, <3>2
      <4>2. QED
        BY <3>1, <4>1
    <3>3. CASE longer # below
      <4>1. a = (CHOOSE k \in below : k \notin longer) /\ p \in ks
        BY <1>4, <3>3
      <4> HIDE DEF a, longer, below
      <4>2. QED
        BY <2>3, <3>1, <3>3, <4>1
    <3>4. QED
      BY <3>2, <3>3
  <2>5. a \in Seq(KeyBytes) \cup {NoAddress}
    BY <2>4
  <2> HIDE DEF v, a, own
  <2>6. QED
    BY <2>1, <2>4, <2>5
<1>6. /\ own \in Elements /\ own.nextLen = 0 /\ own.nextLo = 0
      /\ (own.valid <=> p \in ks) /\ own.value = IF p \in ks THEN p ELSE NoAddress
  <2>1. 0 \in KeyBytes /\ 0 \in 0 .. KeyRadix - 1
    BY DEF KeyBytes
  <2> HIDE DEF own
  <2>2. QED
    BY <1>5, <2>1 DEF Elements
<1>7. CASE longer = {}
  <2>1. bv = own
    BY <1>7 DEF byteValue
  <2>2. QED
    BY <1>6, <1>7, <2>1 DEF MadeFor
<1>8. CASE longer # {}
  <2> DEFINE lenb == Max(next) - Min(next) + 1
  <2>1. bv = [own EXCEPT !.nextLo = lo, !.nextOffset = Min(next), !.nextLen = lenb % KeyRadix]
    BY <1>8 DEF byteValue
  <2>2. next \subseteq KeyBytes /\ next # {}
    <3>1. \A k \in longer : k[n + 1] \in KeyBytes
      <4>1. SUFFICES ASSUME NEW k \in longer PROVE k[n + 1] \in KeyBytes
        OBVIOUS
      <4>2. n + 1 \in 1 .. Len(k) /\ k \in Seq(KeyBytes)
        BY <1>1, <1>2 DEF Longer
      <4>3. QED
        BY <4>2, ElementOfSeq
    <3>2. QED
      BY <1>8, <3>1 DEF BytesAt
  <2>3. \A k \in longer : k[n + 1] \in next
    BY DEF BytesAt
  <2>4. /\ Min(next) \in next /\ Max(next) \in next
        /\ \A x \in next : Min(next) <= x /\ x <= Max(next)
    <3>1. KeyRadix - 2 \in Nat
      OBVIOUS
    <3> HIDE DEF next
    <3>2. QED
      BY <2>2, <3>1, LeastAndGreatest DEF KeyBytes
  <2> DEFINE lowest == Min(next)
             highest == Max(next)
  <2> HIDE DEF next, lowest, highest, own
  <2>5. lowest \in KeyBytes /\ highest \in KeyBytes /\ lowest <= highest
    BY <2>2, <2>4 DEF lowest, highest
  <2>6. (highest - lowest + 1) % KeyRadix = highest - lowest + 1 /\ highest - lowest + 1 \in 1 .. KeyRadix - 1
    <3>1. highest - lowest + 1 \in Int /\ 0 <= highest - lowest + 1 /\ highest - lowest + 1 < KeyRadix /\ KeyRadix \in Nat
          /\ highest - lowest + 1 \in 1 .. KeyRadix - 1
      BY <2>5 DEF KeyBytes
    <3>2. QED
      BY <3>1, Remainder
  <2>7. bv = [own EXCEPT !.nextLo = lo, !.nextOffset = lowest, !.nextLen = highest - lowest + 1]
    BY <2>1, <2>6 DEF lowest, highest
  <2>8. /\ bv \in Elements /\ bv.valid = own.valid /\ bv.value = own.value
        /\ bv.nextLo = lo /\ bv.nextOffset = lowest /\ bv.nextLen = highest - lowest + 1
    <3> DEFINE l == highest - lowest + 1
    <3>1. l \in 0 .. KeyRadix - 1
      BY <2>6
    <3> HIDE DEF l
    <3>2. QED
      BY <1>6, <2>5, <2>7, <3>1 DEF Elements, l
  <2>9. \A k \in longer : ~outside(bv, k[n + 1])
    <3>1. \A x \in next : x \in KeyBytes /\ lowest <= x /\ x <= highest
      BY <2>2, <2>4 DEF lowest, highest
    <3>2. \A x \in next : ~outside(bv, x)
      BY <2>5, <2>8, <3>1 DEF outside, KeyBytes
    <3>3. QED
      BY <2>3, <3>2
  <2>10. bv.nextOffset + bv.nextLen - 1 \in KeyBytes
    BY <2>5, <2>8 DEF KeyBytes
  <2>11. QED
    BY <1>6, <1>8, <2>6, <2>8, <2>9, <2>10 DEF MadeFor
<1>9. QED
  BY <1>7, <1>8

Ranges == [bv : Nat, keys : SUBSET Seq(KeyBytes), byteIndex : Nat]

\* the loop r makes the element of its key k in the range of its own element
Made(st, ps, r, k) ==
    /\ ElementOf(st, r, k) \in 1 .. Len(st)
    /\ st[r.bv + 1] \in Elements /\ st[r.bv + 1].nextLen > 0 /\ k[r.byteIndex + 1] \in KeyBytes
    /\ ElementOf(st, r, k) \in st[r.bv + 1].nextLo + 1 .. st[r.bv + 1].nextLo + st[r.bv + 1].nextLen
    /\ ps[ElementOf(st, r, k)] = Append(ps[r.bv + 1], k[r.byteIndex + 1])

\* Where the loop r makes the element of one of its keys.
LEMMA ElementIn ==
    ASSUME NEW ks, ks \subseteq Seq(KeyBytes), NEW st, NEW ps, Shape(st, ps), NEW r, Loop(ks, st, ps, r), NEW k \in r.keys,
           KeyRadix \in Nat \ {0, 1}
    PROVE  Made(st, ps, r, k)
<1> DEFINE a == r.bv + 1
           e == st[a]
           n == r.byteIndex
           x == k[n + 1]
<1>1. a \in 1 .. Len(st) /\ st \in Seq(Elements) /\ Len(st) \in Nat
  BY LenProperties DEF Loop, Shape
<1>2. e \in Elements
  BY <1>1, ElementOfSeq
<1>3. n \in Nat /\ Len(k) > n /\ k \in Seq(KeyBytes) /\ ~outside(e, x)
  <2>1. ps[a] \in Seq(KeyBytes)
    BY <1>1, ElementOfSeq DEF Shape
  <2>2. QED
    BY <2>1, LenProperties DEF Loop, Below
<1>4. x \in KeyBytes
  <2>1. n + 1 \in 1 .. Len(k)
    BY <1>3, LenProperties
  <2>2. QED
    BY <1>3, <2>1, ElementOfSeq
<1>5. Continued(st, ps, a)
  BY <1>1 DEF Shape
<1> HIDE DEF a, e, n, x
<1>6. e.nextLo \in Nat /\ e.nextLen \in Nat /\ e.nextOffset \in Nat /\ x \in Nat
  BY <1>2, <1>4 DEF Elements, KeyBytes
<1>7. x - e.nextOffset \in 0 .. e.nextLen - 1
  BY <1>3, <1>6 DEF outside
<1>8. ElementOf(st, r, k) = e.nextLo + (x - e.nextOffset) + 1
  BY DEF ElementOf, e, a, n, x
<1>9. e.nextLo + e.nextLen <= Len(st)
  BY <1>5 DEF Continued, e
<1>10. ps[e.nextLo + (x - e.nextOffset) + 1] = Append(ps[a], e.nextOffset + (x - e.nextOffset))
  BY <1>5, <1>7 DEF Continued, e
<1>11. e.nextOffset + (x - e.nextOffset) = x
  BY <1>6
<1>12. /\ e.nextLo + (x - e.nextOffset) + 1 \in 1 .. Len(st) /\ e.nextLen > 0
       /\ e.nextLo + (x - e.nextOffset) + 1 \in e.nextLo + 1 .. e.nextLo + e.nextLen
  <2>1. \A lo, len, end \in Nat : lo + len <= end =>
            \A y \in 0 .. len - 1 : lo + y + 1 \in 1 .. end /\ len > 0 /\ lo + y + 1 \in lo + 1 .. lo + len
    OBVIOUS
  <2>2. QED
    BY <1>1, <1>6, <1>7, <1>9, <2>1
<1>13. QED
  BY <1>2, <1>4, <1>8, <1>10, <1>11, <1>12 DEF a, e, n, x, Made

\* An element as it is allocated.
LEMMA EmptyIsElement ==
    ASSUME KeyRadix \in Nat \ {0, 1}
    PROVE  Empty \in Elements /\ Empty.nextLen = 0 /\ Empty.nextLo = 0
BY DEF Empty, Elements, KeyBytes

\* the element c is the next that is made: nothing but its allocation was done for it
Pending(ks, st, ps, rs, c) ==
    c \in 1 .. Len(st) /\ Trie(ks, st, ps, rs, {c}) /\ st[c] = Empty /\ ~Awaited(st, rs, c)

\* makeByteValue for the element c
Visits(ks, st, ps, rs, c, bv, longer, st2, ps2, rs2) ==
    /\ bv = byteValue(Below(ks, ps[c]), Len(ps[c]), Len(st)) /\ longer = Longer(Below(ks, ps[c]), Len(ps[c]))
    /\ st2 = alloc([st EXCEPT ![c] = bv], bv.nextLen)
    /\ ps2 = ps \o [i \in 1 .. bv.nextLen |-> Append(ps[c], bv.nextOffset + i - 1)]
    /\ rs2 = IF longer = {} THEN rs
             ELSE Append(rs, [bv |-> c - 1, keys |-> longer, byteIndex |-> Len(ps[c])])

\* The element c, the only one that is neither built nor awaited, is made with the keys
\* below it: it is built, and the elements behind it are awaited or have no keys.
LEMMA Visit ==
    ASSUME KeyRadix \in Nat \ {0, 1}, NEW ks, ks \subseteq Seq(KeyBytes), NEW st, NEW ps, NEW rs \in Seq(Ranges),
           NEW c, Pending(ks, st, ps, rs, c), NEW st2, NEW ps2, NEW rs2, NEW bv, NEW longer,
           Visits(ks, st, ps, rs, c, bv, longer, st2, ps2, rs2)
    PROVE  Trie(ks, st2, ps2, rs2, {}) /\ rs2 \in Seq(Ranges)
<1>a. /\ c \in 1 .. Len(st) /\ Trie(ks, st, ps, rs, {c}) /\ st[c] = Empty /\ ~Awaited(st, rs, c)
  BY DEF Pending
<1>b. /\ bv = byteValue(Below(ks, ps[c]), Len(ps[c]), Len(st)) /\ longer = Longer(Below(ks, ps[c]), Len(ps[c]))
      /\ st2 = alloc([st EXCEPT ![c] = bv], bv.nextLen)
      /\ ps2 = ps \o [i \in 1 .. bv.nextLen |-> Append(ps[c], bv.nextOffset + i - 1)]
      /\ rs2 = IF longer = {} THEN rs
               ELSE Append(rs, [bv |-> c - 1, keys |-> longer, byteIndex |-> Len(ps[c])])
  BY DEF Visits
<1> DEFINE N == Len(st)
           p == ps[c]
           n == Len(p)
           len == bv.nextLen
           r == [bv |-> c - 1, keys |-> longer, byteIndex |-> n]
<1>1. /\ Shape(st, ps) /\ st \in Seq(Elements) /\ ps \in Seq(Seq(KeyBytes)) /\ Len(ps) = N
      /\ N \in Nat /\ 1 <= N /\ ps[1] = <<>> /\ p \in Seq(KeyBytes) /\ n \in Nat
  <2>1. Shape(st, ps)
    BY <1>a DEF Trie
  <2>2. st \in Seq(Elements) /\ ps \in Seq(Seq(KeyBytes)) /\ Len(ps) = N /\ 1 <= N /\ ps[1] = <<>>
    BY <2>1 DEF Shape
  <2>3. p \in Seq(KeyBytes) /\ N \in Nat
    BY <1>a, <2>2, ElementOfSeq, LenProperties
  <2>4. QED
    BY <2>1, <2>2, <2>3, LenProperties
<1>2. /\ bv \in Elements /\ (bv.valid <=> p \in ks) /\ bv.value = (IF p \in ks THEN p ELSE NoAddress)
      /\ \A k \in longer : ~outside(bv, k[n + 1])
      /\ len > 0 => bv.nextLo = N /\ bv.nextOffset + len - 1 \in KeyBytes
      /\ len = 0 => bv.nextLo = 0
      /\ longer = {} => len = 0
  <2>1. bv = byteValue(Below(ks, p), Len(p), N) /\ longer = Longer(Below(ks, p), Len(p))
    BY <1>a, <1>b
  <2>2. p \in Seq(KeyBytes) /\ N \in Nat
    BY <1>1
  <2> HIDE DEF p, N
  <2>3. MadeFor(bv, ks, p, N)
    BY <2>1, <2>2, ByteValueBuilt
  <2>4. QED
    BY <2>1, <2>3 DEF MadeFor
<1>3. /\ len \in Nat /\ bv.nextLo \in Nat /\ bv.nextOffset \in Nat
      /\ \A b \in 0 .. len - 1 : bv.nextOffset + b \in KeyBytes
  <2> DEFINE o == bv.nextOffset
  <2>1. len \in 0 .. KeyRadix - 1 /\ bv.nextLo \in Nat /\ o \in KeyBytes
    BY <1>2 DEF Elements
  <2>2. len > 0 => o + len - 1 \in KeyBytes
    BY <1>2
  <2> HIDE DEF len, o
  <2>3. len \in Nat /\ o \in Nat
    BY <2>1 DEF KeyBytes
  <2>4. \A b \in 0 .. len - 1 : o + b \in KeyBytes
    BY <2>1, <2>2, <2>3 DEF KeyBytes
  <2>5. QED
    BY <2>1, <2>3, <2>4 DEF o
<1>4. /\ st2 \in Seq(Elements) /\ Len(st2) = N + len
      /\ \A i \in 1 .. N : st2[i] = IF i = c THEN bv ELSE st[i]
      /\ \A i \in N + 1 .. N + len : st2[i] = Empty
  <2> DEFINE u == [st EXCEPT ![c] = bv]
             w == [i \in 1 .. len |-> Empty]
  <2>1. u \in Seq(Elements) /\ Len(u) = N /\ \A i \in 1 .. N : u[i] = IF i = c THEN bv ELSE st[i]
    <3>1. st \in Seq(Elements) /\ bv \in Elements /\ c \in 1 .. Len(st)
      BY <1>a, <1>1, <1>2
    <3>2. QED
      BY <3>1, ExceptSeq
  <2>2. w \in Seq(Elements) /\ Len(w) = len /\ \A i \in 1 .. len : w[i] = Empty
    <3>1. len \in Nat /\ Empty \in Elements
      BY <1>3, EmptyIsElement
    <3> HIDE DEF len
    <3>2. QED
      BY <3>1
  <2>3. st2 = u \o w
    BY <1>a, <1>b DEF alloc
  <2> HIDE DEF u, w, len, N
  <2>0. N \in Nat /\ len \in Nat
    BY <1>1, <1>3
  <2>4. /\ st2 \in Seq(Elements) /\ Len(st2) = N + len
        /\ \A i \in 1 .. N + len : st2[i] = IF i <= N THEN u[i] ELSE w[i - N]
    <3>1. u \o w \in Seq(Elements) /\ Len(u \o w) = Len(u) + Len(w)
          /\ \A i \in 1 .. Len(u) + Len(w) : (u \o w)[i] = IF i <= Len(u) THEN u[i] ELSE w[i - Len(u)]
      BY <2>1, <2>2, ConcatProperties
    <3>2. QED
      BY <2>1, <2>2, <2>3, <3>1
  <2>5. \A i \in 1 .. N : i \in 1 .. N + len /\ i <= N
    BY <2>0
  <2>6. \A i \in N + 1 .. N + len : i \in 1 .. N + len /\ ~(i <= N) /\ i - N \in 1 .. len
    BY <2>0
  <2>7. QED
    BY <2>1, <2>2, <2>4, <2>5, <2>6
<1>5. /\ ps2 \in Seq(Seq(KeyBytes)) /\ Len(ps2) = N + len
      /\ \A i \in 1 .. N : ps2[i] = ps[i]
      /\ \A b \in 0 .. len - 1 : ps2[N + b + 1] = Append(p, bv.nextOffset + b)
  <2> DEFINE w == [i \in 1 .. len |-> Append(p, bv.nextOffset + i - 1)]
  <2>1. \A i \in 1 .. len : Append(p, bv.nextOffset + i - 1) \in Seq(KeyBytes)
    <3>1. SUFFICES ASSUME NEW i \in 1 .. len
                   PROVE  Append(p, bv.nextOffset + i - 1) \in Seq(KeyBytes)
      OBVIOUS
    <3>2. i - 1 \in 0 .. len - 1 /\ bv.nextOffset + (i - 1) = bv.nextOffset + i - 1
      BY <1>3
    <3>3. bv.nextOffset + i - 1 \in KeyBytes
      BY <1>3, <3>2
    <3>4. QED
      BY <1>1, <3>3, AppendProperties
  <2>2. w \in Seq(Seq(KeyBytes)) /\ Len(w) = len
    <3>1. len \in Nat
      BY <1>3
    <3> HIDE DEF len
    <3>2. QED
      BY <2>1, <3>1
  <2>3. ps2 = ps \o w
    BY <1>a, <1>b
  <2>4. \A b \in 0 .. len - 1 : w[b + 1] = Append(p, bv.nextOffset + b)
    <3>1. SUFFICES ASSUME NEW b \in 0 .. len - 1
                   PROVE  w[b + 1] = Append(p, bv.nextOffset + b)
      OBVIOUS
    <3>2. b + 1 \in 1 .. len /\ bv.nextOffset + (b + 1) - 1 = bv.nextOffset + b
      BY <1>3
    <3>3. QED
      BY <3>2
  <2> HIDE DEF w, len, N
  <2>0. N \in Nat /\ len \in Nat /\ Len(ps) = N /\ ps \in Seq(Seq(KeyBytes))
    BY <1>1, <1>3
  <2>5. /\ ps2 \in Seq(Seq(KeyBytes)) /\ Len(ps2) = N + len
        /\ \A i \in 1 .. N + len : ps2[i] = IF i <= N THEN ps[i] ELSE w[i - N]
    <3>1. ps \o w \in Seq(Seq(KeyBytes)) /\ Len(ps \o w) = Len(ps) + Len(w)
          /\ \A i \in 1 .. Len(ps) + Len(w) : (ps \o w)[i] = IF i <= Len(ps) THEN ps[i] ELSE w[i - Len(ps)]
      BY <2>0, <2>2, ConcatProperties
    <3>2. QED
      BY <2>0, <2>2, <2>3, <3>1
  <2>6. \A i \in 1 .. N : i \in 1 .. N + len /\ i <= N
    BY <2>0
  <2>7. \A b \in 0 .. len - 1 : N + b + 1 \in 1 .. N + len /\ ~(N + b + 1 <= N) /\ (N + b + 1) - N = b + 1
    BY <2>0
  <2>8. QED
    BY <2>4, <2>5, <2>6, <2>7
<1> HIDE DEF N, p, n, len, r
<1>0. N \in Nat /\ len \in Nat /\ 1 <= N /\ Len(st2) = N + len
  BY <1>1, <1>3, <1>4
<1>6. N = Len(st) /\ p = ps[c] /\ n = Len(p) /\ len = bv.nextLen /\ c \in 1 .. N
  BY <1>a DEF N, p, n, len
<1>7. \A i \in 1 .. N : /\ st[i] \in Elements /\ st[i].nextLo \in Nat /\ st[i].nextLen \in Nat /\ st[i].nextOffset \in Nat
                        /\ st[i].nextLo + st[i].nextLen <= N /\ Continued(st, ps, i)
  <2>1. \A i \in 1 .. N : st[i] \in Elements /\ Continued(st, ps, i)
    BY <1>1, <1>6 DEF Shape
  <2>2. \A e \in Elements : e.nextLo \in Nat /\ e.nextLen \in Nat /\ e.nextOffset \in Nat
    BY DEF Elements, KeyBytes
  <2>3. QED
    BY <1>6, <2>1, <2>2 DEF Continued
<1>8. \A i \in 1 .. N + len : i \in 1 .. N \/ i \in N + 1 .. N + len
  BY <1>1, <1>3, <1>6
<1>9. ASSUME NEW i \in 1 .. N + len
      PROVE  Continued(st2, ps2, i)
  <2>1. CASE i \in N + 1 .. N + len
    <3>1. st2[i].nextLo = 0 /\ st2[i].nextLen = 0
      BY <1>4, <2>1, EmptyIsElement
    <3>2. 0 + 0 <= N + len /\ \A b \in 0 .. 0 - 1 : FALSE
      BY <1>0
    <3>3. QED
      BY <1>0, <3>1, <3>2 DEF Continued
  <2>2. CASE i = c
    <3>1. st2[i] = bv /\ ps2[i] = p
      BY <1>4, <1>5, <1>6, <2>2
    <3>2. bv.nextLo + len <= N + len
      BY <1>1, <1>2, <1>3, <1>6
    <3>3. \A b \in 0 .. len - 1 : bv.nextLo = N
      BY <1>2, <1>3, <1>6
    <3>4. \A b \in 0 .. len - 1 : ps2[bv.nextLo + b + 1] = Append(p, bv.nextOffset + b)
      BY <1>5, <3>3
    <3>5. QED
      BY <1>4, <1>6, <3>1, <3>2, <3>4 DEF Continued
  <2>3. CASE i \in 1 .. N /\ i # c
    <3>1. st2[i] = st[i] /\ ps2[i] = ps[i] /\ Continued(st, ps, i)
      BY <1>4, <1>5, <1>7, <2>3
    <3>2. st[i].nextLo \in Nat /\ st[i].nextLen \in Nat /\ st[i].nextLo + st[i].nextLen <= N
      BY <1>7, <2>3
    <3>3. \A b \in 0 .. st[i].nextLen - 1 : st[i].nextLo + b + 1 \in 1 .. N
      <4>1. \A lo, l, m \in Nat : lo + l <= m => \A b \in 0 .. l - 1 : lo + b + 1 \in 1 .. m
        OBVIOUS
      <4>2. QED
        BY <1>0, <3>2, <4>1
    <3>4. \A b \in 0 .. st[i].nextLen - 1 : ps2[st[i].nextLo + b + 1] = Append(ps[i], st[i].nextOffset + b)
      BY <1>5, <3>1, <3>3 DEF Continued
    <3>5. st[i].nextLo + st[i].nextLen <= N + len
      <4>1. \A lo, l \in Nat : lo + l <= N => lo + l <= N + len
        BY <1>0
      <4>2. QED
        BY <3>2, <4>1
    <3>6. QED
      BY <1>4, <3>1, <3>4, <3>5 DEF Continued
  <2>4. QED
    BY <1>8, <2>1, <2>2, <2>3
<1>10. ASSUME NEW i \in 1 .. N + len, NEW j \in 1 .. N + len, i # j
       PROVE  Apart(st2, i, j)
  <2>1. CASE i \in N + 1 .. N + len \/ j \in N + 1 .. N + len
    <3>1. st2[i].nextLen = 0 \/ st2[j].nextLen = 0
      BY <1>4, <2>1, EmptyIsElement
    <3>2. ~(0 > 0)
      OBVIOUS
    <3>3. QED
      BY <3>1, <3>2 DEF Apart
  <2>2. CASE i \in 1 .. N /\ j \in 1 .. N
    <3>1. CASE i # c /\ j # c
      <4>1. Apart(st, i, j)
        BY <1>1, <1>6, <1>10, <2>2 DEF Shape
      <4>2. st2[i] = st[i] /\ st2[j] = st[j]
        BY <1>4, <2>2, <3>1
      <4>3. QED
        BY <4>1, <4>2 DEF Apart
    <3>2. CASE i = c /\ j # c
      <4>1. st2[i] = bv /\ st2[j] = st[j]
        BY <1>4, <2>2, <3>2
      <4>2. st[j].nextLo + st[j].nextLen <= N
        BY <1>7, <2>2, <3>2
      <4>3. QED
        BY <1>2, <1>6, <4>1, <4>2 DEF Apart
    <3>3. CASE j = c /\ i # c
      <4>1. st2[j] = bv /\ st2[i] = st[i]
        BY <1>4, <2>2, <3>3
      <4>2. st[i].nextLo + st[i].nextLen <= N
        BY <1>7, <2>2, <3>3
      <4>3. QED
        BY <1>2, <1>6, <4>1, <4>2 DEF Apart
    <3>4. QED
      BY <1>10, <3>1, <3>2, <3>3
  <2>3. QED
    BY <1>8, <2>1, <2>2
<1>11. Shape(st2, ps2)
  <2>0. 1 \in 1 .. N /\ 1 <= N + len
    BY <1>0, <1>1, <1>6
  <2>1. ps2[1] = <<>> /\ 1 <= N + len
    BY <1>1, <1>5, <2>0
  <2>2. QED
    BY <1>4, <1>5, <1>9, <1>10, <2>1 DEF Shape
\* the loops that are under way have other elements
<1>12. ASSUME NEW j \in 1 .. Len(rs)
       PROVE  /\ rs[j].bv + 1 \in 1 .. N /\ rs[j].bv + 1 # c
              /\ st2[rs[j].bv + 1] = st[rs[j].bv + 1] /\ ps2[rs[j].bv + 1] = ps[rs[j].bv + 1]
              /\ \A k \in rs[j].keys : /\ ElementOf(st2, rs[j], k) = ElementOf(st, rs[j], k)
                                       /\ ElementOf(st, rs[j], k) \in 1 .. N
                                       /\ ElementOf(st, rs[j], k) # c
  <2>1. Loop(ks, st, ps, rs[j])
    BY <1>a DEF Trie
  <2>2. rs[j].bv + 1 \in 1 .. N
    BY <1>6, <2>1 DEF Loop
  <2>3. \A k \in rs[j].keys : ElementOf(st, rs[j], k) \in 1 .. N /\ st[rs[j].bv + 1].nextLen > 0
    BY <1>1, <1>6, <2>1, ElementIn DEF Made
  <2>4. rs[j].bv + 1 # c
    <3>1. PICK k : k \in rs[j].keys
      BY <2>1 DEF Loop
    <3>2. ~(Empty.nextLen > 0)
      BY EmptyIsElement
    <3>3. QED
      BY <1>a, <1>b, <2>3, <3>1, <3>2
  <2>5. st2[rs[j].bv + 1] = st[rs[j].bv + 1] /\ ps2[rs[j].bv + 1] = ps[rs[j].bv + 1]
    BY <1>4, <1>5, <2>2, <2>4
  <2>6. \A k \in rs[j].keys : ElementOf(st, rs[j], k) # c
    BY <1>a DEF Awaited
  <2>7. \A k \in rs[j].keys : ElementOf(st2, rs[j], k) = ElementOf(st, rs[j], k)
    BY <2>5 DEF ElementOf
  <2>8. QED
    BY <2>2, <2>3, <2>4, <2>5, <2>6, <2>7
<1>13. ASSUME NEW j \in 1 .. Len(rs)
       PROVE  Loop(ks, st2, ps2, rs[j])
  <2>1. Loop(ks, st, ps, rs[j])
    BY <1>a DEF Trie
  <2> DEFINE q == rs[j]
  <2>2. /\ q.bv + 1 \in 1 .. N /\ st2[q.bv + 1] = st[q.bv + 1] /\ ps2[q.bv + 1] = ps[q.bv + 1]
        /\ \A k \in q.keys : st2[ElementOf(st2, q, k)] = st[ElementOf(st, q, k)]
    BY <1>4, <1>12
  <2> HIDE DEF q
  <2>3. Loop(ks, st, ps, q)
    BY <2>1 DEF q
  <2>4. q.bv + 1 \in 1 .. Len(st2)
    <3>1. \A i \in 1 .. N : i \in 1 .. N + len
      BY <1>0
    <3>2. QED
      BY <1>0, <2>2, <3>1
  <2>5. Loop(ks, st2, ps2, q)
    BY <2>2, <2>3, <2>4 DEF Loop
  <2>6. QED
    BY <2>5 DEF q
\* the loop of c
<1>14. longer = Longer(Below(ks, p), n) /\ longer \subseteq Below(ks, p) /\ longer \subseteq Seq(KeyBytes)
  BY <1>a, <1>b, <1>6 DEF Longer, Below
<1>15. \A k \in longer : k[n + 1] \in KeyBytes /\ k[n + 1] - bv.nextOffset \in 0 .. len - 1
  <2>1. SUFFICES ASSUME NEW k \in longer
                 PROVE  k[n + 1] \in KeyBytes /\ k[n + 1] - bv.nextOffset \in 0 .. len - 1
    OBVIOUS
  <2>2. k \in Seq(KeyBytes) /\ Len(k) > n /\ Len(k) \in Nat /\ n \in Nat
    BY <1>1, <1>14, LenProperties DEF Longer
  <2>3. n + 1 \in 1 .. Len(k)
    BY <2>2
  <2>4. k[n + 1] \in KeyBytes
    BY <2>2, <2>3, ElementOfSeq
  <2>5. ~outside(bv, k[n + 1])
    BY <1>2
  <2>6. k[n + 1] \in Nat
    BY <2>4 DEF KeyBytes
  <2>7. \A x, y, z \in Nat : (~(x < y) /\ ~(x - y >= z)) => x - y \in 0 .. z - 1
    OBVIOUS
  <2>8. ~(k[n + 1] < bv.nextOffset) /\ ~(k[n + 1] - bv.nextOffset >= len)
    BY <1>6, <2>5 DEF outside
  <2>9. QED
    BY <1>3, <2>4, <2>6, <2>7, <2>8
<1>16. r.bv = c - 1 /\ r.keys = longer /\ r.byteIndex = n /\ r.bv + 1 = c /\ r \in Ranges
  <2>1. c - 1 \in Nat /\ (c - 1) + 1 = c
    BY <1>0, <1>6
  <2>2. r.bv = c - 1 /\ r.keys = longer /\ r.byteIndex = n
    BY DEF r
  <2>3. r \in Ranges
    BY <1>1, <1>14, <2>1 DEF r, Ranges
  <2>4. QED
    BY <2>1, <2>2, <2>3
<1>17. \A k \in longer : ElementOf(st2, r, k) = N + (k[n + 1] - bv.nextOffset) + 1 /\ ElementOf(st2, r, k) \in N + 1 .. N + len
  <2>1. SUFFICES ASSUME NEW k \in longer
                 PROVE  ElementOf(st2, r, k) = N + (k[n + 1] - bv.nextOffset) + 1 /\ ElementOf(st2, r, k) \in N + 1 .. N + len
    OBVIOUS
  <2>2. k[n + 1] - bv.nextOffset \in 0 .. len - 1
    BY <1>15
  <2>3. bv.nextLo = N
    <3>1. len > 0
      BY <1>0, <2>2
    <3>2. QED
      BY <1>2, <3>1
  <2>4. ElementOf(st2, r, k) = N + (k[n + 1] - bv.nextOffset) + 1
    BY <1>4, <1>6, <1>16, <2>3 DEF ElementOf
  <2>5. \A b \in 0 .. len - 1 : N + b + 1 \in N + 1 .. N + len
    BY <1>0
  <2>6. QED
    BY <2>2, <2>4, <2>5
<1>18. longer # {} => Loop(ks, st2, ps2, r)
  <2>1. SUFFICES ASSUME longer # {}
                 PROVE  Loop(ks, st2, ps2, r)
    OBVIOUS
  <2>2. c \in 1 .. Len(st2) /\ st2[c] = bv /\ ps2[c] = p /\ r.bv \in Nat
    <3>1. \A i \in 1 .. N : i \in 1 .. N + len
      BY <1>0
    <3>2. QED
      BY <1>0, <1>4, <1>5, <1>6, <1>16, <3>1 DEF Ranges
  <2>3. \A k \in longer : st2[ElementOf(st2, r, k)] = Empty
    BY <1>4, <1>17
  <2>4. \A k \in longer : Len(k) > n /\ ~outside(bv, k[n + 1])
    BY <1>2, <1>14 DEF Longer
  <2>5. \A m \in Below(ks, p) : Len(m) > n => m \in longer
    BY <1>14 DEF Longer
  <2>6. QED
    BY <1>6, <1>14, <1>16, <2>1, <2>2, <2>3, <2>4, <2>5 DEF Loop
<1>19. /\ rs2 \in Seq(Ranges) /\ Len(rs) \in Nat
       /\ \A j \in 1 .. Len(rs) : j \in 1 .. Len(rs2) /\ rs2[j] = rs[j]
       /\ longer # {} => Len(rs) + 1 \in 1 .. Len(rs2) /\ rs2[Len(rs) + 1] = r
       /\ \A j \in 1 .. Len(rs2) : j \in 1 .. Len(rs) \/ (longer # {} /\ j = Len(rs) + 1)
  <2>1. Len(rs) \in Nat
    BY LenProperties
  <2>2. CASE longer = {}
    BY <1>a, <1>b, <2>1, <2>2
  <2>3. CASE longer # {}
    <3>1. rs2 = Append(rs, r)
      BY <1>a, <1>b, <1>6, <2>3 DEF r
    <3>2. /\ rs2 \in Seq(Ranges) /\ Len(rs2) = Len(rs) + 1 /\ rs2[Len(rs) + 1] = r
          /\ \A j \in 1 .. Len(rs) : rs2[j] = rs[j]
      BY <1>16, <3>1, AppendProperties
    <3>3. /\ \A j \in 1 .. Len(rs) : j \in 1 .. Len(rs) + 1
          /\ \A j \in 1 .. Len(rs) + 1 : j \in 1 .. Len(rs) \/ j = Len(rs) + 1
          /\ Len(rs) + 1 \in 1 .. Len(rs) + 1
      BY <2>1
    <3>4. QED
      BY <2>1, <2>3, <3>2, <3>3
  <2>4. QED
    BY <2>2, <2>3
<1>20. \A j \in 1 .. Len(rs2) : Loop(ks, st2, ps2, rs2[j])
  BY <1>13, <1>18, <1>19
<1>21. \A i, j \in 1 .. Len(rs2) : i # j => rs2[i].bv # rs2[j].bv
  <2>1. \A i, j \in 1 .. Len(rs) : i # j => rs[i].bv # rs[j].bv
    BY <1>a DEF Trie
  <2>2. \A i \in 1 .. Len(rs) : rs[i].bv # c - 1
    <3>1. \A i \in 1 .. Len(rs) : rs[i].bv + 1 # c
      BY <1>12
    <3>2. QED
      BY <1>16, <3>1
  <2>3. QED
    BY <1>16, <1>19, <2>1, <2>2
<1>22. ASSUME NEW i \in 1 .. N + len
       PROVE  Awaited(st2, rs2, i) \/ Built(ks, st2, ps2, i)
  <2>1. CASE i \in N + 1 .. N + len
    <3>1. SUFFICES ASSUME ~Awaited(st2, rs2, i)
                   PROVE  Built(ks, st2, ps2, i)
      OBVIOUS
    <3>2. st2[i] = Empty
      BY <1>4, <2>1
    <3>3. PICK b \in 0 .. len - 1 : i = N + b + 1
      <4>1. i - N - 1 \in 0 .. len - 1 /\ i = N + (i - N - 1) + 1
        BY <1>0, <2>1
      <4>2. QED
        BY <4>1
    <3>4. ps2[i] = Append(p, bv.nextOffset + b) /\ bv.nextOffset + b \in KeyBytes
      BY <1>3, <1>5, <3>3
    <3>5. ps2[i] \in Seq(KeyBytes) /\ Len(ps2[i]) = n + 1 /\ ps2[i][n + 1] = bv.nextOffset + b
          /\ \A m \in 1 .. n : ps2[i][m] = p[m]
      <4> DEFINE x == bv.nextOffset + b
      <4> HIDE DEF x
      <4>1. ps2[i] = Append(p, x) /\ x \in KeyBytes
        BY <3>4 DEF x
      <4>2. /\ Append(p, x) \in Seq(KeyBytes) /\ Len(Append(p, x)) = n + 1 /\ Append(p, x)[n + 1] = x
            /\ \A m \in 1 .. n : Append(p, x)[m] = p[m]
        BY <1>1, <1>6, <4>1, AppendProperties
      <4>3. QED
        BY <4>1, <4>2 DEF x
    <3>6. Below(ks, ps2[i]) = {}
      <4>1. SUFFICES ASSUME NEW k \in Below(ks, ps2[i])
                     PROVE  FALSE
        OBVIOUS
      <4>2. k \in ks /\ n + 1 <= Len(k) /\ \A m \in 1 .. n + 1 : k[m] = ps2[i][m]
        BY <3>5 DEF Below
      <4>3. Len(k) \in Nat /\ n \in Nat
        BY <1>1, <4>2, LenProperties
      <4>4. \A m \in 1 .. n : m \in 1 .. n + 1
        BY <4>3
      <4>5. n + 1 \in 1 .. n + 1 /\ n <= Len(k) /\ Len(k) > n
        BY <4>2, <4>3
      <4>6. k \in Below(ks, p)
        BY <1>6, <3>5, <4>2, <4>4, <4>5 DEF Below
      <4>7. k \in longer /\ k[n + 1] = bv.nextOffset + b
        BY <1>14, <3>5, <4>2, <4>5, <4>6 DEF Longer
      <4>8. (bv.nextOffset + b) - bv.nextOffset = b
        BY <1>3
      <4>9. ElementOf(st2, r, k) = i
        BY <1>17, <3>3, <4>7, <4>8
      <4>10. Len(rs) + 1 \in 1 .. Len(rs2) /\ rs2[Len(rs) + 1] = r /\ k \in r.keys
        BY <1>16, <1>19, <4>7
      <4>11. QED
        BY <3>1, <4>9, <4>10 DEF Awaited
    <3>7. QED
      BY <3>2, <3>5, <3>6, NoKeysBuilt
  <2>2. CASE i = c
    <3>1. st2[i] = bv /\ ps2[i] = p
      BY <1>4, <1>5, <1>6, <2>2
    <3>2. \A k \in Below(ks, p) : Len(k) > n => ~outside(bv, k[n + 1])
      BY <1>2, <1>14 DEF Longer
    <3>3. Built(ks, st2, ps2, i)
      BY <1>2, <1>6, <3>1, <3>2 DEF Built
    <3>4. QED
      BY <3>3
  <2>3. CASE i \in 1 .. N /\ i # c
    <3>1. st2[i] = st[i] /\ ps2[i] = ps[i]
      BY <1>4, <1>5, <2>3
    <3>2. Awaited(st, rs, i) \/ Built(ks, st, ps, i)
      BY <1>a, <1>6, <2>3 DEF Trie
    <3>3. Awaited(st, rs, i) => Awaited(st2, rs2, i)
      <4>1. SUFFICES ASSUME NEW j \in 1 .. Len(rs), NEW k \in rs[j].keys, i = ElementOf(st, rs[j], k)
                     PROVE  Awaited(st2, rs2, i)
        BY DEF Awaited
      <4>2. j \in 1 .. Len(rs2) /\ rs2[j] = rs[j] /\ i = ElementOf(st2, rs2[j], k)
        BY <1>12, <1>19, <4>1
      <4>3. QED
        BY <4>2 DEF Awaited
    <3>4. Built(ks, st, ps, i) => Built(ks, st2, ps2, i)
      BY <3>1 DEF Built
    <3>5. QED
      BY <3>2, <3>3, <3>4
  <2>4. QED
    BY <1>8, <2>1, <2>2, <2>3
<1>23. QED
  BY <1>0, <1>11, <1>19, <1>20, <1>21, <1>22 DEF Trie

\* The path of an element, continued by a byte.
LEMMA Extended ==
    \A p \in Seq(KeyBytes), b \in KeyBytes :
        /\ Append(p, b) \in Seq(KeyBytes) /\ Len(Append(p, b)) = Len(p) + 1 /\ Append(p, b)[Len(p) + 1] = b
        /\ \A m \in 1 .. Len(p) : Append(p, b)[m] = p[m]
BY AppendProperties

\* The loops around the innermost one.
LEMMA FrontIs ==
    ASSUME NEW S, NEW s \in Seq(S), s # <<>>
    PROVE  /\ Len(s) \in Nat /\ Len(s) \in 1 .. Len(s) /\ Len(s) - 1 \in Nat
           /\ Front(s) \in Seq(S) /\ Len(Front(s)) = Len(s) - 1
           /\ \A i \in 1 .. Len(s) - 1 : Front(s)[i] = s[i]
<1>1. Len(s) \in Nat /\ Len(s) # 0
  BY EmptySeq
<1> DEFINE q == Len(s) - 1
<1>2. q \in Nat /\ q \in Int /\ Len(s) \in 1 .. Len(s)
  BY <1>1
<1>3. \A i \in 1 .. q : s[i] \in S
  <2>1. \A i \in 1 .. q : i \in 1 .. Len(s)
    BY <1>1
  <2>2. QED
    BY <2>1, ElementOfSeq
<1>4. Front(s) = SubSeq(s, 1, q)
  BY DEF Front
<1> HIDE DEF q
<1>5. SubSeq(s, 1, q) \in Seq(S) /\ Len(SubSeq(s, 1, q)) = q /\ \A i \in 1 .. q : SubSeq(s, 1, q)[i] = s[i]
  BY <1>2, <1>3, SubSeqProperties
<1>6. QED
  BY <1>1, <1>2, <1>4, <1>5 DEF q

\* one pass of the innermost loop r of rs: same are the keys of the element c that it makes
Passes(st, rs, r, b, same, c, outer) ==
    /\ r = rs[Len(rs)] /\ b = Min(BytesAt(r.keys, r.byteIndex)) /\ same = {k \in r.keys : k[r.byteIndex + 1] = b}
    /\ c = st[r.bv + 1].nextLo + (b - st[r.bv + 1].nextOffset) + 1
    /\ outer = IF same = r.keys THEN Front(rs) ELSE Append(Front(rs), [r EXCEPT !.keys = @ \ same])

\* One pass of the innermost loop takes the keys of one element, which then is the only
\* one that is neither built nor awaited.
LEMMA NextPass ==
    ASSUME KeyRadix \in Nat \ {0, 1}, NEW ks, ks \subseteq Seq(KeyBytes), NEW st, NEW ps, NEW rs \in Seq(Ranges),
           rs # <<>>, Trie(ks, st, ps, rs, {}), NEW r, NEW b, NEW same, NEW c, NEW outer,
           Passes(st, rs, r, b, same, c, outer)
    PROVE  /\ same = Below(ks, ps[c]) /\ Len(ps[c]) = r.byteIndex + 1
           /\ outer \in Seq(Ranges) /\ Pending(ks, st, ps, outer, c)
           /\ b \in Nat /\ st[r.bv + 1].nextLo \in Nat /\ st[r.bv + 1].nextOffset \in Nat
<1>a. /\ r = rs[Len(rs)] /\ b = Min(BytesAt(r.keys, r.byteIndex)) /\ same = {k \in r.keys : k[r.byteIndex + 1] = b}
      /\ c = st[r.bv + 1].nextLo + (b - st[r.bv + 1].nextOffset) + 1
      /\ outer = IF same = r.keys THEN Front(rs) ELSE Append(Front(rs), [r EXCEPT !.keys = @ \ same])
  BY DEF Passes
<1> DEFINE d == Len(rs)
           a == r.bv + 1
           n == r.byteIndex
           p == ps[a]
           r2 == [r EXCEPT !.keys = @ \ same]
           next == BytesAt(r.keys, n)
<1>1. /\ d \in Nat /\ d \in 1 .. d /\ d - 1 \in Nat /\ Front(rs) \in Seq(Ranges) /\ Len(Front(rs)) = d - 1
      /\ \A j \in 1 .. d - 1 : Front(rs)[j] = rs[j]
  BY FrontIs
<1>2. Shape(st, ps) /\ Loop(ks, st, ps, r) /\ r \in Ranges
  BY <1>a, <1>1, ElementOfSeq DEF Trie
<1>3. a \in 1 .. Len(st) /\ p \in Seq(KeyBytes) /\ n = Len(p) /\ n \in Nat
  <2>1. a \in 1 .. Len(st) /\ n = Len(p)
    BY <1>2 DEF Loop
  <2>2. p \in Seq(KeyBytes)
    BY <1>2, <2>1, ElementOfSeq DEF Shape
  <2>3. QED
    BY <2>1, <2>2, LenProperties
<1>4. next \subseteq KeyBytes /\ next # {}
  <2>1. \A k \in r.keys : k[n + 1] \in KeyBytes
    BY <1>2, ElementIn DEF Made
  <2>2. r.keys # {}
    BY <1>2 DEF Loop
  <2>3. QED
    BY <2>1, <2>2 DEF BytesAt
<1>5. b \in next
  <2>1. KeyRadix - 2 \in Nat
    OBVIOUS
  <2>2. b = Min(next)
    BY <1>a
  <2> HIDE DEF next
  <2>3. QED
    BY <1>4, <2>1, <2>2, LeastAndGreatest DEF KeyBytes
<1>6. PICK k0 \in r.keys : k0[n + 1] = b
  BY <1>5 DEF BytesAt
<1> HIDE DEF next
<1>7. c = ElementOf(st, r, k0)
  BY <1>a, <1>6 DEF ElementOf
<1>8. c \in 1 .. Len(st) /\ ps[c] = Append(p, b) /\ b \in KeyBytes
  <2>1. /\ ElementOf(st, r, k0) \in 1 .. Len(st) /\ k0[r.byteIndex + 1] \in KeyBytes
        /\ ps[ElementOf(st, r, k0)] = Append(ps[r.bv + 1], k0[r.byteIndex + 1])
    <3>1. Made(st, ps, r, k0)
      BY <1>2, ElementIn
    <3>2. QED
      BY <3>1 DEF Made
  <2>2. QED
    BY <1>6, <1>7, <2>1
<1>9. st[c] = Empty
  BY <1>2, <1>7 DEF Loop
<1>10. /\ ps[c] \in Seq(KeyBytes) /\ Len(ps[c]) = n + 1 /\ ps[c][n + 1] = b
       /\ \A m \in 1 .. n : ps[c][m] = p[m]
  <2> HIDE DEF p, n
  <2>1. p \in Seq(KeyBytes) /\ b \in KeyBytes /\ n = Len(p) /\ ps[c] = Append(p, b)
    BY <1>3, <1>8
  <2>2. /\ Append(p, b) \in Seq(KeyBytes) /\ Len(Append(p, b)) = Len(p) + 1 /\ Append(p, b)[Len(p) + 1] = b
        /\ \A m \in 1 .. Len(p) : Append(p, b)[m] = p[m]
    BY <2>1, Extended
  <2>3. QED
    BY <2>1, <2>2
<1>11. same = Below(ks, ps[c])
  <2>1. ASSUME NEW k \in same PROVE k \in Below(ks, ps[c])
    <3>1. k \in r.keys /\ k[n + 1] = b
      BY <1>a
    <3>2. k \in Below(ks, p) /\ Len(k) > n
      BY <1>2, <3>1 DEF Loop
    <3>3. k \in ks /\ Len(k) \in Nat /\ \A m \in 1 .. n : k[m] = p[m]
      BY <1>3, <3>2, LenProperties DEF Below
    <3>4. n + 1 <= Len(k) /\ \A m \in 1 .. n + 1 : m \in 1 .. n \/ m = n + 1
      BY <1>3, <3>2, <3>3
    <3>5. QED
      BY <1>10, <3>1, <3>3, <3>4 DEF Below
  <2>2. ASSUME NEW k \in Below(ks, ps[c]) PROVE k \in same
    <3>1. k \in ks /\ n + 1 <= Len(k) /\ \A m \in 1 .. n + 1 : k[m] = ps[c][m]
      BY <1>10 DEF Below
    <3>2. Len(k) \in Nat
      BY <3>1, LenProperties
    <3>3. n <= Len(k) /\ Len(k) > n /\ n + 1 \in 1 .. n + 1 /\ \A m \in 1 .. n : m \in 1 .. n + 1
      <4>1. \A x, y \in Nat : x + 1 <= y => (x <= y /\ y > x)
        OBVIOUS
      <4>2. \A x \in Nat : x + 1 \in 1 .. x + 1 /\ \A m \in 1 .. x : m \in 1 .. x + 1
        OBVIOUS
      <4>3. n \in Nat
        BY <1>3
      <4> HIDE DEF n
      <4>4. QED
        BY <3>1, <3>2, <4>1, <4>2, <4>3
    <3>4. k \in Below(ks, p) /\ k[n + 1] = b
      <4>1. \A m \in 1 .. n : k[m] = p[m]
        BY <1>10, <3>1, <3>3
      <4>2. k[n + 1] = b
        BY <1>10, <3>1, <3>3
      <4>3. QED
        BY <1>3, <3>1, <3>3, <4>1, <4>2 DEF Below
    <3>5. k \in r.keys
      BY <1>2, <1>6, <3>3, <3>4 DEF Loop
    <3>6. QED
      BY <1>a, <3>4, <3>5
  <2>3. QED
    BY <2>1, <2>2
<1>12. r2.bv = r.bv /\ r2.byteIndex = n /\ r2.keys = r.keys \ same /\ r2 \in Ranges
  BY <1>2 DEF Ranges
<1> HIDE DEF d, r2
<1>13. /\ outer \in Seq(Ranges) /\ Len(outer) \in Nat
       /\ \A j \in 1 .. d - 1 : j \in 1 .. Len(outer) /\ outer[j] = rs[j]
       /\ same # r.keys => d \in 1 .. Len(outer) /\ outer[d] = r2
       /\ \A j \in 1 .. Len(outer) : j \in 1 .. d - 1 \/ (same # r.keys /\ j = d)
  <2>1. CASE same = r.keys
    BY <1>a, <1>1, <2>1
  <2>2. CASE same # r.keys
    <3>1. outer = Append(Front(rs), r2)
      BY <1>a, <2>2 DEF r2
    <3>2. (d - 1) + 1 = d /\ (\A j \in 1 .. d - 1 : j \in 1 .. d) /\ \A j \in 1 .. d : j \in 1 .. d - 1 \/ j = d
      BY <1>1
    <3>3. /\ outer \in Seq(Ranges) /\ Len(outer) = (d - 1) + 1 /\ outer[(d - 1) + 1] = r2
          /\ \A j \in 1 .. d - 1 : outer[j] = Front(rs)[j]
      BY <1>1, <1>12, <3>1, AppendProperties
    <3>4. QED
      BY <1>1, <2>2, <3>2, <3>3
  <2>3. QED
    BY <2>1, <2>2
<1>14. same # r.keys => Loop(ks, st, ps, r2)
  <2>1. same \subseteq r.keys
    BY <1>a
  <2>2. \A k : ElementOf(st, r2, k) = ElementOf(st, r, k)
    BY <1>12 DEF ElementOf
  <2>3. \A k \in r.keys : k \notin same <=> k[n + 1] # b
    BY <1>a
  <2>4. r2.keys # {} <=> same # r.keys
    BY <1>12, <2>1
  <2> HIDE DEF n
  <2>5. r.byteIndex = n
    BY DEF n
  <2>6. QED
    BY <1>2, <1>12, <2>2, <2>3, <2>4, <2>5 DEF Loop
<1>15. \A j \in 1 .. d - 1 : j \in 1 .. d /\ j # d
  BY <1>1
<1>16. d = Len(rs) /\ r = rs[d]
  BY <1>a DEF d
<1>17. \A j \in 1 .. Len(outer) : Loop(ks, st, ps, outer[j])
  <2>1. \A j \in 1 .. d : Loop(ks, st, ps, rs[j])
    BY <1>16 DEF Trie
  <2>2. QED
    BY <1>13, <1>14, <1>15, <2>1
<1>18. \A j \in 1 .. d - 1 : rs[j].bv # r.bv
  BY <1>1, <1>15, <1>16 DEF Trie
<1>19. \A i, j \in 1 .. Len(outer) : i # j => outer[i].bv # outer[j].bv
  <2>1. \A i, j \in 1 .. d - 1 : i # j => rs[i].bv # rs[j].bv
    BY <1>15, <1>16 DEF Trie
  <2>2. \A j \in 1 .. Len(outer) : (j \in 1 .. d - 1 /\ outer[j].bv = rs[j].bv) \/ (j = d /\ outer[j].bv = r.bv)
    BY <1>12, <1>13
  <2>3. ASSUME NEW i \in 1 .. Len(outer), NEW j \in 1 .. Len(outer), i # j
        PROVE  outer[i].bv # outer[j].bv
    <3>1. CASE i \in 1 .. d - 1 /\ j \in 1 .. d - 1
      BY <1>15, <2>1, <2>2, <2>3, <3>1
    <3>2. CASE i \in 1 .. d - 1 /\ j = d
      BY <1>15, <1>18, <2>2, <3>2
    <3>3. CASE i = d /\ j \in 1 .. d - 1
      BY <1>15, <1>18, <2>2, <3>3
    <3>4. QED
      BY <2>2, <2>3, <3>1, <3>2, <3>3
  <2>4. QED
    BY <2>3
<1>20. ~Awaited(st, outer, c)
  <2> SUFFICES ASSUME Awaited(st, outer, c) PROVE FALSE
    OBVIOUS
  <2>a. PICK j \in 1 .. Len(outer) : \E k \in outer[j].keys : c = ElementOf(st, outer[j], k)
    BY DEF Awaited
  <2>1. PICK k \in outer[j].keys : c = ElementOf(st, outer[j], k)
    BY <2>a
  <2>2. CASE j \in 1 .. d - 1
    <3> DEFINE q == rs[j]
               f == q.bv + 1
    <3>1. outer[j] = q /\ Loop(ks, st, ps, q)
      BY <1>13, <1>15, <1>16, <2>2 DEF Trie
    <3>2. q.bv # r.bv /\ q.bv \in Nat /\ r.bv \in Nat
      BY <1>2, <1>18, <2>2, <3>1 DEF Loop
    <3>3. f # a
      BY <3>2
    <3>4. /\ st[f].nextLen > 0 /\ c \in st[f].nextLo + 1 .. st[f].nextLo + st[f].nextLen /\ st[f] \in Elements
      <4>1. k \in q.keys /\ c = ElementOf(st, q, k)
        BY <2>1, <3>1
      <4> HIDE DEF q
      <4>2. /\ st[q.bv + 1].nextLen > 0 /\ st[q.bv + 1] \in Elements
            /\ ElementOf(st, q, k) \in st[q.bv + 1].nextLo + 1 .. st[q.bv + 1].nextLo + st[q.bv + 1].nextLen
        <5>1. Made(st, ps, q, k)
          BY <1>2, <3>1, <4>1, ElementIn
        <5>2. QED
          BY <5>1 DEF Made
      <4>3. QED
        BY <4>1, <4>2
    <3>5. /\ st[a].nextLen > 0 /\ c \in st[a].nextLo + 1 .. st[a].nextLo + st[a].nextLen /\ st[a] \in Elements
      <4>1. /\ st[r.bv + 1].nextLen > 0 /\ st[r.bv + 1] \in Elements
            /\ ElementOf(st, r, k0) \in st[r.bv + 1].nextLo + 1 .. st[r.bv + 1].nextLo + st[r.bv + 1].nextLen
        BY <1>2, ElementIn DEF Made
      <4>2. QED
        BY <1>7, <4>1
    <3>6. f \in 1 .. Len(st)
      BY <3>1 DEF Loop
    <3>7. Apart(st, f, a)
      BY <1>2, <1>3, <3>3, <3>6 DEF Shape
    <3>8. st[f].nextLo + st[f].nextLen <= st[a].nextLo \/ st[a].nextLo + st[a].nextLen <= st[f].nextLo
      BY <3>4, <3>5, <3>7 DEF Apart
    <3> HIDE DEF f, q, a
    <3>9. \A lo1, l1, lo2, l2 \in Nat : \A x : (/\ x \in lo1 + 1 .. lo1 + l1 /\ x \in lo2 + 1 .. lo2 + l2) =>
              ~(lo1 + l1 <= lo2 \/ lo2 + l2 <= lo1)
      OBVIOUS
    <3>10. {st[f].nextLo, st[f].nextLen, st[a].nextLo, st[a].nextLen} \subseteq Nat
      BY <3>4, <3>5 DEF Elements
    <3>11. QED
      BY <3>4, <3>5, <3>8, <3>9, <3>10
  <2>3. CASE same # r.keys /\ j = d
    <3>0. r2.keys = r.keys \ same /\ r2.bv = r.bv /\ r2.byteIndex = r.byteIndex
      BY <1>12
    <3> HIDE DEF r2
    <3>1. k \in r.keys /\ k \notin same /\ c = ElementOf(st, r, k)
      BY <1>13, <2>1, <2>3, <3>0 DEF ElementOf
    <3>2. k[n + 1] \in KeyBytes /\ st[a] \in Elements /\ k[n + 1] # b
      BY <1>a, <1>2, <3>1, ElementIn DEF Made
    <3>3. \A lo, o, x, y \in Nat : lo + (x - o) + 1 = lo + (y - o) + 1 => x = y
      OBVIOUS
    <3>4. {st[a].nextLo, st[a].nextOffset, k[n + 1], b} \subseteq Nat
      <4> HIDE DEF a, n
      <4>0. \A x \in Elements : x.nextLo \in Nat /\ x.nextOffset \in KeyBytes
        BY DEF Elements
      <4>1. st[a].nextLo \in Nat /\ st[a].nextOffset \in KeyBytes
        BY <3>2, <4>0
      <4>2. KeyBytes \subseteq Nat
        BY BytesAreNumbers
      <4>3. QED
        BY <1>8, <3>2, <4>1, <4>2
    <3>5. c = st[a].nextLo + (k[n + 1] - st[a].nextOffset) + 1 /\ c = st[a].nextLo + (b - st[a].nextOffset) + 1
      BY <1>a, <3>1 DEF ElementOf
    <3> HIDE DEF a, n
    <3>6. QED
      BY <3>2, <3>3, <3>4, <3>5
  <2>4. QED
    BY <1>13, <2>2, <2>3
<1>21. ASSUME NEW i \in 1 .. Len(st)
       PROVE  i \in {c} \/ Awaited(st, outer, i) \/ Built(ks, st, ps, i)
  <2>1. Awaited(st, rs, i) \/ Built(ks, st, ps, i)
    BY DEF Trie
  <2>2. ASSUME i # c, NEW j \in 1 .. Len(rs), NEW k \in rs[j].keys, i = ElementOf(st, rs[j], k)
        PROVE  Awaited(st, outer, i)
    <3>1. j \in 1 .. d - 1 \/ j = d
      BY <1>1, <1>16
    <3>2. CASE j \in 1 .. d - 1
      <4>1. j \in 1 .. Len(outer) /\ outer[j] = rs[j]
        BY <1>13, <3>2
      <4>2. QED
        BY <2>2, <4>1 DEF Awaited
    <3>3. CASE j = d
      <4>1. k \in r.keys /\ i = ElementOf(st, r, k)
        BY <1>16, <2>2, <3>3
      <4>2. k \notin same
        <5>1. SUFFICES ASSUME k \in same PROVE FALSE
          OBVIOUS
        <5>2. k[r.byteIndex + 1] = b
          BY <1>a, <5>1
        <5>3. i = c
          BY <1>a, <4>1, <5>2 DEF ElementOf
        <5>4. QED
          BY <2>2, <5>3
      <4>3. d \in 1 .. Len(outer) /\ outer[d] = r2 /\ k \in r2.keys
        BY <1>12, <1>13, <4>1, <4>2
      <4>4. ElementOf(st, r2, k) = i
        BY <1>12, <4>1 DEF ElementOf
      <4>5. QED
        BY <4>3, <4>4 DEF Awaited
    <3>4. QED
      BY <3>1, <3>2, <3>3
  <2>3. QED
    BY <2>1, <2>2 DEF Awaited
<1>22. Trie(ks, st, ps, outer, {c})
  BY <1>2, <1>17, <1>19, <1>21 DEF Trie
<1>23. b \in Nat /\ st[r.bv + 1].nextLo \in Nat /\ st[r.bv + 1].nextOffset \in Nat
  <2>1. Made(st, ps, r, k0)
    BY <1>2, ElementIn
  <2>2. \A e \in Elements : e.nextLo \in Nat /\ e.nextOffset \in Nat
    BY DEF Elements, KeyBytes
  <2>3. KeyBytes \subseteq Nat
    BY DEF KeyBytes
  <2>4. st[r.bv + 1] \in Elements
    BY <2>1 DEF Made
  <2>5. QED
    BY <1>8, <2>2, <2>3, <2>4
<1>24. QED
  BY <1>3, <1>8, <1>9, <1>10, <1>11, <1>13, <1>20, <1>22, <1>23 DEF Pending

\* A lookup that is under way is at the element of the bytes it has read, in an index
\* that is built.
Searching ==
    lookup.phase = "search" =>
        /\ lookup.bv \in Nat /\ lookup.bv + 1 \in 1 .. Len(store)
        /\ lookup.i \in Nat /\ lookup.i <= Len(lookup.s) /\ Len(paths[lookup.bv + 1]) = lookup.i
        /\ \A m \in 1 .. lookup.i : paths[lookup.bv + 1][m] = lookup.s[m]
        /\ lookup.found = FALSE /\ lookup.value = NoAddress

Lookups ==
    [phase : {"idle", "search", "done"}, s : Seq(0 .. KeyRadix - 1), i : Nat, bv : Nat,
     value : Seq(KeyBytes) \cup {NoAddress}, found : BOOLEAN]

IndexInv ==
    /\ indexed \subseteq Seq(KeyBytes)
    /\ ranges \in Seq(Ranges)
    /\ Trie(indexed, store, paths, ranges, {})
    /\ lookup \in Lookups
    /\ lookup.phase # "idle" => ranges = <<>>
    /\ Searching
    /\ LookupIsMap

\* An array of one element: the index of no keys, or the first element to be made.
LEMMA OneEmptyElement ==
    ASSUME KeyRadix \in Nat \ {0, 1}, NEW ks, NEW X
    PROVE  /\ Shape(<<Empty>>, <<<<>>>>)
           /\ ks = {} => Trie(ks, <<Empty>>, <<<<>>>>, <<>>, {})
           /\ Trie(ks, <<Empty>>, <<<<>>>>, <<>>, {1})
<1> DEFINE st == <<Empty>>
           ps == <<<<>>>>
<1>1. st \in Seq(Elements) /\ Len(st) = 1 /\ st[1] = Empty
  BY EmptyIsElement
<1>2. ps \in Seq(Seq(KeyBytes)) /\ Len(ps) = 1 /\ ps[1] = <<>>
  <2>1. <<>> \in Seq(KeyBytes)
    OBVIOUS
  <2>2. QED
    BY <2>1
<1>3. \A i \in 1 .. 1 : i = 1
  OBVIOUS
<1> HIDE DEF st, ps
<1>4. Continued(st, ps, 1)
  <2>1. 0 + 0 <= 1 /\ \A b \in 0 .. 0 - 1 : FALSE
    OBVIOUS
  <2>2. QED
    BY <1>1, <2>1, EmptyIsElement DEF Continued
<1>5. Shape(st, ps)
  BY <1>1, <1>2, <1>3, <1>4 DEF Shape
<1>6. Len(<<>>) = 0 /\ \A j \in 1 .. 0 : FALSE
  OBVIOUS
<1>7. Trie(ks, st, ps, <<>>, {1})
  BY <1>1, <1>3, <1>5, <1>6 DEF Trie
<1>8. ASSUME ks = {} PROVE Trie(ks, st, ps, <<>>, {})
  <2>1. Below(ks, ps[1]) = {}
    BY <1>8 DEF Below
  <2>2. ps[1] \in Seq(KeyBytes)
    BY <1>2
  <2>3. Built(ks, st, ps, 1)
    BY <1>1, <2>1, <2>2, NoKeysBuilt
  <2>4. QED
    BY <1>1, <1>3, <1>5, <1>6, <2>3 DEF Trie
<1>9. QED
  BY <1>5, <1>7, <1>8 DEF st, ps

\* The index of a new Manager.
LEMMA IndexInvInit == IndexInit => IndexInv
<1> SUFFICES ASSUME IndexInit PROVE IndexInv
  OBVIOUS
<1>1. KeyRadix \in Nat \ {0, 1}
  BY IndexAssumption
<1>2. indexed \subseteq Seq(KeyBytes) /\ ranges \in Seq(Ranges) /\ Trie(indexed, store, paths, ranges, {})
  BY <1>1, OneEmptyElement DEF IndexInit
<1>3. lookup \in Lookups /\ lookup.phase = "idle"
  <2>1. <<>> \in Seq(0 .. KeyRadix - 1)
    OBVIOUS
  <2>2. QED
    BY <2>1 DEF IndexInit, NoLookup, Lookups
<1>4. QED
  BY <1>2, <1>3 DEF IndexInv, Searching, LookupIsMap

\* makeByteValue, called for the one element that is neither built nor awaited.
LEMMA MakeKeeps ==
    ASSUME KeyRadix \in Nat \ {0, 1}, NEW ks, ks \subseteq Seq(KeyBytes), NEW st, NEW ps, NEW rs \in Seq(Ranges),
           NEW at \in Int, NEW c, c = at + 1, Pending(ks, st, ps, rs, c), NEW below, below = Below(ks, ps[c]),
           NEW n, n = Len(ps[c]), makeByteValue(st, ps, rs, at, below, n)
    PROVE  Trie(ks, store', paths', ranges', {}) /\ ranges' \in Seq(Ranges)
<1> DEFINE bv == byteValue(below, n, Len(st))
           longer == Longer(below, n)
<1>1. /\ store' = alloc([st EXCEPT ![c] = bv], bv.nextLen)
      /\ paths' = ps \o [i \in 1 .. bv.nextLen |-> Append(ps[c], bv.nextOffset + i - 1)]
      /\ ranges' = IF longer = {} THEN rs ELSE Append(rs, [bv |-> at, keys |-> longer, byteIndex |-> n])
  BY DEF makeByteValue
<1>2. c - 1 = at
  OBVIOUS
<1>3. ranges' = IF longer = {} THEN rs ELSE Append(rs, [bv |-> c - 1, keys |-> longer, byteIndex |-> n])
  BY <1>1, <1>2
<1>4. Visits(ks, st, ps, rs, c, bv, longer, store', paths', ranges')
  BY <1>1, <1>3 DEF Visits
<1>5. QED
  BY <1>4, Visit

\* objectBuild makes the first element.
LEMMA BuildKeeps == IndexInv /\ newAddressMemStore => IndexInv'
<1> SUFFICES ASSUME IndexInv, newAddressMemStore
             PROVE  IndexInv'
  OBVIOUS
<1>1. KeyRadix \in Nat \ {0, 1}
  BY IndexAssumption
<1>2. PICK ks \in KeySets \ {{}} : indexed' = ks /\ objectBuild(ks)
  BY DEF newAddressMemStore
<1>3. ks \subseteq Seq(KeyBytes)
  BY <1>2, IndexAssumption DEF KeyBytes
<1>4. lookup' = lookup /\ lookup.phase = "idle"
  BY DEF newAddressMemStore
<1> DEFINE st == <<Empty>>
           ps == <<<<>>>>
<1>5. Trie(ks, st, ps, <<>>, {1})
  BY <1>1, OneEmptyElement
<1>6. 0 + 1 = 1 /\ Len(st) = 1 /\ st[1] = Empty /\ ps[1] = <<>> /\ Len(<<>>) = 0 /\ \A j \in 1 .. 0 : FALSE
  OBVIOUS
<1>7. Below(ks, <<>>) = ks
  <2>1. \A k \in ks : Len(k) \in Nat
    BY <1>3, LenProperties
  <2>2. QED
    BY <1>6, <2>1 DEF Below
<1> HIDE DEF st, ps
<1>8. makeByteValue(st, ps, <<>>, 0, Below(ks, ps[1]), Len(ps[1]))
  BY <1>2, <1>6, <1>7 DEF objectBuild, st, ps
<1>9. Pending(ks, st, ps, <<>>, 1)
  BY <1>5, <1>6 DEF Awaited, Pending
<1>10. <<>> \in Seq(Ranges) /\ 0 \in Int
  OBVIOUS
<1>11. Trie(ks, store', paths', ranges', {}) /\ ranges' \in Seq(Ranges)
  BY <1>1, <1>3, <1>6, <1>8, <1>9, <1>10, MakeKeeps
<1>12. lookup \in Lookups
  BY DEF IndexInv
<1>13. QED
  BY <1>2, <1>3, <1>4, <1>11, <1>12 DEF IndexInv, Searching, LookupIsMap

\* A pass of a loop of makeByteValue makes the next element.
LEMMA MakeNextKeeps == IndexInv /\ makeNext => IndexInv'
<1> SUFFICES ASSUME IndexInv, makeNext
             PROVE  IndexInv'
  OBVIOUS
<1>1. KeyRadix \in Nat \ {0, 1}
  BY IndexAssumption
<1>2. /\ indexed \subseteq Seq(KeyBytes) /\ ranges \in Seq(Ranges) /\ Trie(indexed, store, paths, ranges, {})
      /\ ranges # <<>> /\ lookup \in Lookups /\ lookup.phase = "idle" /\ indexed' = indexed /\ lookup' = lookup
  BY DEF IndexInv, makeNext
<1> DEFINE r == ranges[Len(ranges)]
           b == Min(BytesAt(r.keys, r.byteIndex))
           same == {k \in r.keys : k[r.byteIndex + 1] = b}
           e == store[r.bv + 1]
           at == e.nextLo + (b - e.nextOffset)
           outer == IF same = r.keys THEN Front(ranges) ELSE Append(Front(ranges), [r EXCEPT !.keys = @ \ same])
<1>3. makeByteValue(store, paths, outer, at, same, r.byteIndex + 1)
  BY DEF makeNext, Last
<1>4. Passes(store, ranges, r, b, same, at + 1, outer)
  BY DEF Passes
<1> HIDE DEF r, b, same, e, at, outer
<1>6. Trie(indexed, store', paths', ranges', {}) /\ ranges' \in Seq(Ranges)
  <2>1. /\ same = Below(indexed, paths[at + 1]) /\ Len(paths[at + 1]) = r.byteIndex + 1
        /\ outer \in Seq(Ranges) /\ Pending(indexed, store, paths, outer, at + 1)
        /\ b \in Nat /\ store[r.bv + 1].nextLo \in Nat /\ store[r.bv + 1].nextOffset \in Nat
    BY <1>1, <1>2, <1>4, NextPass
  <2>2. at \in Int
    BY <2>1 DEF at, e
  <2>3. QED
    BY <1>1, <1>2, <1>3, <2>1, <2>2, MakeKeeps
<1>7. QED
  BY <1>2, <1>6 DEF IndexInv, Searching, LookupIsMap

\* A lookup starts at the first element, whose path is empty.
LEMMA StartKeeps == IndexInv /\ LookupString => IndexInv'
<1> SUFFICES ASSUME IndexInv, LookupString
             PROVE  IndexInv'
  OBVIOUS
<1>1. PICK s \in Probes : lookup' = [NoLookup EXCEPT !.phase = "search", !.s = s]
  BY DEF LookupString
<1>2. s \in Seq(0 .. KeyRadix - 1) /\ Len(s) \in Nat
  BY IndexAssumption, LenProperties
<1>3. indexed' = indexed /\ store' = store /\ ranges' = ranges /\ paths' = paths /\ ranges = <<>>
  BY DEF LookupString
<1>4. lookup' = [phase |-> "search", s |-> s, i |-> 0, bv |-> 0, value |-> NoAddress, found |-> FALSE]
  BY <1>1 DEF NoLookup
<1>5. lookup' \in Lookups /\ lookup'.phase = "search"
  BY <1>2, <1>4 DEF Lookups
<1>6. Trie(indexed, store, paths, ranges, {}) /\ indexed \subseteq Seq(KeyBytes) /\ ranges \in Seq(Ranges)
  BY DEF IndexInv
<1>7. Len(store) \in Nat /\ 1 <= Len(store) /\ paths[1] = <<>>
  BY <1>6, LenProperties DEF Trie, Shape
<1>8. Searching'
  <2>1. /\ lookup'.bv = 0 /\ lookup'.i = 0 /\ lookup'.s = s /\ lookup'.found = FALSE /\ lookup'.value = NoAddress
    BY <1>4
  <2>2. 0 \in Nat /\ 0 + 1 = 1 /\ 1 \in 1 .. Len(store) /\ 0 <= Len(s) /\ Len(<<>>) = 0 /\ \A m \in 1 .. 0 : FALSE
    BY <1>2, <1>7
  <2>3. QED
    BY <1>3, <1>7, <2>1, <2>2 DEF Searching
<1>9. LookupIsMap'
  BY <1>5 DEF LookupIsMap
<1>10. QED
  BY <1>3, <1>5, <1>6, <1>8, <1>9 DEF IndexInv

\* A step of a lookup: at the end of the string the element answers, a byte out of
\* range answers that there is no such key, and any other goes to the element of the
\* longer path.
LEMMA SearchKeeps == IndexInv /\ LookupNext => IndexInv'
<1> SUFFICES ASSUME IndexInv, LookupNext
             PROVE  IndexInv'
  OBVIOUS
<1> DEFINE a == lookup.bv + 1
           e == store[a]
           p == paths[a]
           s == lookup.s
           n == lookup.i
           b == s[n + 1]
<1>1. KeyRadix \in Nat \ {0, 1}
  BY IndexAssumption
<1>2. /\ indexed' = indexed /\ store' = store /\ ranges' = ranges /\ paths' = paths /\ lookup.phase = "search"
      /\ Trie(indexed, store, paths, ranges, {}) /\ indexed \subseteq Seq(KeyBytes) /\ ranges \in Seq(Ranges)
      /\ ranges = <<>> /\ lookup \in Lookups /\ Searching
  BY DEF IndexInv, LookupNext
<1>3. /\ a \in 1 .. Len(store) /\ n \in Nat /\ n <= Len(s) /\ Len(p) = n /\ (\A m \in 1 .. n : p[m] = s[m])
      /\ lookup.found = FALSE /\ lookup.value = NoAddress /\ s \in Seq(0 .. KeyRadix - 1) /\ Len(s) \in Nat
  BY <1>2, LenProperties DEF Searching, Lookups
<1>4. Shape(store, paths) /\ Built(indexed, store, paths, a)
  <2>1. ~Awaited(store, <<>>, a)
    <3>1. Len(<<>>) = 0 /\ \A j \in 1 .. 0 : FALSE
      OBVIOUS
    <3>2. QED
      BY <3>1 DEF Awaited
  <2>2. QED
    BY <1>2, <1>3, <2>1 DEF Trie
<1>5. e \in Elements /\ p \in Seq(KeyBytes) /\ Continued(store, paths, a)
  BY <1>3, <1>4, ElementOfSeq DEF Shape
<1>6. CASE n = Len(s)
  <2>1. lookup' = [lookup EXCEPT !.phase = "done", !.value = e.value, !.found = e.valid]
    BY <1>6 DEF LookupNext
  <2>2. s = p
    <3>1. p \in Seq(0 .. KeyRadix - 1)
      <4>1. KeyBytes \subseteq 0 .. KeyRadix - 1
        BY <1>1 DEF KeyBytes
      <4>2. QED
        BY <1>5, <4>1, SeqMonotonic
    <3>2. Len(p) = Len(s) /\ \A m \in 1 .. Len(p) : p[m] = s[m]
      BY <1>3, <1>6
    <3>3. QED
      BY <1>3, <3>1, <3>2, SeqEqual
  <2>3. e.valid \in BOOLEAN /\ e.value \in Seq(KeyBytes) \cup {NoAddress}
    BY <1>5 DEF Elements
  <2>4. (e.valid <=> s \in indexed) /\ e.value = IF s \in indexed THEN s ELSE NoAddress
    BY <1>4, <2>2 DEF Built
  <2> HIDE DEF e
  <2>5. /\ lookup' \in Lookups /\ lookup'.phase = "done" /\ lookup'.s = s
        /\ lookup'.value = e.value /\ lookup'.found = e.valid
    BY <1>2, <2>1, <2>3 DEF Lookups
  <2> HIDE DEF s
  <2>6. LookupIsMap'
    <3>1. e.valid = (s \in indexed)
      BY <2>3, <2>4
    <3>2. QED
      BY <1>2, <2>4, <2>5, <3>1 DEF LookupIsMap
  <2>7. QED
    BY <1>2, <2>5, <2>6 DEF IndexInv, Searching
<1>7. CASE n # Len(s) /\ outside(e, b)
  <2>1. lookup' = [lookup EXCEPT !.phase = "done"]
    BY <1>7 DEF LookupNext
  <2>2. /\ lookup' \in Lookups /\ lookup'.phase = "done" /\ lookup'.s = s
        /\ lookup'.value = NoAddress /\ lookup'.found = FALSE
    BY <1>2, <1>3, <2>1 DEF Lookups
  <2>3. s \notin indexed
    <3>1. SUFFICES ASSUME s \in indexed PROVE FALSE
      OBVIOUS
    <3>2. s \in Below(indexed, p)
      BY <1>3, <3>1 DEF Below
    <3>3. Len(s) > Len(p)
      BY <1>3, <1>7
    <3>4. ~outside(e, s[Len(p) + 1])
      BY <1>4, <3>2, <3>3 DEF Built
    <3>5. QED
      BY <1>3, <1>7, <3>4
  <2>4. LookupIsMap'
    <3> HIDE DEF s
    <3>1. (s \in indexed) = FALSE /\ (IF s \in indexed THEN s ELSE NoAddress) = NoAddress
      BY <2>3
    <3>2. QED
      BY <1>2, <2>2, <3>1 DEF LookupIsMap
  <2>5. QED
    BY <1>2, <2>2, <2>4 DEF IndexInv, Searching
<1>8. CASE n # Len(s) /\ ~outside(e, b)
  <2> DEFINE at == e.nextLo + (b - e.nextOffset)
  <2>1. lookup' = [lookup EXCEPT !.i = n + 1, !.bv = at]
    BY <1>8 DEF LookupNext
  <2>2. n + 1 \in 1 .. Len(s)
    BY <1>3, <1>8
  <2>3. b \in 0 .. KeyRadix - 1
    BY <1>3, <2>2, ElementOfSeq
  <2>4. e.nextLo \in Nat /\ e.nextLen \in Nat /\ e.nextOffset \in Nat /\ e.nextOffset \in KeyBytes
    BY <1>5 DEF Elements, KeyBytes
  <2>5. b \in Nat /\ b - e.nextOffset \in 0 .. e.nextLen - 1
    <3>1. ~(b < e.nextOffset) /\ ~(b - e.nextOffset >= e.nextLen)
      BY <1>8 DEF outside
    <3>2. \A x, y, z \in Nat : (~(x < y) /\ ~(x - y >= z)) => x - y \in 0 .. z - 1
      OBVIOUS
    <3> HIDE DEF e, b
    <3>3. b \in Nat
      BY <1>1, <2>3
    <3>4. QED
      BY <2>4, <3>1, <3>2, <3>3
  <2>6. e.nextLo + e.nextLen <= Len(store) /\ paths[at + 1] = Append(p, e.nextOffset + (b - e.nextOffset))
    BY <1>5, <2>5 DEF Continued
  <2>7. Len(store) \in Nat
    BY <1>4, LenProperties DEF Shape
  <2> HIDE DEF e, b
  <2>8. at \in Nat /\ at + 1 \in 1 .. Len(store) /\ e.nextOffset + (b - e.nextOffset) = b
    <3>1. \A lo, l, m \in Nat : lo + l <= m => \A x \in 0 .. l - 1 : lo + x \in Nat /\ (lo + x) + 1 \in 1 .. m
      OBVIOUS
    <3>2. \A x, y \in Nat : x + (y - x) = y
      OBVIOUS
    <3>3. QED
      BY <2>4, <2>5, <2>6, <2>7, <3>1, <3>2
  <2>9. paths[at + 1] = Append(p, b)
    BY <2>6, <2>8
  <2> HIDE DEF at
  <2>10. /\ lookup' \in Lookups /\ lookup'.phase = "search" /\ lookup'.s = s /\ lookup'.i = n + 1 /\ lookup'.bv = at
         /\ lookup'.value = NoAddress /\ lookup'.found = FALSE
    <3>1. n + 1 \in Nat /\ at \in Nat /\ lookup.s = s
      BY <1>3, <2>8
    <3> DEFINE m == n + 1
    <3>2. m \in Nat /\ lookup' = [lookup EXCEPT !.i = m, !.bv = at]
      BY <2>1, <3>1
    <3> HIDE DEF m, n, s
    <3>3. /\ lookup' \in Lookups /\ lookup'.phase = "search" /\ lookup'.s = s /\ lookup'.i = m /\ lookup'.bv = at
          /\ lookup'.value = NoAddress /\ lookup'.found = FALSE
      BY <1>2, <1>3, <3>1, <3>2 DEF Lookups
    <3>4. QED
      BY <3>3 DEF m
  <2>11. /\ Len(paths[at + 1]) = n + 1 /\ paths[at + 1][n + 1] = b /\ \A m \in 1 .. n : paths[at + 1][m] = p[m]
    <3>1. paths[at + 1] \in Seq(KeyBytes)
      BY <1>4, <2>8, ElementOfSeq DEF Shape
    <3> HIDE DEF p, n
    <3>2. Append(p, b) \in Seq(KeyBytes) /\ p \in Seq(KeyBytes) /\ Len(p) = n
      BY <1>3, <1>5, <2>9, <3>1
    <3>3. Len(Append(p, b)) = Len(p) + 1 /\ Append(p, b)[Len(p) + 1] = b /\ \A m \in 1 .. Len(p) : Append(p, b)[m] = p[m]
      BY <3>2
    <3>4. QED
      BY <2>9, <3>2, <3>3
  <2>12. \A m \in 1 .. n + 1 : paths[at + 1][m] = s[m]
    <3>1. \A m \in 1 .. n + 1 : m \in 1 .. n \/ m = n + 1
      BY <1>3
    <3>2. s[n + 1] = b
      BY DEF b
    <3>3. QED
      BY <1>3, <2>11, <3>1, <3>2
  <2>13. Searching'
    BY <1>2, <1>3, <2>2, <2>8, <2>10, <2>11, <2>12 DEF Searching
  <2>14. LookupIsMap'
    BY <2>10 DEF LookupIsMap
  <2>15. QED
    BY <1>2, <2>10, <2>13, <2>14 DEF IndexInv
<1>9. QED
  BY <1>6, <1>7, <1>8

\* A lookup returns.
LEMMA ReturnKeeps == IndexInv /\ LookupReturn => IndexInv'
<1> SUFFICES ASSUME IndexInv, LookupReturn
             PROVE  IndexInv'
  OBVIOUS
<1>1. NoLookup \in Lookups /\ NoLookup.phase = "idle"
  <2>1. <<>> \in Seq(0 .. KeyRadix - 1)
    OBVIOUS
  <2>2. QED
    BY <2>1 DEF NoLookup, Lookups
<1>2. QED
  BY <1>1 DEF IndexInv, LookupReturn, Searching, LookupIsMap

\* For every pool, every string and every number of bytes: the index of addresses answers
\* as a map of the pool's keys would. makeByteValue gives each key a path of its own
\* through the array and LookupString follows it to the end or finds a byte with which no
\* key goes on (address/fastmap.go).
THEOREM IndexIsMap == IndexSpec => []LookupIsMap
<1>1. IndexInit => IndexInv
  BY IndexInvInit
<1>2. IndexInv /\ [IndexNext]_indexVars => IndexInv'
  <2>1. IndexInv /\ UNCHANGED indexVars => IndexInv'
    <3> SUFFICES ASSUME IndexInv, UNCHANGED indexVars PROVE IndexInv'
      OBVIOUS
    <3>1. indexed' = indexed /\ store' = store /\ ranges' = ranges /\ lookup' = lookup /\ paths' = paths
      BY DEF indexVars
    <3>2. QED
      BY <3>1 DEF IndexInv, Searching, LookupIsMap
  <2>2. QED
    BY <2>1, BuildKeeps, MakeNextKeeps, StartKeeps, SearchKeeps, ReturnKeeps DEF IndexNext
<1>3. IndexInv => LookupIsMap
  BY DEF IndexInv
<1>4. QED
  BY <1>1, <1>2, <1>3, PTL DEF IndexSpec
=============================================================================
