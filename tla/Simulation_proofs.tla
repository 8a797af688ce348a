-------------------------- MODULE Simulation_proofs --------------------------
(***************************************************************************)
(* Proofs about a run of the simulator, for any model, command line and    *)
(* costs of the devices: the columns are numbers that add up, no transfer  *)
(* of a prompt waits, what overlaps takes no longer, the loop over the     *)
(* groups keeps the ledger, the norms of every layer, the transfers, the   *)
(* reads of the KV cache and the DeepStack additions are counted as often  *)
(* as they happen, no prompt is charged for more queries than it has, and  *)
(* the ceiling on the batch turns none away that fits.                     *)
(*                                                                         *)
(* The argument follows the data: totals of sequences of numbers, weights  *)
(* of sequences of layers and of groups, the blocks of a run and what the  *)
(* devices answer for them, the invariant of the run, its columns, what is *)
(* left to price, the samples of a prompt, and the memory of a batch.      *)
(***************************************************************************)
EXTENDS Simulation, InductionLemmas

(* A sum is built up number by number. *)
Sums(sum, f, n) ==
    /\ sum \in [0..n -> Int] /\ sum[0] = 0
    /\ \A i \in 1..n : sum[i] = sum[i - 1] + f[i]

LEMMA SumExists ==
    ASSUME NEW n \in Nat, NEW f \in [1..n -> Int]
    PROVE  \E sum : Sums(sum, f, n)
<1> DEFINE P == {m \in Nat : m <= n => \E sum : Sums(sum, f, m)}
<1>1. 0 \in P
  <2>1. Sums([i \in 0..0 |-> 0], f, 0)
    BY DEF Sums
  <2> QED
    BY <2>1
<1>2. ASSUME NEW m \in Nat, m \in P PROVE m + 1 \in P
  <2> SUFFICES ASSUME m + 1 <= n PROVE \E sum : Sums(sum, f, m + 1)
    OBVIOUS
  <2>1. PICK sum : Sums(sum, f, m)
    BY <1>2
  <2> DEFINE next == [i \in 0..m+1 |-> IF i = m + 1 THEN sum[m] + f[m + 1] ELSE sum[i]]
  <2>2. f[m + 1] \in Int /\ sum[m] \in Int
    BY <2>1 DEF Sums
  <2>3. next \in [0..m+1 -> Int]
    BY <2>1, <2>2 DEF Sums
  <2>4. next[0] = 0
    BY <2>1 DEF Sums
  <2>5. ASSUME NEW i \in 1..m+1 PROVE next[i] = next[i - 1] + f[i]
    <3>1. CASE i = m + 1
      <4>1. i \in 0..m+1 /\ i - 1 \in 0..m+1 /\ i - 1 # m + 1 /\ i - 1 = m
        BY <3>1
      <4> QED
        BY <3>1, <4>1
    <3>2. CASE i \in 1..m
      <4>1. i \in 0..m+1 /\ i - 1 \in 0..m+1 /\ i - 1 # m + 1 /\ i # m + 1
        BY <3>2
      <4> QED
        BY <2>1, <3>2, <4>1 DEF Sums
    <3> QED
      BY <3>1, <3>2
  <2>6. Sums(next, f, m + 1)
    <3> HIDE DEF next
    <3> QED
      BY <2>3, <2>4, <2>5 DEF Sums
  <2> QED
    BY <2>6
<1> QED
  <2> HIDE DEF P
  <2>1. n \in P
    BY <1>1, <1>2, SetInduction
  <2> QED
    BY <2>1 DEF P

LEMMA TotalIsSum ==
    ASSUME NEW n \in Nat, NEW f \in [1..n -> Int]
    PROVE  \E sum : Sums(sum, f, n) /\ Total(f) = sum[n]
<1> DEFINE R(g) == g = [i \in 0..n |-> IF i = 0 THEN 0 ELSE g[i - 1] + f[i]]
           s == CHOOSE g : R(g)
<1>1. Len(f) = n
  OBVIOUS
<1>2. Total(f) = s[n]
  BY <1>1 DEF Total
<1>3. \E g : R(g)
  <2>1. PICK g : Sums(g, f, n)
    BY SumExists
  <2>2. R(g)
    BY <2>1 DEF Sums
  <2> QED
    BY <2>2
<1>4. R(s)
  <2> HIDE DEF R
  <2> QED
    BY <1>3
<1> HIDE DEF s
<1>5. s[0] = 0 /\ \A i \in 1..n : s[i] = s[i - 1] + f[i]
  BY <1>4
<1>6. \A i \in 0..n : s[i] \in Int
  <2> DEFINE P == {m \in Nat : m <= n => s[m] \in Int}
  <2>1. 0 \in P
    BY <1>5
  <2>2. ASSUME NEW m \in Nat, m \in P PROVE m + 1 \in P
    BY <1>5, <2>2
  <2> HIDE DEF P
  <2>3. \A m \in Nat : m \in P
    BY <2>1, <2>2, SetInduction
  <2> QED
    BY <2>3 DEF P
<1>7. Sums(s, f, n)
  BY <1>4, <1>5, <1>6 DEF Sums
<1> QED
  BY <1>2, <1>7

LEMMA TotalType ==
    ASSUME NEW n \in Nat, NEW f \in [1..n -> Int]
    PROVE  Total(f) \in Int
<1>1. PICK sum : Sums(sum, f, n) /\ Total(f) = sum[n]
  BY TotalIsSum
<1> QED
  BY <1>1 DEF Sums

(* A sum of nothing and of one number. *)
LEMMA TotalOfFew ==
    ASSUME NEW n \in {0, 1}, NEW f \in [1..n -> Int]
    PROVE  Total(f) = IF n = 0 THEN 0 ELSE f[1]
<1>1. PICK sum : Sums(sum, f, n) /\ Total(f) = sum[n]
  BY TotalIsSum
<1>2. CASE n = 0
  BY <1>1, <1>2 DEF Sums
<1>3. CASE n = 1
  <2>1. 1 \in 1..n /\ sum[1] = sum[1 - 1] + f[1]
    BY <1>1, <1>3 DEF Sums
  <2>2. sum[0] = 0 /\ sum[1] = 0 + f[1]
    BY <1>1, <2>1 DEF Sums
  <2>3. f[1] \in Int
    BY <1>3
  <2> QED
    BY <1>1, <1>3, <2>2, <2>3
<1> QED
  BY <1>2, <1>3

LEMMA TotalBetween ==
    ASSUME NEW n \in Nat, NEW f \in [1..n -> Int], NEW g \in [1..n -> Int],
           \A i \in 1..n : f[i] <= g[i]
    PROVE  Total(f) <= Total(g)
<1>1. PICK sf : Sums(sf, f, n) /\ Total(f) = sf[n]
  BY TotalIsSum
<1>2. PICK sg : Sums(sg, g, n) /\ Total(g) = sg[n]
  BY TotalIsSum
<1> DEFINE P == {m \in Nat : m <= n => sf[m] <= sg[m]}
<1>3. 0 \in P
  BY <1>1, <1>2 DEF Sums
<1>4. ASSUME NEW m \in Nat, m \in P PROVE m + 1 \in P
  <2> SUFFICES ASSUME m + 1 <= n PROVE sf[m + 1] <= sg[m + 1]
    OBVIOUS
  <2>1. m + 1 \in 1..n /\ m \in 0..n /\ (m + 1) - 1 = m
    OBVIOUS
  <2>2. sf[m + 1] = sf[m] + f[m + 1] /\ sg[m + 1] = sg[m] + g[m + 1]
    BY <1>1, <1>2, <2>1 DEF Sums
  <2>3. sf[m] \in Int /\ sg[m] \in Int /\ f[m + 1] \in Int /\ g[m + 1] \in Int
    BY <1>1, <1>2, <2>1 DEF Sums
  <2>4. sf[m] <= sg[m] /\ f[m + 1] <= g[m + 1]
    BY <1>4, <2>1
  <2> QED
    BY <2>2, <2>3, <2>4
<1> QED
  <2> HIDE DEF P
  <2>1. n \in P
    BY <1>3, <1>4, SetInduction
  <2> QED
    BY <1>1, <1>2, <2>1 DEF P

(* Numbers that are sums of two others add up to the two sums. *)
LEMMA TotalOfSums ==
    ASSUME NEW n \in Nat, NEW f \in [1..n -> Int], NEW g \in [1..n -> Int],
           NEW h \in [1..n -> Int], \A i \in 1..n : h[i] = f[i] + g[i]
    PROVE  Total(h) = Total(f) + Total(g)
<1>1. PICK sf : Sums(sf, f, n) /\ Total(f) = sf[n]
  BY TotalIsSum
<1>2. PICK sg : Sums(sg, g, n) /\ Total(g) = sg[n]
  BY TotalIsSum
<1>3. PICK sh : Sums(sh, h, n) /\ Total(h) = sh[n]
  BY TotalIsSum
<1> DEFINE P == {m \in Nat : m <= n => sh[m] = sf[m] + sg[m]}
<1>4. 0 \in P
  BY <1>1, <1>2, <1>3 DEF Sums
<1>5. ASSUME NEW m \in Nat, m \in P PROVE m + 1 \in P
  <2> SUFFICES ASSUME m + 1 <= n PROVE sh[m + 1] = sf[m + 1] + sg[m + 1]
    OBVIOUS
  <2>1. m + 1 \in 1..n /\ m \in 0..n /\ (m + 1) - 1 = m
    OBVIOUS
  <2>2. /\ sf[m + 1] = sf[m] + f[m + 1] /\ sg[m + 1] = sg[m] + g[m + 1]
        /\ sh[m + 1] = sh[m] + h[m + 1]
    BY <1>1, <1>2, <1>3, <2>1 DEF Sums
  <2>3. sf[m] \in Int /\ sg[m] \in Int /\ f[m + 1] \in Int /\ g[m + 1] \in Int
    BY <1>1, <1>2, <2>1 DEF Sums
  <2>4. sh[m] = sf[m] + sg[m] /\ h[m + 1] = f[m + 1] + g[m + 1]
    BY <1>5, <2>1
  <2> QED
    BY <2>2, <2>3, <2>4
<1> QED
  <2> HIDE DEF P
  <2>1. n \in P
    BY <1>4, <1>5, SetInduction
  <2> QED
    BY <1>1, <1>2, <1>3, <2>1 DEF P

LEMMA TotalOfMultiples ==
    ASSUME NEW n \in Nat, NEW f \in [1..n -> Int], NEW c \in Int,
           NEW h \in [1..n -> Int], \A i \in 1..n : h[i] = c * f[i]
    PROVE  Total(h) = c * Total(f)
<1>1. PICK sf : Sums(sf, f, n) /\ Total(f) = sf[n]
  BY TotalIsSum
<1>2. PICK sh : Sums(sh, h, n) /\ Total(h) = sh[n]
  BY TotalIsSum
<1> DEFINE P == {m \in Nat : m <= n => sh[m] = c * sf[m]}
<1>3. 0 \in P
  BY <1>1, <1>2 DEF Sums
<1>4. ASSUME NEW m \in Nat, m \in P PROVE m + 1 \in P
  <2> SUFFICES ASSUME m + 1 <= n PROVE sh[m + 1] = c * sf[m + 1]
    OBVIOUS
  <2>1. m + 1 \in 1..n /\ m \in 0..n /\ (m + 1) - 1 = m
    OBVIOUS
  <2>2. sf[m + 1] = sf[m] + f[m + 1] /\ sh[m + 1] = sh[m] + h[m + 1]
    BY <1>1, <1>2, <2>1 DEF Sums
  <2>3. sf[m] \in Int /\ f[m + 1] \in Int
    BY <1>1, <2>1 DEF Sums
  <2>4. sh[m] = c * sf[m] /\ h[m + 1] = c * f[m + 1]
    BY <1>4, <2>1
  <2>5. \A a, b \in Int : c * (a + b) = c * a + c * b
    OBVIOUS
  <2> QED
    BY <2>2, <2>3, <2>4, <2>5
<1> QED
  <2> HIDE DEF P
  <2>1. n \in P
    BY <1>3, <1>4, SetInduction
  <2> QED
    BY <1>1, <1>2, <2>1 DEF P

LEMMA TotalOfZeros ==
    ASSUME NEW n \in Nat, NEW f \in [1..n -> Int], \A i \in 1..n : f[i] = 0
    PROVE  Total(f) = 0
<1>1. \A i \in 1..n : f[i] = f[i] + f[i]
  OBVIOUS
<1>2. Total(f) = Total(f) + Total(f)
  BY <1>1, TotalOfSums
<1> QED
  BY <1>2, TotalType

LEMMA TotalOfNaturals ==
    ASSUME NEW n \in Nat, NEW f \in [1..n -> Nat]
    PROVE  Total(f) \in Nat
<1> DEFINE zero == [i \in 1..n |-> 0]
<1>1. f \in [1..n -> Int] /\ zero \in [1..n -> Int]
      /\ \A i \in 1..n : zero[i] = 0 /\ zero[i] <= f[i]
  OBVIOUS
<1> HIDE DEF zero
<1>2. Total(zero) = 0 /\ Total(zero) <= Total(f) /\ Total(f) \in Int
  BY <1>1, TotalOfZeros, TotalBetween, TotalType
<1> QED
  BY <1>2

LEMMA TotalOfTwoParts ==
    ASSUME NEW n \in Nat, NEW k \in Nat, NEW f \in [1..n -> Int], NEW g \in [1..k -> Int],
           NEW h \in [1..n + k -> Int], \A i \in 1..n : h[i] = f[i],
           \A i \in 1..k : h[n + i] = g[i]
    PROVE  Total(h) = Total(f) + Total(g)
<1>1. PICK sf : Sums(sf, f, n) /\ Total(f) = sf[n]
  BY TotalIsSum
<1>2. PICK sg : Sums(sg, g, k) /\ Total(g) = sg[k]
  BY TotalIsSum
<1>3. PICK sh : Sums(sh, h, n + k) /\ Total(h) = sh[n + k]
  <2>1. n + k \in Nat
    OBVIOUS
  <2> QED
    BY <2>1, TotalIsSum, Zenon
<1> DEFINE P == {m \in Nat : m <= n => sh[m] = sf[m]}
           Q == {m \in Nat : m <= k => sh[n + m] = sf[n] + sg[m]}
<1>4. 0 \in P
  BY <1>1, <1>3 DEF Sums
<1>5. ASSUME NEW m \in Nat, m \in P PROVE m + 1 \in P
  <2> SUFFICES ASSUME m + 1 <= n PROVE sh[m + 1] = sf[m + 1]
    OBVIOUS
  <2>1. m + 1 \in 1..n /\ m + 1 \in 1..n + k /\ (m + 1) - 1 = m
    OBVIOUS
  <2>2. sf[m + 1] = sf[m] + f[m + 1] /\ sh[m + 1] = sh[m] + h[m + 1]
    BY <1>1, <1>3, <2>1 DEF Sums
  <2> QED
    BY <1>5, <2>1, <2>2
<1>6. sh[n] = sf[n]
  <2> HIDE DEF P
  <2>1. n \in P
    BY <1>4, <1>5, SetInduction
  <2> QED
    BY <2>1 DEF P
<1>7. 0 \in Q
  <2>1. sg[0] = 0 /\ sf[n] \in Int
    BY <1>1, <1>2 DEF Sums
  <2> QED
    BY <1>6, <2>1
<1>8. ASSUME NEW m \in Nat, m \in Q PROVE m + 1 \in Q
  <2> SUFFICES ASSUME m + 1 <= k PROVE sh[n + (m + 1)] = sf[n] + sg[m + 1]
    OBVIOUS
  <2>1. /\ m + 1 \in 1..k /\ n + (m + 1) \in 1..n + k /\ m \in 0..k
        /\ (m + 1) - 1 = m /\ (n + (m + 1)) - 1 = n + m
    OBVIOUS
  <2>2. sg[m + 1] = sg[m] + g[m + 1] /\ sh[n + (m + 1)] = sh[n + m] + h[n + (m + 1)]
    BY <1>2, <1>3, <2>1 DEF Sums
  <2>3. sf[n] \in Int /\ sg[m] \in Int /\ g[m + 1] \in Int
    BY <1>1, <1>2, <2>1 DEF Sums
  <2>4. sh[n + m] = sf[n] + sg[m] /\ h[n + (m + 1)] = g[m + 1]
    BY <1>8, <2>1
  <2> QED
    BY <2>2, <2>3, <2>4
<1> QED
  <2> HIDE DEF Q
  <2>1. k \in Q
    BY <1>7, <1>8, SetInduction
  <2> QED
    BY <1>1, <1>2, <1>3, <2>1 DEF Q

(* One number changed changes the sum by as much. *)
LEMMA TotalOfChange ==
    ASSUME NEW n \in Nat, NEW f \in [1..n -> Int], NEW h \in [1..n -> Int],
           NEW k \in 1..n, \A i \in (1..n) \ {k} : h[i] = f[i]
    PROVE  Total(h) = Total(f) + (h[k] - f[k])
<1>1. PICK sf : Sums(sf, f, n) /\ Total(f) = sf[n]
  BY TotalIsSum
<1>2. PICK sh : Sums(sh, h, n) /\ Total(h) = sh[n]
  BY TotalIsSum
<1> DEFINE P == {m \in Nat : m <= n => sh[m] = sf[m] + (IF m < k THEN 0 ELSE h[k] - f[k])}
<1>3. 0 \in P
  BY <1>1, <1>2 DEF Sums
<1>4. ASSUME NEW m \in Nat, m \in P PROVE m + 1 \in P
  <2> SUFFICES ASSUME m + 1 <= n
               PROVE  sh[m + 1] = sf[m + 1] + (IF m + 1 < k THEN 0 ELSE h[k] - f[k])
    OBVIOUS
  <2>1. m + 1 \in 1..n /\ m \in 0..n /\ (m + 1) - 1 = m
    OBVIOUS
  <2>2. sf[m + 1] = sf[m] + f[m + 1] /\ sh[m + 1] = sh[m] + h[m + 1]
    BY <1>1, <1>2, <2>1 DEF Sums
  <2>3. /\ sf[m] \in Int /\ sh[m] \in Int /\ f[m + 1] \in Int /\ h[m + 1] \in Int
        /\ f[k] \in Int /\ h[k] \in Int
    BY <1>1, <1>2, <2>1 DEF Sums
  <2>4. sh[m] = sf[m] + (IF m < k THEN 0 ELSE h[k] - f[k])
    BY <1>4, <2>1
  <2>5. CASE m + 1 = k
    <3>1. sh[m] = sf[m]
      BY <2>3, <2>4, <2>5
    <3> QED
      BY <2>2, <2>3, <2>5, <3>1, SMTT(30)
  <2>6. CASE m + 1 # k
    <3>1. h[m + 1] = f[m + 1]
      BY <2>1, <2>6
    <3> QED
      BY <2>2, <2>3, <2>4, <2>6, <3>1
  <2> QED
    BY <2>5, <2>6
<1> QED
  <2> HIDE DEF P
  <2>1. n \in P
    BY <1>3, <1>4, SetInduction
  <2>2. ~(n < k)
    OBVIOUS
  <2> QED
    BY <1>1, <1>2, <2>1, <2>2 DEF P

LEMMA ElementOfTotal ==
    ASSUME NEW n \in Nat, NEW f \in [1..n -> Nat], NEW k \in 1..n
    PROVE  f[k] <= Total(f)
<1> DEFINE h == [f EXCEPT ![k] = 0]
<1>1. h \in [1..n -> Nat] /\ h \in [1..n -> Int] /\ f \in [1..n -> Int]
      /\ h[k] = 0 /\ \A i \in (1..n) \ {k} : h[i] = f[i]
  OBVIOUS
<1> HIDE DEF h
<1>2. Total(h) = Total(f) + (h[k] - f[k]) /\ Total(h) \in Nat /\ Total(f) \in Int
  BY <1>1, TotalOfChange, TotalOfNaturals, TotalType
<1> QED
  BY <1>1, <1>2

(***************************************************************************)
(* Sums over the layers of a block: w is what each layer counts for.       *)
(***************************************************************************)
Weight(block, w) == Total([i \in DOMAIN block |-> w[block[i]]])

LEMMA WeightOfBlock ==
    ASSUME NEW S, NEW w \in [S -> Int], NEW block \in Seq(S)
    PROVE  /\ [i \in DOMAIN block |-> w[block[i]]] \in [1..Len(block) -> Int]
           /\ Len(block) \in Nat /\ DOMAIN block = 1..Len(block)
           /\ Weight(block, w) \in Int
<1>1. Len(block) \in Nat /\ DOMAIN block = 1..Len(block) /\ \A i \in 1..Len(block) : block[i] \in S
  OBVIOUS
<1>2. [i \in DOMAIN block |-> w[block[i]]] \in [1..Len(block) -> Int]
  BY <1>1
<1> QED
  BY <1>1, <1>2, TotalType DEF Weight

LEMMA WeightOfConcat ==
    ASSUME NEW S, NEW w \in [S -> Int], NEW a \in Seq(S), NEW b \in Seq(S)
    PROVE  Weight(a \o b, w) = Weight(a, w) + Weight(b, w)
<1> DEFINE f == [i \in DOMAIN a |-> w[a[i]]]
           g == [i \in DOMAIN b |-> w[b[i]]]
           h == [i \in DOMAIN (a \o b) |-> w[(a \o b)[i]]]
<1>1. a \o b \in Seq(S) /\ Len(a \o b) = Len(a) + Len(b)
  OBVIOUS
<1>2. Len(a) \in Nat /\ Len(b) \in Nat /\ f \in [1..Len(a) -> Int] /\ g \in [1..Len(b) -> Int]
  BY WeightOfBlock
<1>3. h \in [1..(Len(a) + Len(b)) -> Int]
  <2>1. \A c \in Seq(S) : [i \in DOMAIN c |-> w[c[i]]] \in [1..Len(c) -> Int]
    BY WeightOfBlock
  <2> QED
    BY <1>1, <2>1
<1>4. \A i \in 1..Len(a) : h[i] = f[i]
  BY <1>1
<1>5. \A i \in 1..Len(b) : h[Len(a) + i] = g[i]
  BY <1>1
<1> QED
  <2>1. Total(h) = Total(f) + Total(g)
    <3> HIDE DEF f, g, h
    <3> QED
      BY <1>2, <1>3, <1>4, <1>5, TotalOfTwoParts, ZenonT(60)
  <2> QED
    BY <2>1 DEF Weight

LEMMA WeightOfOne ==
    ASSUME NEW S, NEW w \in [S -> Int]
    PROVE  /\ Weight(<<>>, w) = 0
           /\ \A x \in S : Weight(<<x>>, w) = w[x]
<1>1. Weight(<<>>, w) = 0
  <2> DEFINE f == [i \in DOMAIN <<>> |-> w[<<>>[i]]]
  <2>1. f \in [1..0 -> Int]
    OBVIOUS
  <2>2. Total(f) = 0
    <3> HIDE DEF f
    <3> QED
      BY <2>1, TotalOfFew
  <2> QED
    BY <2>2 DEF Weight
<1>2. ASSUME NEW x \in S PROVE Weight(<<x>>, w) = w[x]
  <2> DEFINE f == [i \in DOMAIN <<x>> |-> w[<<x>>[i]]]
  <2>1. f \in [1..1 -> Int] /\ f[1] = w[x]
    OBVIOUS
  <2>2. Total(f) = w[x]
    <3> HIDE DEF f
    <3> QED
      BY <2>1, TotalOfFew
  <2> QED
    BY <2>2 DEF Weight
<1> QED
  BY <1>1, <1>2

LEMMA WeightOfThree ==
    ASSUME NEW S, NEW w \in [S -> Int]
    PROVE  /\ \A x, y \in S : Weight(<<x, y>>, w) = w[x] + w[y]
           /\ \A x, y, z \in S : Weight(<<x, y, z>>, w) = w[x] + w[y] + w[z]
<1> SUFFICES ASSUME NEW x \in S, NEW y \in S, NEW z \in S
             PROVE  /\ Weight(<<x, y>>, w) = w[x] + w[y]
                    /\ Weight(<<x, y, z>>, w) = w[x] + w[y] + w[z]
  OBVIOUS
<1>1. <<x, y>> = <<x>> \o <<y>> /\ <<x, y, z>> = <<x, y>> \o <<z>>
  <2> DEFINE c == <<x>> \o <<y>>
             d == <<x, y>> \o <<z>>
  <2>1. c \in Seq(S) /\ Len(c) = 2 /\ c[1] = x /\ c[2] = y
    OBVIOUS
  <2>2. d \in Seq(S) /\ Len(d) = 3 /\ d[1] = x /\ d[2] = y /\ d[3] = z
    OBVIOUS
  <2>3. \A s \in Seq(S) : Len(s) = 2 => s = <<s[1], s[2]>>
    OBVIOUS
  <2>4. \A s \in Seq(S) : Len(s) = 3 => s = <<s[1], s[2], s[3]>>
    OBVIOUS
  <2> HIDE DEF c, d
  <2>5. c = <<x, y>> /\ d = <<x, y, z>>
    BY <2>1, <2>2, <2>3, <2>4
  <2> QED
    BY <2>5 DEF c, d
<1>2. <<x>> \in Seq(S) /\ <<y>> \in Seq(S) /\ <<z>> \in Seq(S) /\ <<x, y>> \in Seq(S)
  OBVIOUS
<1>3. Weight(<<x, y>>, w) = Weight(<<x>>, w) + Weight(<<y>>, w)
  BY <1>1, <1>2, WeightOfConcat
<1>4. Weight(<<x, y, z>>, w) = Weight(<<x, y>>, w) + Weight(<<z>>, w)
  BY <1>1, <1>2, WeightOfConcat
<1> QED
  BY <1>3, <1>4, WeightOfOne

(***************************************************************************)
(* The layers of decoders and vision towers.                               *)
(***************************************************************************)
Sized(t) ==
    /\ {t.fc_tp, t.attn_tp, t.info.hdim, t.info.q, t.info.kv, t.info.dhead, t.info.ff}
           \subseteq Nat \ {0}
    /\ t.info.gated \in BOOLEAN
Names == {"qkv", "comm_x2g_kv", "comm_x2g_q", "comm_x2g_qkv", "score", "softmax", "context",
          "deepstack_add", "comm_x2g_return", "proj", "comm_g2g", "norm1", "ff1", "ff2", "glu",
          "gelu", "ff3", "norm2"}
Layers == [name : Names, type : LayerTypes, m : Int, n : Int, k : Int, ops : Int, pim : Int]

(* Layers of a decoder whose attention is over so many keys. *)
DecoderLayers(keys) ==
    {l \in Layers :
        /\ l.type = "FC" => l.name \in {"qkv", "proj", "ff1", "ff2", "ff3"}
        /\ l.type = "NORM" => l.name \in {"norm1", "norm2"}
        /\ l.name = "score" => l.type = "MATMUL" /\ l.n = keys}

LEMMA TransformerSized ==
    ASSUME NEW c \in Calls
    PROVE  Sized(Transformer(c.model, c.ngpu))
BY CallsAssumption DEF Sized, Transformer, Least

LEMMA SizesAreNumbers ==
    ASSUME NEW t, Sized(t)
    PROVE  /\ QOut(t) \in Nat \ {0} /\ KvOut(t) \in Nat \ {0} /\ QkvOut(t) \in Nat \ {0}
           /\ \A a \in Nat : a \div t.fc_tp \in Nat /\ a \div t.attn_tp \in Nat
<1>1. \A a, b \in Nat \ {0} : a * b \in Nat \ {0}
  OBVIOUS
<1>2. QOut(t) \in Nat \ {0} /\ KvOut(t) \in Nat \ {0}
  BY <1>1 DEF Sized, QOut, KvOut
<1>3. QkvOut(t) \in Nat \ {0}
  BY <1>2 DEF QkvOut
<1>4. \A a \in Nat : a \div t.fc_tp \in Nat /\ a \div t.attn_tp \in Nat
  BY DEF Sized
<1> QED
  BY <1>2, <1>3, <1>4

LEMMA LayerNamed ==
    ASSUME NEW keys, NEW l \in Layers,
           l.type = "FC" => l.name \in {"qkv", "proj", "ff1", "ff2", "ff3"},
           l.type = "NORM" => l.name \in {"norm1", "norm2"},
           l.name = "score" => l.type = "MATMUL" /\ l.n = keys
    PROVE  l \in DecoderLayers(keys)
BY DEF DecoderLayers

IsAttention(block, layers) ==
    \E x, y, z \in layers :
        /\ block = <<x, y, z>>
        /\ x.name = "score" /\ y.name = "softmax" /\ z.name = "context"
        /\ x.type = "MATMUL" /\ y.type = "SOFTMAX" /\ z.type = "MATMUL"

LEMMA AttentionTyped ==
    ASSUME NEW t, Sized(t), NEW batch \in Nat, NEW queries \in Nat, NEW keys \in Nat
    PROVE  IsAttention(Attention(t, batch, queries, keys), DecoderLayers(keys))
<1> DEFINE heads == batch * (t.info.q \div t.attn_tp)
           kv == batch * (t.info.kv \div t.attn_tp)
           OnPim(l) == [l EXCEPT !.pim = kv]
           x == OnPim(Layer("score", "MATMUL", queries, keys, t.info.dhead, heads))
           y == OnPim(Layer("softmax", "SOFTMAX", queries, keys, 1, heads))
           z == OnPim(Layer("context", "MATMUL", queries, t.info.dhead, keys, heads))
<1>1. heads \in Nat /\ kv \in Nat /\ t.info.dhead \in Nat
  BY SizesAreNumbers DEF Sized
<1>2. x \in DecoderLayers(keys) /\ y \in DecoderLayers(keys) /\ z \in DecoderLayers(keys)
  <2>1. x \in Layers /\ x.name = "score" /\ x.type = "MATMUL" /\ x.n = keys
    <3> HIDE DEF heads, kv
    <3> QED
      BY <1>1 DEF LayerTypes, Names, Layer, Layers
  <2>2. y \in Layers /\ y.name = "softmax" /\ y.type = "SOFTMAX"
    <3> HIDE DEF heads, kv
    <3> QED
      BY <1>1 DEF LayerTypes, Names, Layer, Layers
  <2>3. z \in Layers /\ z.name = "context" /\ z.type = "MATMUL"
    <3> HIDE DEF heads, kv
    <3> QED
      BY <1>1 DEF LayerTypes, Names, Layer, Layers
  <2> HIDE DEF x, y, z
  <2> QED
    BY <2>1, <2>2, <2>3, LayerNamed
<1>3. Attention(t, batch, queries, keys) = <<x, y, z>>
  BY Zenon DEF Attention
<1>4. /\ x.name = "score" /\ y.name = "softmax" /\ z.name = "context"
      /\ x.type = "MATMUL" /\ y.type = "SOFTMAX" /\ z.type = "MATMUL"
  BY DEF Layer
<1> QED
  <2> HIDE DEF x, y, z
  <2> QED
    BY <1>2, <1>3, <1>4 DEF IsAttention

IsFeedForward(l) == l.type \in {"FC", "ACT"} /\ l.name \in {"ff1", "ff2", "ff3", "glu", "gelu"}

LEMMA FeedForwardTyped ==
    ASSUME NEW t, Sized(t), NEW tokens \in Nat, NEW keys
    PROVE  /\ FeedForwardLayers(t, tokens) \in Seq(DecoderLayers(keys))
           /\ \A l \in Elements(FeedForwardLayers(t, tokens)) : IsFeedForward(l)
<1> DEFINE ff == t.info.ff \div t.fc_tp
           hdim == t.info.hdim
           Up(name) == Layer(name, "FC", tokens, ff, hdim, 1)
           Down(name) == Layer(name, "FC", tokens, hdim, ff, 1)
           Act(name) == Layer(name, "ACT", tokens, ff, 1, 1)
           D == {l \in DecoderLayers(keys) : IsFeedForward(l)}
<1>1. ff \in Nat /\ hdim \in Nat
  BY SizesAreNumbers DEF Sized
<1>2. Up("ff1") \in D /\ Up("ff2") \in D /\ Act("glu") \in D /\ Act("gelu") \in D
      /\ Down("ff2") \in D /\ Down("ff3") \in D
  <2> DEFINE Typed(l, name, type) == l \in Layers /\ l.name = name /\ l.type = type
  <2>1. /\ Typed(Up("ff1"), "ff1", "FC") /\ Typed(Up("ff2"), "ff2", "FC")
        /\ Typed(Act("glu"), "glu", "ACT") /\ Typed(Act("gelu"), "gelu", "ACT")
        /\ Typed(Down("ff2"), "ff2", "FC") /\ Typed(Down("ff3"), "ff3", "FC")
    <3> HIDE DEF ff, hdim
    <3> QED
      BY <1>1 DEF LayerTypes, Names, Layer, Layers
  <2>2. \A l : \A name \in {"ff1", "ff2", "ff3"} : Typed(l, name, "FC") => l \in D
    BY LayerNamed DEF IsFeedForward
  <2>3. \A l : \A name \in {"glu", "gelu"} : Typed(l, name, "ACT") => l \in D
    BY LayerNamed DEF IsFeedForward
  <2> HIDE DEF Typed, Up, Act, Down, D
  <2> QED
    BY <2>1, <2>2, <2>3
<1>3. FeedForwardLayers(t, tokens)
        = IF t.info.gated THEN << Up("ff1"), Up("ff2"), Act("glu"), Down("ff3") >>
                          ELSE << Up("ff1"), Act("gelu"), Down("ff2") >>
  BY Zenon DEF FeedForwardLayers
<1>4. FeedForwardLayers(t, tokens) \in Seq(D)
  <2> HIDE DEF D, Up, Down, Act
  <2> QED
    BY <1>2, <1>3
<1>5. \A s \in Seq(D) : s \in Seq(DecoderLayers(keys))
                        /\ \A l \in Elements(s) : IsFeedForward(l)
  BY DEF Elements
<1> QED
  <2> HIDE DEF D
  <2> QED
    BY <1>4, <1>5

LEMMA LayerInDecoder ==
    ASSUME NEW keys, NEW m \in Int, NEW n \in Int, NEW k \in Int, NEW ops \in Int
    PROVE  /\ Layer("qkv", "FC", m, n, k, ops) \in DecoderLayers(keys)
           /\ Layer("proj", "FC", m, n, k, ops) \in DecoderLayers(keys)
           /\ Layer("comm_g2g", "G2G", m, n, k, ops) \in DecoderLayers(keys)
           /\ Layer("norm1", "NORM", m, n, k, ops) \in DecoderLayers(keys)
           /\ Layer("norm2", "NORM", m, n, k, ops) \in DecoderLayers(keys)
           /\ Layer("deepstack_add", "ACT", m, n, k, ops) \in DecoderLayers(keys)
           /\ Layer("comm_x2g_kv", "X2G", m, n, k, ops) \in DecoderLayers(keys)
           /\ Layer("comm_x2g_q", "X2G", m, n, k, ops) \in DecoderLayers(keys)
           /\ Layer("comm_x2g_qkv", "X2G", m, n, k, ops) \in DecoderLayers(keys)
           /\ Layer("comm_x2g_return", "X2G", m, n, k, ops) \in DecoderLayers(keys)
<1> DEFINE Good(name, type) ==
        Layer(name, type, m, n, k, ops) \in Layers
          /\ Layer(name, type, m, n, k, ops).name = name
          /\ Layer(name, type, m, n, k, ops).type = type
<1>1. Good("qkv", "FC") /\ Good("proj", "FC") /\ Good("comm_g2g", "G2G")
  BY DEF LayerTypes, Names, Layer, Layers
<1>2. Good("norm1", "NORM") /\ Good("norm2", "NORM") /\ Good("deepstack_add", "ACT")
  BY DEF LayerTypes, Names, Layer, Layers
<1>3. /\ Good("comm_x2g_kv", "X2G") /\ Good("comm_x2g_q", "X2G")
      /\ Good("comm_x2g_qkv", "X2G") /\ Good("comm_x2g_return", "X2G")
  BY DEF LayerTypes, Names, Layer, Layers
<1> QED
  BY <1>1, <1>2, <1>3, LayerNamed

LEMMA AfterAttentionTyped ==
    ASSUME NEW t, Sized(t), NEW tokens \in Nat, NEW keys
    PROVE  LET proj == Layer("proj", "FC", tokens, t.info.hdim, t.info.hdim \div t.fc_tp, 1)
               reduce == Layer("comm_g2g", "G2G", tokens, t.info.hdim, 1, 1)
               norm1 == Layer("norm1", "NORM", tokens, t.info.hdim, 1, 1)
               norm2 == Layer("norm2", "NORM", tokens, t.info.hdim, 1, 1)
           IN  /\ {proj, reduce, norm1, norm2} \subseteq DecoderLayers(keys)
               /\ AfterAttention(t, tokens) \in Seq(DecoderLayers(keys))
               /\ \A w \in [DecoderLayers(keys) -> Int] :
                      Weight(AfterAttention(t, tokens), w)
                        = w[proj] + w[reduce] + w[norm1]
                            + Weight(FeedForwardLayers(t, tokens), w) + w[reduce] + w[norm2]
<1> DEFINE hdim == t.info.hdim
           proj == Layer("proj", "FC", tokens, hdim, hdim \div t.fc_tp, 1)
           reduce == Layer("comm_g2g", "G2G", tokens, hdim, 1, 1)
           norm1 == Layer("norm1", "NORM", tokens, hdim, 1, 1)
           norm2 == Layer("norm2", "NORM", tokens, hdim, 1, 1)
           ff == FeedForwardLayers(t, tokens)
           D == DecoderLayers(keys)
<1>1. hdim \in Nat /\ hdim \div t.fc_tp \in Nat
  BY SizesAreNumbers DEF Sized
<1>2. proj \in D /\ reduce \in D /\ norm1 \in D /\ norm2 \in D
  <2> HIDE DEF hdim, D
  <2>1. hdim \in Int /\ hdim \div t.fc_tp \in Int /\ tokens \in Int /\ 1 \in Int
    BY <1>1
  <2> QED
    BY <2>1, LayerInDecoder, Zenon DEF D
<1>3. ff \in Seq(D)
  BY FeedForwardTyped
<1>4. AfterAttention(t, tokens) = (<<proj, reduce, norm1>> \o ff) \o <<reduce, norm2>>
  BY Zenon DEF AfterAttention
<1> HIDE DEF proj, reduce, norm1, norm2, ff, D
<1>5. <<proj, reduce, norm1>> \in Seq(D) /\ <<reduce, norm2>> \in Seq(D)
  BY <1>2
<1>6. <<proj, reduce, norm1>> \o ff \in Seq(D)
  BY <1>3, <1>5
<1>7. AfterAttention(t, tokens) \in Seq(D)
  BY <1>4, <1>5, <1>6
<1>8. ASSUME NEW w \in [D -> Int]
      PROVE  Weight(AfterAttention(t, tokens), w)
               = w[proj] + w[reduce] + w[norm1] + Weight(ff, w) + w[reduce] + w[norm2]
  <2>1. Weight(AfterAttention(t, tokens), w)
          = Weight(<<proj, reduce, norm1>> \o ff, w) + Weight(<<reduce, norm2>>, w)
    BY <1>4, <1>5, <1>6, WeightOfConcat
  <2>2. Weight(<<proj, reduce, norm1>> \o ff, w)
          = Weight(<<proj, reduce, norm1>>, w) + Weight(ff, w)
    BY <1>3, <1>5, WeightOfConcat
  <2>3. /\ Weight(<<proj, reduce, norm1>>, w) = w[proj] + w[reduce] + w[norm1]
        /\ Weight(<<reduce, norm2>>, w) = w[reduce] + w[norm2]
    <3>1. /\ \A x, y \in D : Weight(<<x, y>>, w) = w[x] + w[y]
          /\ \A x, y, z \in D : Weight(<<x, y, z>>, w) = w[x] + w[y] + w[z]
      BY WeightOfThree
    <3> QED
      BY <1>2, <3>1, Zenon
  <2>4. /\ w[proj] \in Int /\ w[reduce] \in Int /\ w[norm1] \in Int /\ w[norm2] \in Int
        /\ Weight(ff, w) \in Int
    BY <1>2, <1>3, WeightOfBlock
  <2> QED
    BY <2>1, <2>2, <2>3, <2>4
<1> QED
  BY <1>2, <1>7, <1>8 DEF proj, reduce, norm1, norm2, ff, D

LEMMA ElementsOfConcat ==
    ASSUME NEW S, NEW a \in Seq(S), NEW b \in Seq(S)
    PROVE  Elements(a) \subseteq Elements(a \o b) /\ Elements(b) \subseteq Elements(a \o b)
<1>1. /\ DOMAIN a = 1..Len(a) /\ DOMAIN b = 1..Len(b) /\ Len(a) \in Nat /\ Len(b) \in Nat
      /\ DOMAIN (a \o b) = 1..(Len(a) + Len(b))
  OBVIOUS
<1>2. \A i \in DOMAIN a : i \in DOMAIN (a \o b) /\ (a \o b)[i] = a[i]
  BY <1>1
<1>3. \A i \in DOMAIN b : Len(a) + i \in DOMAIN (a \o b) /\ (a \o b)[Len(a) + i] = b[i]
  BY <1>1
<1> QED
  BY <1>2, <1>3 DEF Elements

LEMMA WhenTyped ==
    ASSUME NEW S, NEW condition \in BOOLEAN
    PROVE  /\ \A x \in S : When(condition, <<x>>) \in Seq(S)
           /\ \A x, y \in S : When(condition, <<x, y>>) \in Seq(S)
BY DEF When

LEMMA WhenWeighs ==
    ASSUME NEW S, NEW w \in [S -> Int], NEW condition \in BOOLEAN
    PROVE  /\ \A x \in S : Weight(When(condition, <<x>>), w) = IF condition THEN w[x] ELSE 0
           /\ \A x, y \in S :
                  Weight(When(condition, <<x, y>>), w) = IF condition THEN w[x] + w[y] ELSE 0
<1>1. ASSUME NEW x \in S
      PROVE  Weight(When(condition, <<x>>), w) = IF condition THEN w[x] ELSE 0
  <2>1. Weight(<<>>, w) = 0 /\ Weight(<<x>>, w) = w[x]
    BY WeightOfOne
  <2> QED
    BY <2>1 DEF When
<1>2. ASSUME NEW x \in S, NEW y \in S
      PROVE  Weight(When(condition, <<x, y>>), w) = IF condition THEN w[x] + w[y] ELSE 0
  <2>1. Weight(<<>>, w) = 0
    BY WeightOfOne
  <2>2. Weight(<<x, y>>, w) = w[x] + w[y]
    BY WeightOfThree
  <2> QED
    BY <2>1, <2>2 DEF When
<1> QED
  BY <1>1, <1>2

(***************************************************************************)
(* A decoder layer is its linear layer, perhaps transfers, attention,      *)
(* perhaps more transfers, and the rest.                                   *)
(***************************************************************************)
LEMMA BlockTyped ==
    ASSUME NEW D, NEW a \in Seq(D), NEW b \in Seq(D), NEW c \in Seq(D), NEW d \in Seq(D)
    PROVE  /\ a \o b \o c \o d \in Seq(D)
           /\ Elements(b) \subseteq Elements(a \o b \o c \o d)
           /\ Elements(d) \subseteq Elements(a \o b \o c \o d)
           /\ \A w \in [D -> Int] : Weight(a \o b \o c \o d, w)
                  = Weight(a, w) + Weight(b, w) + Weight(c, w) + Weight(d, w)
<1>1. a \o b \in Seq(D) /\ a \o b \o c \in Seq(D) /\ a \o b \o c \o d \in Seq(D)
  OBVIOUS
<1>2. /\ Elements(b) \subseteq Elements(a \o b)
      /\ Elements(a \o b) \subseteq Elements(a \o b \o c)
      /\ Elements(a \o b \o c) \subseteq Elements(a \o b \o c \o d)
      /\ Elements(d) \subseteq Elements(a \o b \o c \o d)
  BY <1>1, ElementsOfConcat
<1>3. ASSUME NEW w \in [D -> Int]
      PROVE  Weight(a \o b \o c \o d, w)
               = Weight(a, w) + Weight(b, w) + Weight(c, w) + Weight(d, w)
  <2>1. Weight(a \o b, w) = Weight(a, w) + Weight(b, w)
    BY WeightOfConcat
  <2>2. Weight(a \o b \o c, w) = Weight(a \o b, w) + Weight(c, w)
    BY <1>1, WeightOfConcat
  <2>3. Weight(a \o b \o c \o d, w) = Weight(a \o b \o c, w) + Weight(d, w)
    BY <1>1, WeightOfConcat
  <2> QED
    BY <2>1, <2>2, <2>3
<1> QED
  BY <1>1, <1>2, <1>3

(* What is in the layer of the prompt, and what it weighs. *)
SumWeighs(t, batch, lin, hetero, idx) ==
    LET tokens == batch * lin
        D == DecoderLayers(lin)
        kv == Move("comm_x2g_kv", tokens, 2 * (KvOut(t) \div t.fc_tp))
        q == Move("comm_x2g_q", tokens, QOut(t) \div t.fc_tp)
        deep == Layer("deepstack_add", "ACT", tokens, t.info.hdim, 1, 1)
        block == BuildSum(t, batch, lin, hetero, idx)
    IN  /\ {Qkv(t, tokens), kv, q, deep, Return(t, tokens)} \subseteq D
        /\ block \in Seq(D)
        /\ Elements(Attention(t, batch, lin, lin)) \subseteq Elements(block)
        /\ Elements(AfterAttention(t, tokens)) \subseteq Elements(block)
        /\ \A w \in [D -> Int] : Weight(block, w)
             = w[Qkv(t, tokens)] + (IF hetero THEN w[kv] + w[q] ELSE 0)
                 + Weight(Attention(t, batch, lin, lin), w)
                 + (IF idx \cap t.info.deepstack # {} THEN w[deep] ELSE 0)
                 + (IF hetero THEN w[Return(t, tokens)] ELSE 0)
                 + Weight(AfterAttention(t, tokens), w)

LEMMA SumTyped ==
    ASSUME NEW t, Sized(t), NEW batch \in Nat, NEW lin \in Nat, NEW hetero \in BOOLEAN, NEW idx
    PROVE  SumWeighs(t, batch, lin, hetero, idx)
<1> DEFINE tokens == batch * lin
           D == DecoderLayers(lin)
           qkv == Qkv(t, tokens)
           kv == Move("comm_x2g_kv", tokens, 2 * (KvOut(t) \div t.fc_tp))
           q == Move("comm_x2g_q", tokens, QOut(t) \div t.fc_tp)
           deep == Layer("deepstack_add", "ACT", tokens, t.info.hdim, 1, 1)
           ret == Return(t, tokens)
           att == Attention(t, batch, lin, lin)
           after == AfterAttention(t, tokens)
           isDeep == idx \cap t.info.deepstack # {}
           first == <<qkv>> \o When(hetero, <<kv, q>>)
           block == BuildSum(t, batch, lin, hetero, idx)
<1>1. tokens \in Nat /\ isDeep \in BOOLEAN
  OBVIOUS
<1>2. /\ qkv \in D /\ kv \in D /\ q \in D /\ deep \in D /\ ret \in D
  <2> HIDE DEF tokens, D
  <2>1. /\ QkvOut(t) \div t.fc_tp \in Nat /\ KvOut(t) \div t.fc_tp \in Nat
        /\ QOut(t) \div t.fc_tp \in Nat /\ QOut(t) \div t.attn_tp \in Nat
    BY SizesAreNumbers
  <2>2. /\ tokens \in Int /\ QkvOut(t) \div t.fc_tp \in Int
        /\ 2 * (KvOut(t) \div t.fc_tp) \in Int /\ QOut(t) \div t.fc_tp \in Int
        /\ QOut(t) \div t.attn_tp \in Int /\ t.info.hdim \in Int /\ 1 \in Int
    BY <1>1, <2>1 DEF Sized
  <2>3. qkv \in D
    BY <2>2, LayerInDecoder, Zenon DEF Qkv, D
  <2>4. kv \in D /\ q \in D /\ ret \in D
    BY <2>2, LayerInDecoder, Zenon DEF Move, Return, D
  <2>5. deep \in D
    BY <2>2, LayerInDecoder, Zenon DEF D
  <2> QED
    BY <2>3, <2>4, <2>5
<1>3. att \in Seq(D)
  <2>1. PICK x, y, z \in D : att = <<x, y, z>>
    BY AttentionTyped DEF IsAttention
  <2> HIDE DEF att, D
  <2> QED
    BY <2>1
<1>4. after \in Seq(D)
  <2> HIDE DEF tokens
  <2> QED
    BY <1>1, AfterAttentionTyped
<1>5. block = ((first \o att \o When(isDeep, <<deep>>)) \o When(hetero, <<ret>>)) \o after
  BY Zenon DEF BuildSum
<1> HIDE DEF tokens, D, qkv, kv, q, deep, ret, att, after, isDeep, block
<1>6. /\ <<qkv>> \in Seq(D) /\ When(hetero, <<kv, q>>) \in Seq(D)
      /\ When(isDeep, <<deep>>) \in Seq(D) /\ When(hetero, <<ret>>) \in Seq(D)
  BY <1>1, <1>2, WhenTyped
<1>7. first \in Seq(D)
  BY <1>6
<1> DEFINE body == (first \o att \o When(isDeep, <<deep>>)) \o When(hetero, <<ret>>)
<1>8. /\ body \in Seq(D)
      /\ Elements(att) \subseteq Elements(body)
      /\ \A w \in [D -> Int] : Weight(body, w)
             = Weight(first, w) + Weight(att, w) + Weight(When(isDeep, <<deep>>), w)
                 + Weight(When(hetero, <<ret>>), w)
  <2> DEFINE c == When(isDeep, <<deep>>)
             d == When(hetero, <<ret>>)
  <2>1. first \in Seq(D) /\ att \in Seq(D) /\ c \in Seq(D) /\ d \in Seq(D)
    BY <1>3, <1>6, <1>7
  <2>2. body = first \o att \o c \o d
    BY Zenon
  <2> HIDE DEF first, c, d, body
  <2>3. /\ body \in Seq(D)
        /\ Elements(att) \subseteq Elements(body)
        /\ \A w \in [D -> Int] : Weight(body, w)
             = Weight(first, w) + Weight(att, w) + Weight(c, w) + Weight(d, w)
    BY <2>1, <2>2, BlockTyped
  <2> QED
    BY <2>3 DEF c, d
<1>9. ASSUME NEW w \in [D -> Int]
      PROVE  Weight(block, w)
                 = w[qkv] + (IF hetero THEN w[kv] + w[q] ELSE 0) + Weight(att, w)
                     + (IF isDeep THEN w[deep] ELSE 0) + (IF hetero THEN w[ret] ELSE 0)
                     + Weight(after, w)
  <2>1. Weight(block, w) = Weight(body, w) + Weight(after, w)
    <3> HIDE DEF body
    <3> QED
      BY <1>4, <1>5, <1>8, WeightOfConcat DEF body
  <2>2. Weight(first, w) = Weight(<<qkv>>, w) + Weight(When(hetero, <<kv, q>>), w)
    BY <1>6, WeightOfConcat
  <2>3. Weight(<<qkv>>, w) = w[qkv]
    BY <1>2, WeightOfOne
  <2>4. /\ Weight(When(hetero, <<kv, q>>), w) = IF hetero THEN w[kv] + w[q] ELSE 0
        /\ Weight(When(isDeep, <<deep>>), w) = IF isDeep THEN w[deep] ELSE 0
        /\ Weight(When(hetero, <<ret>>), w) = IF hetero THEN w[ret] ELSE 0
    BY <1>1, <1>2, WhenWeighs
  <2>5. Weight(body, w)
          = w[qkv] + (IF hetero THEN w[kv] + w[q] ELSE 0) + Weight(att, w)
              + (IF isDeep THEN w[deep] ELSE 0) + (IF hetero THEN w[ret] ELSE 0)
    <3> HIDE DEF body, first
    <3> QED
      BY <1>8, <2>2, <2>3, <2>4
  <2> QED
    BY <2>1, <2>5
<1>10. /\ block \in Seq(D) /\ Elements(att) \subseteq Elements(block)
       /\ Elements(after) \subseteq Elements(block)
  <2> HIDE DEF body
  <2>1. /\ Elements(body) \subseteq Elements(body \o after) /\ body \o after \in Seq(D)
        /\ Elements(after) \subseteq Elements(body \o after)
    BY <1>4, <1>8, ElementsOfConcat
  <2> QED
    BY <1>5, <1>8, <2>1 DEF body
<1> QED
  BY <1>2, <1>9, <1>10
     DEF SumWeighs, tokens, D, qkv, kv, q, deep, ret, att, after, isDeep, block

(* What is in the layer of a generation stage, and what it weighs. *)
GenWeighs(t, batch, lin, s, hetero) ==
    LET D == DecoderLayers(lin + s)
        move == Move("comm_x2g_qkv", batch, QkvOut(t) \div t.fc_tp)
        block == BuildGenStage(t, batch, lin, s, hetero)
    IN  /\ {Qkv(t, batch), move, Return(t, batch)} \subseteq D
        /\ block \in Seq(D)
        /\ Elements(Attention(t, batch, 1, lin + s)) \subseteq Elements(block)
        /\ Elements(AfterAttention(t, batch)) \subseteq Elements(block)
        /\ \A w \in [D -> Int] : Weight(block, w)
             = w[Qkv(t, batch)] + (IF hetero THEN w[move] ELSE 0)
                 + Weight(Attention(t, batch, 1, lin + s), w)
                 + (IF hetero THEN w[Return(t, batch)] ELSE 0)
                 + Weight(AfterAttention(t, batch), w)

LEMMA GenTyped ==
    ASSUME NEW t, Sized(t), NEW batch \in Nat, NEW lin \in Nat, NEW s \in Nat,
           NEW hetero \in BOOLEAN
    PROVE  GenWeighs(t, batch, lin, s, hetero)
<1> DEFINE D == DecoderLayers(lin + s)
           qkv == Qkv(t, batch)
           move == Move("comm_x2g_qkv", batch, QkvOut(t) \div t.fc_tp)
           ret == Return(t, batch)
           att == Attention(t, batch, 1, lin + s)
           after == AfterAttention(t, batch)
           first == <<qkv>> \o When(hetero, <<move>>)
           block == BuildGenStage(t, batch, lin, s, hetero)
<1>1. qkv \in D /\ move \in D /\ ret \in D
  <2> HIDE DEF D
  <2>1. QkvOut(t) \div t.fc_tp \in Nat /\ QOut(t) \div t.attn_tp \in Nat
    BY SizesAreNumbers
  <2>2. /\ batch \in Int /\ QkvOut(t) \div t.fc_tp \in Int /\ QOut(t) \div t.attn_tp \in Int
        /\ t.info.hdim \in Int /\ 1 \in Int
    BY <2>1 DEF Sized
  <2>3. qkv \in D
    BY <2>2, LayerInDecoder, Zenon DEF Qkv, D
  <2>4. move \in D /\ ret \in D
    BY <2>2, LayerInDecoder, Zenon DEF Move, Return, D
  <2> QED
    BY <2>3, <2>4
<1>2. att \in Seq(D)
  <2>1. lin + s \in Nat /\ 1 \in Nat
    OBVIOUS
  <2>2. PICK x, y, z \in D : att = <<x, y, z>>
    BY <2>1, AttentionTyped DEF IsAttention
  <2> HIDE DEF att, D
  <2> QED
    BY <2>2
<1>3. after \in Seq(D)
  BY AfterAttentionTyped
<1>4. block = first \o att \o When(hetero, <<ret>>) \o after
  BY Zenon DEF BuildGenStage
<1> HIDE DEF D, qkv, move, ret, att, after, block
<1>5. /\ <<qkv>> \in Seq(D) /\ When(hetero, <<move>>) \in Seq(D)
      /\ When(hetero, <<ret>>) \in Seq(D)
  BY <1>1, WhenTyped
<1>6. first \in Seq(D)
  BY <1>5
<1>7. /\ block \in Seq(D)
      /\ Elements(att) \subseteq Elements(block) /\ Elements(after) \subseteq Elements(block)
      /\ \A w \in [D -> Int] : Weight(block, w)
             = Weight(first, w) + Weight(att, w) + Weight(When(hetero, <<ret>>), w)
                 + Weight(after, w)
  <2> HIDE DEF first
  <2> QED
    BY <1>2, <1>3, <1>4, <1>5, <1>6, BlockTyped, SMTT(30)
<1>8. ASSUME NEW w \in [D -> Int]
      PROVE  Weight(block, w)
                 = w[qkv] + (IF hetero THEN w[move] ELSE 0) + Weight(att, w)
                     + (IF hetero THEN w[ret] ELSE 0) + Weight(after, w)
  <2>1. Weight(first, w) = Weight(<<qkv>>, w) + Weight(When(hetero, <<move>>), w)
    BY <1>5, WeightOfConcat
  <2>2. Weight(<<qkv>>, w) = w[qkv]
    BY <1>1, WeightOfOne
  <2>3. /\ Weight(When(hetero, <<move>>), w) = IF hetero THEN w[move] ELSE 0
        /\ Weight(When(hetero, <<ret>>), w) = IF hetero THEN w[ret] ELSE 0
    BY <1>1, WhenWeighs
  <2> QED
    <3> HIDE DEF first
    <3> QED
      BY <1>7, <2>1, <2>2, <2>3
<1> QED
  BY <1>1, <1>7, <1>8 DEF GenWeighs, D, qkv, move, ret, att, after, block

LEMMA OfAnyType ==
    ASSUME NEW name, NEW m, NEW n, NEW k, NEW ops
    PROVE  \A type \in LayerTypes : Layer(name, type, m, n, k, ops).type \in LayerTypes
BY DEF Layer

LEMMA SequenceOfTen ==
    ASSUME NEW S, NEW a \in S, NEW b \in S, NEW c \in S, NEW d \in S, NEW e \in S,
           NEW f \in S, NEW g \in S, NEW h \in S, NEW i \in S, NEW j \in S
    PROVE  <<a, b, c, d, e, f, g, h, i, j>> \in Seq(S)
OBVIOUS

LEMMA VisionTyped ==
    ASSUME NEW t, NEW batch, NEW size
    PROVE  LET vision == BuildVision(t, batch, size)
           IN  /\ vision \in Seq(Elements(vision))
               /\ \A l \in Elements(vision) : l.type \in LayerTypes
<1>1. \E S : /\ BuildVit(t, batch, size) \in Seq(S)
             /\ \A l \in S : l.type \in LayerTypes
  <2> DEFINE v == t.info.vit
             tokens == VitTokens(t.info.image, size)
             rows == batch * tokens
             blocks == v.layers * Most(1, VitImages(t.info.image, size))
             heads == v.heads * batch * blocks
             dhead == v.hidden \div v.heads
             l1 == Layer("vit_qkv", "FC", rows, 3 * v.hidden, v.hidden, blocks)
             l2 == Layer("vit_score", "MATMUL", tokens, tokens, dhead, heads)
             l3 == Layer("vit_softmax", "SOFTMAX", tokens, tokens, 1, heads)
             l4 == Layer("vit_context", "MATMUL", tokens, dhead, tokens, heads)
             l5 == Layer("vit_proj", "FC", rows, v.hidden, v.hidden, blocks)
             l6 == Layer("vit_norm1", "NORM", rows, v.hidden, 1, blocks)
             l7 == Layer("vit_ff1", "FC", rows, v.ff, v.hidden, blocks)
             l8 == Layer(v.act, "ACT", rows, v.ff, 1, blocks)
             l9 == Layer("vit_ff2", "FC", rows, v.hidden, v.ff, blocks)
             l10 == Layer("vit_norm2", "NORM", rows, v.hidden, 1, blocks)
             S == {l1, l2, l3, l4, l5, l6, l7, l8, l9, l10}
  <2>1. BuildVit(t, batch, size)
          = When(tokens # 0 /\ v.layers # 0, <<l1, l2, l3, l4, l5, l6, l7, l8, l9, l10>>)
    BY Zenon DEF BuildVit
  <2>2. {"FC", "MATMUL", "SOFTMAX", "NORM", "ACT"} \subseteq LayerTypes
    BY DEF LayerTypes
  <2>3. /\ l1.type \in LayerTypes /\ l2.type \in LayerTypes /\ l3.type \in LayerTypes
        /\ l4.type \in LayerTypes /\ l5.type \in LayerTypes /\ l6.type \in LayerTypes
        /\ l7.type \in LayerTypes /\ l8.type \in LayerTypes /\ l9.type \in LayerTypes
        /\ l10.type \in LayerTypes
    <3> HIDE DEF v, tokens, rows, blocks, heads, dhead
    <3> QED
      BY <2>2, OfAnyType, Zenon
  <2> HIDE DEF l1, l2, l3, l4, l5, l6, l7, l8, l9, l10, tokens, v
  <2>4. \A l \in S : l.type \in LayerTypes
    BY <2>3
  <2>5. /\ l1 \in S /\ l2 \in S /\ l3 \in S /\ l4 \in S /\ l5 \in S
        /\ l6 \in S /\ l7 \in S /\ l8 \in S /\ l9 \in S /\ l10 \in S
    OBVIOUS
  <2> HIDE DEF S
  <2>6. <<l1, l2, l3, l4, l5, l6, l7, l8, l9, l10>> \in Seq(S) /\ <<>> \in Seq(S)
    BY <2>5, SequenceOfTen
  <2>7. BuildVit(t, batch, size) \in Seq(S)
    BY <2>1, <2>6 DEF When
  <2> QED
    BY <2>4, <2>7
<1>2. \E S : /\ BuildProjector(t, batch, size) \in Seq(S)
             /\ \A l \in S : l.type \in LayerTypes
  <2> DEFINE image == t.info.image
             tokens == batch * VisualTokens(image, size)
             hdim == t.info.hdim
             merge == IF image.projector = "mlp" THEN 1 ELSE image.merge
             fc1 == Layer("proj_fc1", "FC", tokens, hdim, t.info.vit.hidden * merge * merge, 1)
             act == Layer("proj_act", "ACT", tokens, hdim, 1, 1)
             fc2 == Layer("proj_fc2", "FC", tokens, hdim, hdim, 1)
             all == Layer("vit_broadcast", "G2G", tokens, hdim, 1, 1)
             S == {fc1, act, fc2, all}
  <2>1. BuildProjector(t, batch, size)
          = When(tokens # 0 /\ image.projector # "none",
                 <<fc1, act, fc2>> \o When(t.fc_tp > 1, <<all>>))
    BY Zenon DEF BuildProjector
  <2>2. {"FC", "ACT", "G2G"} \subseteq LayerTypes
    BY DEF LayerTypes
  <2>3. /\ fc1.type \in LayerTypes /\ act.type \in LayerTypes /\ fc2.type \in LayerTypes
        /\ all.type \in LayerTypes
    <3> HIDE DEF image, tokens, hdim, merge
    <3> QED
      BY <2>2, OfAnyType, Zenon
  <2> HIDE DEF fc1, act, fc2, all, tokens, image
  <2>4. \A l \in S : l.type \in LayerTypes
    BY <2>3
  <2>5. <<fc1, act, fc2>> \in Seq(S) /\ <<all>> \in Seq(S) /\ <<>> \in Seq(S)
    OBVIOUS
  <2> HIDE DEF S
  <2>6. <<fc1, act, fc2>> \o When(t.fc_tp > 1, <<all>>) \in Seq(S)
    BY <2>5 DEF When
  <2>7. BuildProjector(t, batch, size) \in Seq(S)
    BY <2>1, <2>5, <2>6 DEF When
  <2> QED
    BY <2>4, <2>7
<1>3. PICK S : /\ BuildVit(t, batch, size) \in Seq(S)
               /\ \A l \in S : l.type \in LayerTypes
  BY <1>1
<1>4. PICK T : /\ BuildProjector(t, batch, size) \in Seq(T)
               /\ \A l \in T : l.type \in LayerTypes
  BY <1>2
<1>5. BuildVit(t, batch, size) \in Seq(S \cup T) /\ BuildProjector(t, batch, size) \in Seq(S \cup T)
  BY <1>3, <1>4
<1>6. BuildVision(t, batch, size) \in Seq(S \cup T)
  BY <1>5 DEF BuildVision
<1>7. \A s \in Seq(S \cup T) : s \in Seq(Elements(s)) /\ Elements(s) \subseteq S \cup T
  BY DEF Elements
<1> QED
  BY <1>3, <1>4, <1>6, <1>7

(***************************************************************************)
(* What a prompt on PIM is charged is a number, however it is sampled.     *)
(***************************************************************************)
LEMMA QuotientAtMost ==
    ASSUME NEW a \in Int, NEW d \in Nat \ {0}, NEW z \in Int, a <= z * d
    PROVE  a \div d <= z
<1> DEFINE q == a \div d
<1>1. q \in Int /\ d * q <= a
  OBVIOUS
<1> HIDE DEF q
<1> SUFFICES ASSUME z + 1 <= q PROVE FALSE
  BY <1>1 DEF q
<1>2. \A u, v \in Int : u <= v => d * u <= d * v
  OBVIOUS
<1>3. d * (z + 1) <= d * q
  BY <1>1, <1>2
<1>4. d * (z + 1) = z * d + d
  OBVIOUS
<1>5. d * (z + 1) \in Int /\ d * q \in Int /\ z * d \in Int
  BY <1>1
<1> QED
  BY <1>1, <1>3, <1>4, <1>5

LEMMA QuotientAtLeast ==
    ASSUME NEW a \in Int, NEW d \in Nat \ {0}, NEW z \in Int, z * d <= a
    PROVE  z <= a \div d
<1> DEFINE q == a \div d
<1>1. q \in Int /\ a < d * q + d
  OBVIOUS
<1> HIDE DEF q
<1> SUFFICES ASSUME q + 1 <= z PROVE FALSE
  BY <1>1 DEF q
<1>2. \A u, v \in Int : u <= v => d * u <= d * v
  OBVIOUS
<1>3. d * (q + 1) <= d * z
  BY <1>1, <1>2
<1>4. d * (q + 1) = d * q + d /\ d * z = z * d
  BY <1>1
<1>5. d * (q + 1) \in Int /\ d * q \in Int /\ z * d \in Int
  BY <1>1
<1> QED
  BY <1>1, <1>3, <1>4, <1>5

LEMMA QuotientFrom ==
    ASSUME NEW a \in Int, NEW d \in Nat \ {0}, NEW z \in Nat, a >= -(z * d)
    PROVE  a \div d >= -z
<1>1. -z \in Int /\ (-z) * d <= a
  OBVIOUS
<1>2. a \div d \in Int
  OBVIOUS
<1> QED
  BY <1>1, <1>2, QuotientAtLeast

LEMMA InterpolateTyped ==
    ASSUME NEW last \in Nat, NEW y \in [0..last -> Nat], NEW points, 0 \in points,
           last \in points, NEW x \in 0..last
    PROVE  Interpolate(points, y, last, x) \in Nat
<1>1. CASE x \in points
  BY <1>1 DEF Interpolate
<1>2. CASE x \notin points
  <2> DEFINE below == points \cap 0..x
             above == points \cap x..last
             x0 == CHOOSE p \in below : \A q \in below : q <= p
             x1 == CHOOSE p \in above : \A q \in above : p <= q
  <2>1. \E p \in below : \A q \in below : q <= p
    <3> DEFINE D == {x - p : p \in below}
    <3>1. D \in SUBSET Nat /\ D # {}
      <4>1. 0 \in below
        OBVIOUS
      <4> QED
        BY <4>1
    <3>2. PICK d \in D : \A e \in D : d <= e
      <4> HIDE DEF D
      <4> QED
        BY <3>1, LeastNatural
    <3>3. PICK p \in below : d = x - p
      BY <3>2
    <3>4. ASSUME NEW q \in below PROVE q <= p
      <4>1. x - p <= x - q
        BY <3>2, <3>3
      <4> QED
        BY <4>1
    <3> QED
      BY <3>4
  <2>2. \E p \in above : \A q \in above : p <= q
    <3>1. above \in SUBSET Nat /\ last \in above
      OBVIOUS
    <3> HIDE DEF above
    <3> QED
      BY <3>1, LeastNatural
  <2>3. x0 \in below /\ x1 \in above
    <3> HIDE DEF below, above
    <3> QED
      BY <2>1, <2>2
  <2>4. Interpolate(points, y, last, x)
          = y[x0] + ((y[x1] - y[x0]) * (x - x0)) \div (x1 - x0)
    BY <1>2, Zenon DEF Interpolate
  <2>5. x0 \in 0..x /\ x1 \in x..last /\ x0 # x /\ x1 # x
    BY <1>2, <2>3
  <2> HIDE DEF x0, x1
  <2>6. y[x0] \in Nat /\ y[x1] \in Nat
    BY <2>5
  <2> DEFINE p == x - x0
             d == x1 - x0
             a == y[x1] - y[x0]
  <2>7. p \in Nat /\ d \in Nat \ {0} /\ p <= d /\ a \in Int /\ a >= -y[x0]
    BY <2>5, <2>6
  <2> HIDE DEF p, d, a
  <2>8. \A u, v, w, z \in Int : u >= -v /\ w >= 0 /\ z >= w /\ v >= 0 => u * w >= -(v * z)
    <3> SUFFICES ASSUME NEW u \in Int, NEW v \in Int, NEW w \in Int, NEW z \in Int,
                        u >= -v, w >= 0, z >= w, v >= 0
                 PROVE  u * w >= -(v * z)
      OBVIOUS
    <3>1. u * w >= (-v) * w
      OBVIOUS
    <3>2. v * w <= v * z
      OBVIOUS
    <3>3. (-v) * w = -(v * w)
      OBVIOUS
    <3> QED
      BY <3>1, <3>2, <3>3
  <2>9. a * p >= -(y[x0] * d) /\ a * p \in Int
    <3> DEFINE v == y[x0]
    <3>1. v \in Int /\ v >= 0 /\ a >= -v /\ p \in Int /\ p >= 0 /\ d \in Int /\ d >= p
      BY <2>6, <2>7
    <3> HIDE DEF v
    <3>2. a * p >= -(v * d)
      BY <2>7, <2>8, <3>1
    <3> QED
      BY <2>7, <3>2 DEF v
  <2>10. (a * p) \div d >= -y[x0]
    BY <2>6, <2>7, <2>9, QuotientFrom
  <2>11. (a * p) \div d \in Int
    BY <2>7, <2>9
  <2> QED
    BY <2>4, <2>6, <2>10, <2>11 DEF p, d, a
<1> QED
  BY <1>1, <1>2

LEMMA PrefillTyped ==
    ASSUME NEW n \in Nat \ {0}, NEW samples \in Nat, NEW prices \in [0..(n - 1) -> Nat]
    PROVE  PrefillScore(n, samples, prices) \in Nat
<1> DEFINE points == SampleIndices(n, samples)
           f == [i \in 1..n |-> Interpolate(points, prices, n - 1, i - 1)]
<1>1. 0 \in points /\ n - 1 \in points
  BY DEF SampleIndices
<1>2. \A i \in 1..n : Interpolate(points, prices, n - 1, i - 1) \in Nat
  <2> HIDE DEF points
  <2>1. n - 1 \in Nat /\ \A i \in 1..n : i - 1 \in 0..(n - 1)
    OBVIOUS
  <2> QED
    BY <1>1, <2>1, InterpolateTyped
<1>3. f \in [1..n -> Nat]
  BY <1>2
<1>4. Total(f) \in Nat
  <2> HIDE DEF f
  <2> QED
    BY <1>3, TotalOfNaturals
<1>5. PrefillScore(n, samples, prices) = Total(f)
  BY Zenon DEF PrefillScore
<1> QED
  BY <1>4, <1>5, Zenon

LEMMA ChunksTyped ==
    ASSUME NEW length \in Nat \ {0}, NEW chunk \in Nat
    PROVE  /\ Chunks(length, chunk) \in Nat \ {0}
           /\ \A c \in 0..(Chunks(length, chunk) - 1) :
                 /\ AccumulatedL(length, ChunkSize(length, chunk), c) \in 1..length
                 /\ ChunkTokens(length, ChunkSize(length, chunk), c) \in Nat
<1> DEFINE size == ChunkSize(length, chunk)
           n == Chunks(length, chunk)
<1>1. size \in Nat \ {0}
  BY DEF ChunkSize, Most, Least
<1>2. n = (length + size - 1) \div size
  BY Zenon DEF Chunks, CeilDiv
<1> HIDE DEF size
<1>3. n \in Nat /\ size * n <= length + size - 1 /\ length + size - 1 < size * n + size
  BY <1>1, <1>2
<1> HIDE DEF n
<1>4. n # 0
  BY <1>1, <1>3
<1>5. ASSUME NEW c \in 0..(n - 1)
      PROVE  /\ AccumulatedL(length, size, c) \in 1..length
             /\ ChunkTokens(length, size, c) \in Nat
  <2>1. c \in Nat /\ c <= n - 1
    BY <1>3
  <2>2. c * size <= (n - 1) * size /\ (n - 1) * size = size * n - size /\ c * size \in Nat
    BY <1>1, <1>3, <2>1
  <2>3. c * size <= length - 1
    BY <1>1, <1>3, <2>2
  <2>4. (c + 1) * size = c * size + size
    BY <1>1, <2>1
  <2> QED
    BY <1>1, <2>2, <2>3, <2>4 DEF AccumulatedL, ChunkTokens, Least
<1> QED
  BY <1>3, <1>4, <1>5 DEF size, n

(***************************************************************************)
(* The parts of the state that are settled before the first layer.         *)
(***************************************************************************)
Deployed ==
    /\ call \in Calls /\ shard = Transformer(call.model, call.ngpu)
    /\ xpus \in {call.ngpu, DefaultGpus} /\ acc \in {"gpu", "cpu", "pim"}

LEMMA PriceTyped ==
    ASSUME Deployed, Splits(shard), NEW l \in LayersOfRun(call), NEW device \in {"gpu", "cpu", "pim"},
           device = "gpu" \/ l.type \in {"MATMUL", "SOFTMAX", "X2G"},
           pc = "sum" /\ Device = "pim" /\ l.name = "score" =>
               l.n = call.lin /\ l.type = "MATMUL"
    PROVE  /\ Price(device, l) \in Answers
           /\ l.type \in {"X2G", "G2G"} => \A unit \in 1..5 : Price(device, l).energy[unit] = 0
<1> DEFINE sampled == pc = "sum" /\ Device = "pim" /\ l.name = "score"
           number == Number(device)
           answer == Cost(device, number, l)
<1>1. number \in {2, call.ngpu, DefaultGpus}
  BY DEF Number, Deployed
<1>2. /\ answer \in Answers
      /\ l.type \in {"X2G", "G2G"} => \A unit \in 1..5 : answer.energy[unit] = 0
  <2>1. AnswersWell(device, number, l)
    BY <1>1, AnswersAssumption DEF Deployed
  <2> QED
    BY <2>1 DEF AnswersWell, WellAnswered
<1>3. CASE ~sampled
  BY <1>2, <1>3 DEF Price
<1>4. CASE sampled
  <2> DEFINE lin == call.lin
             size == ChunkSize(lin, call.chunk)
             n == Chunks(lin, call.chunk)
             PerQuery(keys) == Cost(device, number, OneQuery(l, keys))
             times == [c \in 0..(n - 1) |-> PerQuery(AccumulatedL(lin, size, c)).time
                                              * ChunkTokens(lin, size, c)]
             spent(e) == [c \in 0..(n - 1) |-> PerQuery(AccumulatedL(lin, size, c)).energy[e]
                                                 * ChunkTokens(lin, size, c)]
  <2>1. lin \in Nat \ {0} /\ call.chunk \in Nat /\ call.samples \in Nat
    BY CallsAssumption DEF Deployed
  <2>2. n \in Nat \ {0}
        /\ \A c \in 0..(n - 1) : /\ AccumulatedL(lin, size, c) \in 1..lin
                                 /\ ChunkTokens(lin, size, c) \in Nat
    <3> HIDE DEF lin
    <3> QED
      BY <2>1, ChunksTyped
  <2>3. ASSUME NEW keys \in 1..lin PROVE PerQuery(keys) \in Answers
    <3> DEFINE part == OneQuery(l, keys)
    <3>1. part \in ChunksOfRun(call)
      <4>1. l \in {x \in LayersOfRun(call) : x.name = "score"}
        BY <1>4
      <4> QED
        BY <4>1 DEF ChunksOfRun
    <3>2. part.type = l.type
      BY DEF OneQuery
    <3> HIDE DEF part, number
    <3>3. AnswersWell(device, number, part)
      BY <1>1, <3>1, <3>2, AnswersAssumption DEF Deployed
    <3>4. Cost(device, number, part) \in Answers
      BY <3>3 DEF AnswersWell, WellAnswered
    <3> QED
      BY <3>4 DEF part
  <2>4. times \in [0..(n - 1) -> Nat]
    <3>1. ASSUME NEW c \in 0..(n - 1)
          PROVE  PerQuery(AccumulatedL(lin, size, c)).time * ChunkTokens(lin, size, c) \in Nat
      <4>1. PerQuery(AccumulatedL(lin, size, c)) \in Answers
        <5> HIDE DEF PerQuery
        <5> QED
          BY <2>2, <2>3
      <4>2. PerQuery(AccumulatedL(lin, size, c)).time \in Nat
        <5> HIDE DEF PerQuery
        <5> QED
          BY <4>1 DEF Answers
      <4> QED
        BY <2>2, <4>2
    <3> HIDE DEF PerQuery, n, size
    <3> QED
      BY <3>1
  <2>5. ASSUME NEW e \in 1..6 PROVE spent(e) \in [0..(n - 1) -> Nat]
    <3>1. ASSUME NEW c \in 0..(n - 1)
          PROVE  PerQuery(AccumulatedL(lin, size, c)).energy[e] * ChunkTokens(lin, size, c) \in Nat
      <4>1. PerQuery(AccumulatedL(lin, size, c)) \in Answers
        <5> HIDE DEF PerQuery
        <5> QED
          BY <2>2, <2>3
      <4>2. PerQuery(AccumulatedL(lin, size, c)).energy[e] \in Nat
        <5> HIDE DEF PerQuery
        <5> QED
          BY <4>1 DEF Answers
      <4> QED
        BY <2>2, <4>2
    <3> HIDE DEF PerQuery, n, size
    <3> QED
      BY <3>1
  <2>6. Price(device, l)
          = [answer EXCEPT !.time = PrefillScore(n, call.samples, times),
                           !.energy = [e \in 1..6 |-> PrefillScore(n, call.samples, spent(e))]]
    BY <1>4, Zenon DEF Price, ChunkPrices
  <2>7. PrefillScore(n, call.samples, times) \in Nat
    <3> HIDE DEF n, times
    <3> QED
      BY <2>1, <2>2, <2>4, PrefillTyped
  <2>8. [e \in 1..6 |-> PrefillScore(n, call.samples, spent(e))] \in [1..6 -> Nat]
    <3> HIDE DEF n, spent
    <3> QED
      BY <2>1, <2>2, <2>5, PrefillTyped
  <2>9. l.type \notin {"X2G", "G2G"}
    BY <1>4
  <2> HIDE DEF answer, n, times, spent
  <2> QED
    BY <1>2, <2>6, <2>7, <2>8, <2>9 DEF Answers
<1> QED
  BY <1>3, <1>4

(***************************************************************************)
(* The groups of a run.                                                    *)
(***************************************************************************)
GroupRecords == [device : {"gpu", "cpu", "pim"}, count : Nat \ {0}, idx : SUBSET Int]

LEMMA GroupTyped ==
    ASSUME NEW device \in {"gpu", "cpu", "pim"}, NEW count \in Nat \ {0}, NEW idx \in SUBSET Int
    PROVE  /\ Group(device, count, idx) \in GroupRecords
           /\ Group(device, count, idx).device = device
           /\ Group(device, count, idx).count = count
BY DEF Group, GroupRecords

LEMMA LayerByLayerTyped ==
    ASSUME NEW ndec \in Nat \ {0}, NEW accelerated, NEW device \in {"gpu", "cpu", "pim"}
    PROVE  /\ LayerByLayer(ndec, accelerated, device) \in Seq(GroupRecords)
           /\ Len(LayerByLayer(ndec, accelerated, device)) = ndec
           /\ \A n \in 1..ndec :
                 /\ LayerByLayer(ndec, accelerated, device)[n].count = 1
                 /\ LayerByLayer(ndec, accelerated, device)[n].device
                      = IF n - 1 \in accelerated THEN device ELSE "gpu"
<1> DEFINE of(n) == IF n - 1 \in accelerated THEN device ELSE "gpu"
           list == [n \in 1..ndec |-> Group(of(n), 1, {n - 1})]
<1>1. ASSUME NEW n \in 1..ndec
      PROVE  /\ Group(of(n), 1, {n - 1}) \in GroupRecords
             /\ Group(of(n), 1, {n - 1}).device = of(n)
             /\ Group(of(n), 1, {n - 1}).count = 1
  <2>1. of(n) \in {"gpu", "cpu", "pim"} /\ {n - 1} \in SUBSET Int /\ 1 \in Nat \ {0}
    OBVIOUS
  <2> HIDE DEF of
  <2> QED
    BY <2>1, GroupTyped
<1>2. list \in [1..ndec -> GroupRecords]
  <2> HIDE DEF of
  <2> QED
    BY <1>1
<1>3. LayerByLayer(ndec, accelerated, device) = list
  BY Zenon DEF LayerByLayer
<1>4. list \in Seq(GroupRecords) /\ Len(list) = ndec
  <2> HIDE DEF list
  <2> QED
    BY <1>2
<1>5. ASSUME NEW n \in 1..ndec PROVE list[n].count = 1 /\ list[n].device = of(n)
  <2>1. list[n] = Group(of(n), 1, {n - 1})
    <3> HIDE DEF of
    <3> QED
      OBVIOUS
  <2> HIDE DEF list, of
  <2> QED
    BY <1>1, <2>1
<1> QED
  <2> HIDE DEF list
  <2> QED
    BY <1>3, <1>4, <1>5, Zenon

(* The layers that a list of numbers sends to the accelerator. *)
Listed(list, ndec) == (IF list = {} THEN DefaultLayerList ELSE list) \cap 0..(ndec - 1)

LEMMA ListedFinite ==
    ASSUME NEW list, NEW ndec \in Nat
    PROVE  /\ Cardinality(Listed(list, ndec)) \in Nat
           /\ Cardinality(Listed(list, ndec)) <= ndec
<1>1. Listed(list, ndec) \subseteq 0..(ndec - 1)
  BY DEF Listed
<1>2. IsFiniteSet(0..(ndec - 1)) /\ Cardinality(0..(ndec - 1)) = ndec
  BY FS_Interval
<1> QED
  BY <1>1, <1>2, FS_Subset, FS_CardinalityType

LEMMA RoutedTyped ==
    ASSUME Deployed
    PROVE  Routed \in Seq(GroupRecords) /\ Len(Routed) \in Nat \ {0}
<1> DEFINE model == call.model
           ndec == model.ndec
           accelerated == Listed(call.list, ndec)
           count == Cardinality(accelerated)
           kind == IF model.deepstack # {} THEN "list" ELSE call.routing
           optimistic == When(count > 0, << Group(acc, count, {}) >>)
                           \o When(ndec > count, << Group("gpu", ndec - count, {}) >>)
<1>1. ndec \in Nat \ {0} /\ acc \in {"gpu", "cpu", "pim"}
      /\ call.routing \in {"default", "conservative", "optimistic", "list"}
  BY CallsAssumption DEF Deployed
<1>2. count \in Nat /\ count <= ndec
  <2> HIDE DEF ndec
  <2> QED
    BY <1>1, ListedFinite
<1>3. Routed = CASE call.routing # "default" ->
                        (CASE kind = "conservative" -> << Group(acc, ndec, {}) >>
                           [] kind = "optimistic" -> optimistic
                           [] kind = "list" -> LayerByLayer(ndec, accelerated, acc))
                 [] call.routing = "default" /\ model.deepstack # {} ->
                        LayerByLayer(ndec, 0..(ndec - 1), acc)
                 [] OTHER -> << Group(acc, ndec, {}) >>
  BY Zenon DEF Routed, Groups, ToGroups, AcceleratorRoutingName, Listed
<1> DEFINE Good(s) == s \in Seq(GroupRecords) /\ Len(s) \in Nat \ {0}
<1>4. Good(<< Group(acc, ndec, {}) >>)
  <2>1. Group(acc, ndec, {}) \in GroupRecords
    <3> HIDE DEF ndec
    <3> QED
      BY <1>1, GroupTyped
  <2> QED
    BY <2>1
<1>5. Good(LayerByLayer(ndec, accelerated, acc)) /\ Good(LayerByLayer(ndec, 0..(ndec - 1), acc))
  <2> HIDE DEF ndec, accelerated
  <2> QED
    BY <1>1, LayerByLayerTyped
<1>6. Good(optimistic)
  <2> HIDE DEF ndec, count
  <2>1. count > 0 => Group(acc, count, {}) \in GroupRecords
    BY <1>1, <1>2, GroupTyped
  <2>2. ndec > count => Group("gpu", ndec - count, {}) \in GroupRecords
    BY <1>1, <1>2, GroupTyped
  <2>3. count > 0 \/ ndec > count
    BY <1>1, <1>2
  <2> DEFINE a == When(count > 0, << Group(acc, count, {}) >>)
             b == When(ndec > count, << Group("gpu", ndec - count, {}) >>)
  <2>4. a \in Seq(GroupRecords) /\ b \in Seq(GroupRecords)
    BY <2>1, <2>2 DEF When
  <2>5. (count > 0 => Len(a) = 1) /\ (ndec > count => Len(b) = 1)
    BY DEF When
  <2> HIDE DEF a, b
  <2>6. Good(a \o b)
    BY <2>3, <2>4, <2>5
  <2> QED
    BY <2>6 DEF a, b
<1> HIDE DEF Good, ndec, accelerated, optimistic, count
<1>7. Good(Routed)
  <2>1. CASE call.routing = "default"
    BY <1>3, <1>4, <1>5, <2>1
  <2>2. CASE call.routing # "default"
    <3>1. kind \in {"conservative", "optimistic", "list"}
      BY <1>1, <2>2
    <3> HIDE DEF kind
    <3> QED
      BY <1>3, <1>4, <1>5, <1>6, <2>2, <3>1
  <2> QED
    BY <2>1, <2>2
<1> QED
  BY <1>7 DEF Good

(***************************************************************************)
(* The inductive invariant: where a run is, which layers it prices, and    *)
(* what it knows of those that are priced.                                 *)
(***************************************************************************)
Early == {"main", "set_xpu", "set_accelerator", "build"}
Pricing == {"vision", "sum", "gen"}
Late == Pricing \cup {"write", "done", "raised"}

Placed ==
    /\ pc \in Early \cup Late \cup {"failed"}
    /\ pc \in Early => groups = <<>>
    /\ pc \in Early \cup {"vision", "failed"} => group = 1
    /\ groups # <<>> => groups = Routed
    /\ pc \in Late => groups = Routed /\ group \in DOMAIN groups /\ Splits(shard)
    /\ stage \in 1..Most(1, call.lout - 1)
    /\ pc = "gen" => call.lout > 1

Layered ==
    /\ pc = "vision" => graph = Vision /\ graph # <<>>
    /\ pc = "sum" => graph = SumBlock(groups[group])
    /\ pc = "gen" => graph = GenBlock(groups[group], stage)
    /\ pc \notin Pricing => graph = <<>>

(* What is known of the price of a layer, and of those of the first layers of a block. *)
Fitting(l, answer, gpus) ==
    /\ l.type = "NORM" => answer.time = Cost("gpu", gpus, l).time
    /\ l.type \in {"X2G", "G2G"} => \A unit \in 1..5 : answer.energy[unit] = 0
PricedWell(layers, answers, gpus) ==
    /\ answers \in Seq(Answers) /\ Len(answers) <= Len(layers)
    /\ \A i \in 1..Len(answers) : Fitting(layers[i], answers[i], gpus)

Running ==
    /\ PricedWell(graph, ran, xpus)
    /\ time \in Nat /\ wrt_io_busy \in Nat /\ wrt_io_busy <= time

Inv == Deployed /\ Placed /\ Layered /\ Running

LEMMA NothingPriced ==
    ASSUME NEW layers, NEW gpus, Len(layers) \in Nat
    PROVE  PricedWell(layers, <<>>, gpus)
BY DEF PricedWell

LEMMA InitInv == Init => Inv
<1> SUFFICES ASSUME Init PROVE Inv
  OBVIOUS
<1>1. Deployed
  BY DEF Init, Deployed
<1>2. 1 \in 1..Most(1, call.lout - 1)
  <2>1. call.lout \in Nat
    BY <1>1, CallsAssumption DEF Deployed
  <2> QED
    BY <2>1 DEF Most
<1>3. Placed
  BY <1>2 DEF Init, Placed, Early, Late, Pricing
<1>4. Layered
  BY DEF Init, Layered, Pricing
<1>5. Running
  <2>1. PricedWell(<<>>, <<>>, xpus)
    BY NothingPriced
  <2> QED
    BY <2>1 DEF Init, Running
<1> QED
  BY <1>1, <1>3, <1>4, <1>5 DEF Inv

LEMMA LayersOfBlock ==
    ASSUME NEW c, NEW block \in BlocksOfRun(c)
    PROVE  Elements(block) \subseteq LayersOfRun(c)
BY DEF LayersOfRun

(* What a block of layers consists of. *)
LEMMA BlockOfInv ==
    ASSUME Inv, pc \in Pricing
    PROVE  /\ graph \in Seq(Elements(graph))
           /\ Elements(graph) \subseteq LayersOfRun(call)
           /\ \A l \in Elements(graph) :
                 /\ l.type \in LayerTypes
                 /\ pc # "vision" /\ l.name = "score" => l.type = "MATMUL"
                 /\ pc = "sum" /\ l.name = "score" => l.n = call.lin
           /\ pc = "sum" => graph \in Seq(DecoderLayers(call.lin))
           /\ pc = "gen" => graph \in Seq(DecoderLayers(call.lin + stage))
           /\ pc # "vision" => \E l \in Elements(graph) : l.name = "score"
<1> DEFINE t == shard
           D(keys) == DecoderLayers(keys)
<1>1. Sized(t) /\ call \in Calls
  BY TransformerSized DEF Inv, Deployed
<1>2. call.batch \in Nat /\ call.lin \in Nat /\ call.lout \in Nat
  BY <1>1, CallsAssumption
<1>3. ASSUME NEW keys \in Nat, NEW s \in Seq(DecoderLayers(keys))
      PROVE  /\ s \in Seq(Elements(s))
             /\ \A l \in Elements(s) : /\ l.type \in LayerTypes
                                       /\ l.name = "score" => l.type = "MATMUL" /\ l.n = keys
  <2>1. s \in Seq(Elements(s)) /\ Elements(s) \subseteq DecoderLayers(keys)
    BY DEF Elements
  <2>2. \A l \in DecoderLayers(keys) :
            /\ l.type \in LayerTypes
            /\ l.name = "score" => l.type = "MATMUL" /\ l.n = keys
    BY DEF DecoderLayers, Layers
  <2> QED
    BY <2>1, <2>2
<1>4. \A queries, keys \in Nat :
          \E l \in Elements(Attention(t, call.batch, queries, keys)) : l.name = "score"
  <2> SUFFICES ASSUME NEW queries \in Nat, NEW keys \in Nat
               PROVE  \E l \in Elements(Attention(t, call.batch, queries, keys)) :
                          l.name = "score"
    OBVIOUS
  <2>0. IsAttention(Attention(t, call.batch, queries, keys), DecoderLayers(keys))
    BY <1>1, <1>2, AttentionTyped
  <2>1. PICK x, y, z \in DecoderLayers(keys) :
            Attention(t, call.batch, queries, keys) = <<x, y, z>> /\ x.name = "score"
    BY <2>0 DEF IsAttention
  <2>2. x \in Elements(<<x, y, z>>)
    BY DEF Elements
  <2> QED
    BY <2>1, <2>2
<1>5. CASE pc = "vision"
  <2>1. graph = BuildVision(Transformer(call.model, call.ngpu), call.batch, call.image)
    BY <1>5, Zenon DEF Inv, Layered, Vision, Deployed
  <2>2. graph \in Seq(Elements(graph)) /\ \A l \in Elements(graph) : l.type \in LayerTypes
    BY <2>1, VisionTyped
  <2>3. Elements(graph) \subseteq LayersOfRun(call)
    <3>1. graph \in BlocksOfRun(call)
      BY <2>1 DEF BlocksOfRun
    <3> QED
      BY <3>1, LayersOfBlock
  <2> QED
    BY <1>5, <2>2, <2>3
<1>6. CASE pc = "sum"
  <2> DEFINE hetero == groups[group].device # "gpu"
             idx == groups[group].idx
             which == IF idx \cap t.info.deepstack # {} THEN call.model.deepstack ELSE {}
  <2>1. graph = BuildSum(t, call.batch, call.lin, hetero, idx) /\ hetero \in BOOLEAN
    BY <1>6, Zenon DEF Inv, Layered, SumBlock
  <2>2. t.info = call.model
    BY DEF Inv, Deployed, Transformer
  <2>3. graph = BuildSum(t, call.batch, call.lin, hetero, which)
    <3>1. (idx \cap t.info.deepstack # {}) <=> (which \cap t.info.deepstack # {})
      BY <2>2
    <3> HIDE DEF which, hetero, idx
    <3> QED
      BY <2>1, <3>1, Zenon DEF BuildSum
  <2>4. Elements(graph) \subseteq LayersOfRun(call)
    <3>1. which \in {{}, call.model.deepstack}
      OBVIOUS
    <3>2. graph = BuildSum(Transformer(call.model, call.ngpu), call.batch, call.lin, hetero, which)
      BY <2>3 DEF Inv, Deployed
    <3> HIDE DEF which, hetero
    <3>3. graph \in BlocksOfRun(call)
      BY <2>1, <3>1, <3>2 DEF BlocksOfRun
    <3> QED
      BY <3>3, LayersOfBlock
  <2> HIDE DEF hetero, idx
  <2>5. /\ graph \in Seq(DecoderLayers(call.lin))
        /\ Elements(Attention(t, call.batch, call.lin, call.lin)) \subseteq Elements(graph)
    BY <1>1, <1>2, <2>1, SumTyped DEF SumWeighs
  <2>6. \E l \in Elements(graph) : l.name = "score"
    BY <1>2, <1>4, <2>5
  <2> QED
    BY <1>2, <1>3, <1>6, <2>4, <2>5, <2>6
<1>7. CASE pc = "gen"
  <2> DEFINE hetero == groups[group].device # "gpu"
  <2>1. graph = BuildGenStage(t, call.batch, call.lin, stage, hetero) /\ hetero \in BOOLEAN
    BY <1>7, Zenon DEF Inv, Layered, GenBlock
  <2>2. stage \in 1..(call.lout - 1)
    BY <1>2, <1>7 DEF Inv, Placed, Most
  <2> HIDE DEF hetero
  <2>3. Elements(graph) \subseteq LayersOfRun(call)
    <3>1. graph = BuildGenStage(Transformer(call.model, call.ngpu), call.batch, call.lin, stage,
                                hetero)
      BY <2>1 DEF Inv, Deployed
    <3>2. graph \in BlocksOfRun(call)
      BY <2>1, <2>2, <3>1 DEF BlocksOfRun
    <3> QED
      BY <3>2, LayersOfBlock
  <2>4. stage \in Nat
    BY <1>2, <2>2
  <2>5. /\ graph \in Seq(DecoderLayers(call.lin + stage))
        /\ Elements(Attention(t, call.batch, 1, call.lin + stage)) \subseteq Elements(graph)
    BY <1>1, <1>2, <2>1, <2>4, GenTyped DEF GenWeighs
  <2>6. \E l \in Elements(graph) : l.name = "score"
    <3>1. 1 \in Nat /\ call.lin + stage \in Nat
      BY <1>2, <2>4
    <3> QED
      BY <1>4, <2>5, <3>1
  <2>7. call.lin + stage \in Nat
    BY <1>2, <2>4
  <2> QED
    BY <1>3, <1>7, <2>3, <2>5, <2>6, <2>7
<1> QED
  BY <1>5, <1>6, <1>7 DEF Pricing

LEMMA BlocksAreSequences ==
    ASSUME Deployed
    PROVE  /\ Vision \in Seq(Elements(Vision))
           /\ \A part : SumBlock(part) \in Seq(DecoderLayers(call.lin))
           /\ \A part : \A s \in Nat : GenBlock(part, s) \in Seq(DecoderLayers(call.lin + s))
<1>1. Sized(shard) /\ call.batch \in Nat /\ call.lin \in Nat
  BY TransformerSized, CallsAssumption DEF Deployed
<1>2. Vision \in Seq(Elements(Vision))
  BY VisionTyped DEF Vision
<1>3. ASSUME NEW part PROVE SumBlock(part) \in Seq(DecoderLayers(call.lin))
  <2>1. (part.device # "gpu") \in BOOLEAN
    OBVIOUS
  <2> DEFINE hetero == part.device # "gpu"
  <2> HIDE DEF hetero
  <2>2. BuildSum(shard, call.batch, call.lin, hetero, part.idx) \in Seq(DecoderLayers(call.lin))
    BY <1>1, SumTyped DEF SumWeighs, hetero
  <2> QED
    BY <2>2 DEF SumBlock, hetero
<1>4. ASSUME NEW part, NEW s \in Nat PROVE GenBlock(part, s) \in Seq(DecoderLayers(call.lin + s))
  <2> DEFINE hetero == part.device # "gpu"
  <2>1. hetero \in BOOLEAN
    OBVIOUS
  <2> HIDE DEF hetero
  <2>2. BuildGenStage(shard, call.batch, call.lin, s, hetero) \in Seq(DecoderLayers(call.lin + s))
    BY <1>1, <2>1, GenTyped DEF GenWeighs
  <2> QED
    BY <2>2 DEF GenBlock, hetero
<1> QED
  BY <1>2, <1>3, <1>4

(* The next block is started afresh. *)
LEMMA NextBlockInv ==
    ASSUME Inv, pc \in Pricing, UNCHANGED Run,
           NEW next \in {"sum", "gen", "write"}, NEW g \in DOMAIN groups,
           NEW s \in 1..Most(1, call.lout - 1), next = "gen" => call.lout > 1,
           NextBlock(next, g, s)
    PROVE  Inv'
<1>1. Deployed'
  BY DEF Inv, Deployed, Run
<1>2. Placed'
  BY DEF Inv, Placed, Run, NextBlock, Early, Late, Pricing, Routed, AcceleratorRoutingName
<1>3. call.lout \in Nat /\ s \in Nat
  BY CallsAssumption DEF Inv, Deployed, Most
<1>4. Layered'
  BY DEF NextBlock, LayersOf, Layered, SumBlock, GenBlock, Run, Pricing
<1>5. Len(graph') \in Nat
  <2>1. CASE next = "sum"
    <3>1. graph' = SumBlock(groups[g])
      BY <2>1 DEF NextBlock, LayersOf
    <3> QED
      BY <3>1, BlocksAreSequences DEF Inv
  <2>2. CASE next = "gen"
    <3>1. graph' = GenBlock(groups[g], s)
      BY <2>2 DEF NextBlock, LayersOf
    <3> QED
      BY <1>3, <3>1, BlocksAreSequences DEF Inv
  <2>3. CASE next = "write"
    BY <2>3 DEF NextBlock, LayersOf
  <2> QED
    BY <2>1, <2>2, <2>3
<1>6. Running'
  <2>1. PricedWell(graph', <<>>, xpus')
    BY <1>5, NothingPriced
  <2> QED
    BY <2>1 DEF Running, NextBlock
<1> QED
  BY <1>1, <1>2, <1>4, <1>6 DEF Inv

(* One more layer is priced. *)
LEMMA OneMorePriced ==
    ASSUME NEW layers, Len(layers) \in Nat, NEW answers, NEW gpus, PricedWell(layers, answers, gpus),
           Len(answers) < Len(layers), NEW answer \in Answers,
           Fitting(layers[Len(answers) + 1], answer, gpus)
    PROVE  PricedWell(layers, Append(answers, answer), gpus)
<1>1. /\ Append(answers, answer) \in Seq(Answers)
      /\ Len(Append(answers, answer)) = Len(answers) + 1
      /\ Append(answers, answer)[Len(answers) + 1] = answer
      /\ \A i \in 1..Len(answers) : Append(answers, answer)[i] = answers[i]
  BY DEF PricedWell
<1>2. Len(answers) \in Nat
  BY DEF PricedWell
<1>3. ASSUME NEW i \in 1..(Len(answers) + 1)
      PROVE  Fitting(layers[i], Append(answers, answer)[i], gpus)
  <2>1. CASE i = Len(answers) + 1
    BY <1>1, <2>1
  <2>2. CASE i # Len(answers) + 1
    BY <1>1, <1>2, <2>2 DEF PricedWell
  <2> QED
    BY <2>1, <2>2
<1> QED
  BY <1>1, <1>2, <1>3 DEF PricedWell

(* What the device of the next layer answers. *)
LEMMA NextPrice ==
    ASSUME Inv, pc \in Pricing, Len(ran) < Len(graph)
    PROVE  LET l == graph[Len(ran) + 1] IN
           /\ Price(SelectDevice(l), l) \in Answers
           /\ Fitting(l, Price(SelectDevice(l), l), xpus)
           /\ l.type \in LayerTypes /\ Len(graph) \in Nat
<1> DEFINE l == graph[Len(ran) + 1]
           device == SelectDevice(l)
<1>1. Len(ran) \in Nat /\ Len(graph) \in Nat
  <2>1. graph \in Seq(Elements(graph)) /\ ran \in Seq(Answers)
    BY BlockOfInv DEF Inv, Running, PricedWell
  <2> QED
    BY <2>1
<1>2. l \in Elements(graph)
  <2>1. Len(ran) + 1 \in DOMAIN graph
    <3>1. DOMAIN graph = 1..Len(graph)
      BY BlockOfInv
    <3> QED
      BY <1>1, <3>1
  <2> QED
    BY <2>1 DEF Elements
<1> HIDE DEF l
<1>3. /\ l \in LayersOfRun(call) /\ l.type \in LayerTypes
      /\ pc # "vision" /\ l.name = "score" => l.type = "MATMUL"
      /\ pc = "sum" /\ l.name = "score" => l.n = call.lin
  BY <1>2, BlockOfInv
<1>4. device \in {"gpu", "cpu", "pim"} /\ (device = "gpu" \/ l.type \in {"MATMUL", "SOFTMAX", "X2G"})
      /\ (l.type = "NORM" => device = "gpu")
  BY DEF SelectDevice, Inv, Deployed
<1>5. /\ Price(device, l) \in Answers
      /\ l.type \in {"X2G", "G2G"} => \A unit \in 1..5 : Price(device, l).energy[unit] = 0
  <2> HIDE DEF device
  <2>1. Deployed /\ Splits(shard)
    BY DEF Inv, Placed, Late
  <2>2. pc = "sum" /\ Device = "pim" /\ l.name = "score" => l.n = call.lin /\ l.type = "MATMUL"
    BY <1>3
  <2> QED
    BY <1>3, <1>4, <2>1, <2>2, PriceTyped
<1>6. ASSUME l.type = "NORM" PROVE Price(device, l).time = Cost("gpu", xpus, l).time
  <2>1. device = "gpu" /\ ~(pc = "sum" /\ Device = "pim" /\ l.name = "score")
    BY <1>3, <1>4, <1>6
  <2> HIDE DEF device
  <2> QED
    BY <2>1 DEF Price, Number
<1> QED
  BY <1>1, <1>3, <1>5, <1>6 DEF l, Fitting

LEMMA AnswerLater ==
    ASSUME NEW p \in Answers, NEW n \in Nat
    PROVE  /\ [p EXCEPT !.time = n] \in Answers /\ [p EXCEPT !.time = n].time = n
           /\ [p EXCEPT !.time = n].energy = p.energy
BY DEF Answers

LEMMA SumLayerInv ==
    ASSUME Inv, SumLayer
    PROVE  Inv'
<1> DEFINE l == graph[Len(ran) + 1]
           price == Price(SelectDevice(l), l)
           wait == IF l.type = "X2G" THEN Most(wrt_io_busy - time, 0) ELSE 0
           answer == [price EXCEPT !.time = @ + wait]
<1>1. /\ pc \in Pricing /\ Len(ran) < Len(graph)
      /\ ran' = Append(ran, answer) /\ time' = time + price.time + wait
      /\ wrt_io_busy' = IF l.type = "X2G" THEN time + price.time + wait ELSE wrt_io_busy
  BY DEF SumLayer, Pricing
<1>2. price \in Answers /\ Len(graph) \in Nat /\ Fitting(l, price, xpus)
  BY <1>1, NextPrice
<1>3. time \in Nat /\ wrt_io_busy \in Nat /\ wrt_io_busy <= time
  BY DEF Inv, Running
<1>4. wait \in Nat /\ (l.type = "NORM" => wait = 0)
  BY <1>3 DEF Most
<1> HIDE DEF l, price, wait
<1>5. price.time \in Nat
  BY <1>2 DEF Answers
<1>6. answer \in Answers /\ answer.time = price.time + wait /\ answer.energy = price.energy
  <2>1. price.time + wait \in Nat
    BY <1>4, <1>5
  <2>2. answer = [price EXCEPT !.time = price.time + wait]
    BY DEF answer
  <2> HIDE DEF answer
  <2> QED
    BY <1>2, <2>1, <2>2, AnswerLater
<1>7. Fitting(l, answer, xpus)
  BY <1>2, <1>4, <1>5, <1>6 DEF Fitting
<1>8. PricedWell(graph, Append(ran, answer), xpus)
  <2>1. PricedWell(graph, ran, xpus)
    BY DEF Inv, Running
  <2> HIDE DEF answer
  <2> QED
    BY <1>1, <1>2, <1>6, <1>7, <2>1, OneMorePriced DEF l
<1>9. Running'
  <2>1. xpus' = xpus /\ graph' = graph
    BY DEF SumLayer, Kept, Run
  <2>2. PricedWell(graph', ran', xpus')
    <3> HIDE DEF answer
    <3> QED
      BY <1>1, <1>8, <2>1
  <2>3. time' \in Nat /\ wrt_io_busy' \in Nat /\ wrt_io_busy' <= time'
    BY <1>1, <1>3, <1>4, <1>5
  <2> QED
    BY <2>2, <2>3 DEF Running
<1>10. Deployed' /\ Placed' /\ Layered'
  BY DEF Inv, Deployed, Placed, Layered, SumLayer, Kept, Run, Routed, AcceleratorRoutingName,
         Vision, SumBlock, GenBlock
<1> QED
  BY <1>9, <1>10 DEF Inv

LEMMA GenLayerInv ==
    ASSUME Inv, GenLayer
    PROVE  Inv'
<1> DEFINE l == graph[Len(ran) + 1]
           price == Price(SelectDevice(l), l)
<1>1. pc \in Pricing /\ Len(ran) < Len(graph) /\ ran' = Append(ran, price)
  BY DEF GenLayer, Pricing
<1>2. price \in Answers /\ Len(graph) \in Nat /\ Fitting(l, price, xpus)
  BY <1>1, NextPrice
<1> HIDE DEF l, price
<1>3. PricedWell(graph, Append(ran, price), xpus)
  <2>1. PricedWell(graph, ran, xpus)
    BY DEF Inv, Running
  <2> QED
    BY <1>1, <1>2, <2>1, OneMorePriced DEF l
<1>4. Running'
  <2>1. /\ xpus' = xpus /\ graph' = graph /\ time' = time /\ wrt_io_busy' = wrt_io_busy
    BY DEF GenLayer, Kept, Run
  <2>2. PricedWell(graph', ran', xpus')
    BY <1>1, <1>3, <2>1
  <2> QED
    BY <2>1, <2>2 DEF Running, Inv
<1>5. Deployed' /\ Placed' /\ Layered'
  BY DEF Inv, Deployed, Placed, Layered, GenLayer, Kept, Run, Routed, AcceleratorRoutingName,
         Vision, SumBlock, GenBlock
<1> QED
  BY <1>4, <1>5 DEF Inv

LEMMA AdvanceInv ==
    ASSUME Inv, pc \in Pricing, UNCHANGED Run, Advance
    PROVE  Inv'
<1>1. groups \in Seq(GroupRecords) /\ group \in DOMAIN groups /\ call.lout \in Nat
  BY RoutedTyped, CallsAssumption DEF Inv, Deployed, Placed, Late
<1>2. 1 \in 1..Most(1, call.lout - 1)
  BY <1>1 DEF Most
<1>3. CASE group < Len(groups)
  <2>1. group + 1 \in DOMAIN groups /\ NextBlock("sum", group + 1, 1)
    BY <1>1, <1>3 DEF Advance
  <2> QED
    BY <1>2, <2>1, NextBlockInv
<1>4. CASE ~(group < Len(groups))
  <2>1. NextBlock("write", group, 1)
    BY <1>4 DEF Advance
  <2> QED
    BY <1>1, <1>2, <2>1, NextBlockInv
<1> QED
  BY <1>3, <1>4

LEMMA EndInv ==
    ASSUME Inv, EndVision \/ EndSum \/ EndStage
    PROVE  Inv'
<1>1. group \in DOMAIN groups /\ stage \in 1..Most(1, call.lout - 1) /\ call.lout \in Nat
  <2>1. pc \in Late
    BY DEF EndVision, EndSum, EndStage, Late, Pricing
  <2> QED
    BY <2>1, CallsAssumption DEF Inv, Deployed, Placed
<1>2. 1 \in 1..Most(1, call.lout - 1)
  BY <1>1 DEF Most
<1>3. CASE EndVision
  <2>1. pc \in Pricing /\ UNCHANGED Run /\ NextBlock("sum", group, stage)
    BY <1>3 DEF EndVision, Pricing
  <2> QED
    BY <1>1, <2>1, NextBlockInv
<1>4. CASE EndSum
  <2>1. pc \in Pricing /\ UNCHANGED Run
    BY <1>4 DEF EndSum, Pricing
  <2>2. CASE call.lout > 1
    <3>1. NextBlock("gen", group, 1)
      BY <1>4, <2>2 DEF EndSum
    <3> QED
      BY <1>1, <1>2, <2>1, <2>2, <3>1, NextBlockInv
  <2>3. CASE ~(call.lout > 1)
    <3>1. Advance
      BY <1>4, <2>3 DEF EndSum
    <3> QED
      BY <2>1, <3>1, AdvanceInv
  <2> QED
    BY <2>2, <2>3
<1>5. CASE EndStage
  <2>1. pc \in Pricing /\ UNCHANGED Run /\ call.lout > 1
    BY <1>5 DEF EndStage, Pricing, Inv, Placed
  <2>2. CASE stage < call.lout - 1
    <3>1. NextBlock("gen", group, stage + 1)
      BY <1>5, <2>2 DEF EndStage
    <3>2. stage + 1 \in 1..Most(1, call.lout - 1)
      BY <1>1, <2>2 DEF Most
    <3> QED
      BY <1>1, <2>1, <3>1, <3>2, NextBlockInv
  <2>3. CASE ~(stage < call.lout - 1)
    <3>1. Advance
      BY <1>5, <2>3 DEF EndStage
    <3> QED
      BY <2>1, <3>1, AdvanceInv
  <2> QED
    BY <2>2, <2>3
<1> QED
  BY <1>3, <1>4, <1>5

LEMMA BuildInv ==
    ASSUME Inv, Build
    PROVE  Inv'
<1>1. /\ pc = "build" /\ group = 1 /\ groups' = Routed
      /\ UNCHANGED <<call, xpus, shard, acc, group, stage, ran, time, wrt_io_busy>>
      /\ ran = <<>>
  <2>1. pc = "build" /\ graph = <<>>
    BY DEF Build, Inv, Layered, Pricing
  <2>2. Len(ran) <= 0 /\ ran \in Seq(Answers)
    BY <2>1 DEF Inv, Running, PricedWell
  <2>3. ran = <<>>
    BY <2>2
  <2> QED
    BY <2>1, <2>3 DEF Build, Inv, Placed, Early
<1>2. Deployed'
  BY <1>1 DEF Inv, Deployed
<1>3. Routed' = Routed /\ Routed \in Seq(GroupRecords) /\ 1 \in DOMAIN Routed
  <2>1. Routed \in Seq(GroupRecords) /\ Len(Routed) \in Nat \ {0}
    BY RoutedTyped DEF Inv
  <2>2. Routed' = Routed
    BY <1>1 DEF Routed, AcceleratorRoutingName
  <2> QED
    BY <2>1, <2>2
<1>4. Placed'
  BY <1>1, <1>3 DEF Build, Inv, Placed, Early, Late, Pricing
<1>5. Layered'
  BY <1>1 DEF Build, Layered, Pricing, Vision, SumBlock
<1>6. Len(graph') \in Nat
  <2>1. graph' \in {<<>>, Vision, SumBlock(Routed[1])}
    BY <1>1 DEF Build
  <2> QED
    BY <2>1, BlocksAreSequences DEF Inv
<1>7. Running'
  <2>1. PricedWell(graph', <<>>, xpus')
    BY <1>6, NothingPriced
  <2> QED
    BY <1>1, <2>1 DEF Running, Inv
<1> QED
  BY <1>2, <1>4, <1>5, <1>7 DEF Inv

LEMMA NextInv ==
    ASSUME Inv, [Next]_vars
    PROVE  Inv'
<1>1. CASE UNCHANGED vars
  BY <1>1 DEF vars, Inv, Deployed, Placed, Layered, Running, Routed, AcceleratorRoutingName,
              Vision, SumBlock, GenBlock
<1>2. CASE StartBySimRunner \/ Main \/ SetXpu \/ SetAccelerator
  <2>1. /\ pc \in Early /\ pc' \in Early \cup {"failed"}
        /\ UNCHANGED <<call, shard, groups, group, stage, graph, ran, time, wrt_io_busy>>
    BY <1>2, CallsAssumption
       DEF StartBySimRunner, Main, SetXpu, SetAccelerator, Early, Simulated, Priced,
           Inv, Deployed
  <2>2. xpus' \in {call.ngpu, DefaultGpus} /\ acc' \in {"gpu", "cpu", "pim"}
    BY <1>2 DEF StartBySimRunner, Main, SetXpu, SetAccelerator, Inv, Deployed
  <2>3. Deployed'
    BY <2>1, <2>2 DEF Inv, Deployed
  <2>4. pc \notin Pricing /\ pc' \notin Pricing /\ pc' \notin Late
    BY <2>1 DEF Early, Pricing, Late
  <2>5. Placed'
    BY <2>1, <2>4 DEF Inv, Placed, Early, Late, Pricing
  <2>6. Layered'
    BY <2>1, <2>4 DEF Inv, Layered, Pricing
  <2>7. Running'
    <3>1. graph = <<>> /\ Len(ran) <= Len(graph) /\ ran \in Seq(Answers)
      BY <2>4 DEF Inv, Layered, Running, PricedWell
    <3>2. ran = <<>>
      BY <3>1
    <3>3. PricedWell(graph', ran', xpus')
      BY <2>1, <3>1, <3>2, NothingPriced
    <3> QED
      BY <2>1, <3>3 DEF Inv, Running
  <2> QED
    BY <2>3, <2>5, <2>6, <2>7 DEF Inv
<1>3. CASE Build
  BY <1>3, BuildInv
<1>4. CASE SumLayer
  BY <1>4, SumLayerInv
<1>5. CASE GenLayer
  BY <1>5, GenLayerInv
<1>6. CASE EndVision \/ EndSum \/ EndStage
  BY <1>6, EndInv
<1>7. CASE NoThroughput \/ WriteRow
  BY <1>7 DEF NoThroughput, WriteRow, Simulated, Priced, Inv, Deployed, Placed, Layered, Running,
              Routed, AcceleratorRoutingName, Early, Late, Pricing
<1>8. CASE Finished
  BY <1>1, <1>8 DEF Finished
<1> QED
  BY <1>1, <1>2, <1>3, <1>4, <1>5, <1>6, <1>7, <1>8 DEF Next

----------------------------------------------------------------------------
(* The columns.                                                            *)

(* The first of eight sequences is the sum of the others. *)
LEMMA TotalOfSeven ==
    ASSUME NEW n \in Nat, NEW p \in [1..8 -> [1..n -> Int]],
           \A i \in 1..n : p[1][i] = p[2][i] + p[3][i] + p[4][i] + p[5][i] + p[6][i] + p[7][i]
                                       + p[8][i]
    PROVE  Total(p[1]) = Total(p[2]) + Total(p[3]) + Total(p[4]) + Total(p[5]) + Total(p[6])
                           + Total(p[7]) + Total(p[8])
<1>1. PICK h, a, b, c, d, e, f, g : << p[1], p[2], p[3], p[4], p[5], p[6], p[7], p[8] >>
                                        = << h, a, b, c, d, e, f, g >>
  OBVIOUS
<1>2. /\ a \in [1..n -> Int] /\ b \in [1..n -> Int] /\ c \in [1..n -> Int]
      /\ d \in [1..n -> Int] /\ e \in [1..n -> Int] /\ f \in [1..n -> Int]
      /\ g \in [1..n -> Int] /\ h \in [1..n -> Int]
  <2>1. /\ h = p[1] /\ a = p[2] /\ b = p[3] /\ c = p[4] /\ d = p[5] /\ e = p[6] /\ f = p[7]
        /\ g = p[8]
    BY <1>1
  <2> DEFINE T == [1..n -> Int]
  <2>2. p \in [1..8 -> T]
    OBVIOUS
  <2> HIDE DEF T
  <2>3. a \in T /\ b \in T /\ c \in T /\ d \in T /\ e \in T /\ f \in T /\ g \in T /\ h \in T
    BY <2>1, <2>2
  <2> QED
    BY <2>3 DEF T
<1>3. \A i \in 1..n : h[i] = a[i] + b[i] + c[i] + d[i] + e[i] + f[i] + g[i]
  BY <1>1
<1> DEFINE upTo2 == [i \in 1..n |-> a[i] + b[i]]
           upTo3 == [i \in 1..n |-> upTo2[i] + c[i]]
           upTo4 == [i \in 1..n |-> upTo3[i] + d[i]]
           upTo5 == [i \in 1..n |-> upTo4[i] + e[i]]
           upTo6 == [i \in 1..n |-> upTo5[i] + f[i]]
<1>4. upTo2 \in [1..n -> Int] /\ \A i \in 1..n : upTo2[i] = a[i] + b[i]
  BY <1>2
<1> HIDE DEF upTo2
<1>5. upTo3 \in [1..n -> Int] /\ \A i \in 1..n : upTo3[i] = upTo2[i] + c[i]
  BY <1>2, <1>4
<1> HIDE DEF upTo3
<1>6. upTo4 \in [1..n -> Int] /\ \A i \in 1..n : upTo4[i] = upTo3[i] + d[i]
  BY <1>2, <1>5
<1> HIDE DEF upTo4
<1>7. upTo5 \in [1..n -> Int] /\ \A i \in 1..n : upTo5[i] = upTo4[i] + e[i]
  BY <1>2, <1>6
<1> HIDE DEF upTo5
<1>8. upTo6 \in [1..n -> Int] /\ \A i \in 1..n : upTo6[i] = upTo5[i] + f[i]
  BY <1>2, <1>7
<1> HIDE DEF upTo6
<1>9. Total(upTo2) = Total(a) + Total(b)
  BY <1>2, <1>4, TotalOfSums, ZenonT(60)
<1>10. Total(upTo3) = Total(upTo2) + Total(c)
  BY <1>2, <1>5, <1>4, TotalOfSums, ZenonT(60)
<1>11. Total(upTo4) = Total(upTo3) + Total(d)
  BY <1>2, <1>6, <1>5, TotalOfSums, ZenonT(60)
<1>12. Total(upTo5) = Total(upTo4) + Total(e)
  BY <1>2, <1>7, <1>6, TotalOfSums, ZenonT(60)
<1>13. Total(upTo6) = Total(upTo5) + Total(f)
  BY <1>2, <1>8, <1>7, TotalOfSums, ZenonT(60)
<1>14. \A i \in 1..n : h[i] = upTo6[i] + g[i]
  <2> TAKE i \in 1..n
  <2>1. /\ a[i] \in Int /\ b[i] \in Int /\ c[i] \in Int /\ d[i] \in Int /\ e[i] \in Int
        /\ f[i] \in Int /\ g[i] \in Int
    BY <1>2
  <2>2. /\ upTo2[i] = a[i] + b[i] /\ upTo3[i] = upTo2[i] + c[i] /\ upTo4[i] = upTo3[i] + d[i]
        /\ upTo5[i] = upTo4[i] + e[i] /\ upTo6[i] = upTo5[i] + f[i]
    BY <1>4, <1>5, <1>6, <1>7, <1>8
  <2>3. h[i] = a[i] + b[i] + c[i] + d[i] + e[i] + f[i] + g[i]
    BY <1>3
  <2> QED
    BY <2>1, <2>2, <2>3
<1>15. Total(h) = Total(upTo6) + Total(g)
  BY <1>2, <1>8, <1>14, TotalOfSums, ZenonT(60)
<1> QED
  BY <1>1, <1>9, <1>10, <1>11, <1>12, <1>13, <1>15

(* What the layers of a block add to a column. *)
SPart(block, times, k) == [i \in DOMAIN block |-> IF k \in SColumns(block[i]) THEN times[i] ELSE 0]
GPart(block, times, k) == [i \in DOMAIN block |-> IF k \in GColumns(block[i]) THEN times[i] ELSE 0]

LEMMA PartsTyped ==
    ASSUME NEW n \in Nat, NEW block, DOMAIN block = 1..n, NEW times \in [1..n -> Int], NEW k
    PROVE  SPart(block, times, k) \in [1..n -> Int] /\ GPart(block, times, k) \in [1..n -> Int]
BY DEF SPart, GPart

LEMMA CollectParts ==
    ASSUME NEW block, NEW times
    PROVE  /\ Collect(SKeys, SColumns, block, times)
                = [k \in SKeys |-> Total(SPart(block, times, k))]
           /\ Collect(GKeys, GColumns, block, times)
                = [k \in GKeys |-> Total(GPart(block, times, k))]
BY Zenon DEF Collect, SPart, GPart

(* The columns of a block add up. *)
SAddUp(S, floor) == S.all = S.fc + S.matmul + S.comm + S.softmax + S.act + S.norm + floor
GAddUp(G) ==
    /\ G.all = G.fc + G.matmul + G.comm + G.etc + G.softmax
    /\ G.fc = G.ff + G.qkv + G.prj /\ G.comm = G.g2g + G.x2g /\ G.etc = G.act + G.norm
EAddUp(E) ==
    /\ E.all = E.offmem + E.l2 + E.l1 + E.reg + E.alu + E.comm
    /\ E.all = E.fc_mem + E.fc_comp + E.attn_mem + E.attn_comp + E.etc_mem + E.etc_comp
                 + E.comm

LEMMA SOfBlock ==
    ASSUME NEW n \in Nat, NEW block, DOMAIN block = 1..n, NEW times \in [1..n -> Int],
           \A i \in 1..n : block[i].type \in LayerTypes
    PROVE  /\ Collect(SKeys, SColumns, block, times) \in [SKeys -> Int]
           /\ SAddUp(Collect(SKeys, SColumns, block, times), 0)
<1> DEFINE C == Collect(SKeys, SColumns, block, times)
           P(k) == SPart(block, times, k)
           zero == [i \in 1..n |-> 0]
<1>1. C = [k \in SKeys |-> Total(P(k))]
  BY CollectParts
<1>2. \A k \in SKeys : P(k) \in [1..n -> Int]
  BY PartsTyped
<1>3. \A k \in SKeys : Total(P(k)) \in Int
  BY <1>2, TotalType
<1>4. ASSUME NEW i \in 1..n
      PROVE  P("all")[i] = P("fc")[i] + P("matmul")[i] + P("comm")[i] + P("softmax")[i]
                             + P("act")[i] + P("norm")[i] + zero[i]
  <2>1. block[i].type \in LayerTypes /\ times[i] \in Int
    OBVIOUS
  <2> QED
    BY <2>1 DEF LayerTypes, SPart, SColumns, SColumnOf
<1>5. zero \in [1..n -> Int]
  OBVIOUS
<1>6. Total(P("all")) = Total(P("fc")) + Total(P("matmul")) + Total(P("comm"))
        + Total(P("softmax")) + Total(P("act")) + Total(P("norm")) + Total(zero)
  <2> DEFINE p == << P("all"), P("fc"), P("matmul"), P("comm"), P("softmax"), P("act"),
                     P("norm"), zero >>
  <2> HIDE DEF P, zero
  <2>1. p \in [1..8 -> [1..n -> Int]]
    BY <1>2, <1>5 DEF SKeys
  <2>2. \A i \in 1..n : p[1][i] = p[2][i] + p[3][i] + p[4][i] + p[5][i] + p[6][i] + p[7][i]
                                    + p[8][i]
    BY <1>4
  <2>3. /\ P("all") = p[1] /\ P("fc") = p[2] /\ P("matmul") = p[3] /\ P("comm") = p[4]
        /\ P("softmax") = p[5] /\ P("act") = p[6] /\ P("norm") = p[7] /\ zero = p[8]
    OBVIOUS
  <2> HIDE DEF p
  <2> QED
    BY <2>1, <2>2, <2>3, TotalOfSeven
<1>7. Total(zero) = 0
  BY TotalOfZeros
<1>8. C \in [SKeys -> Int]
  BY <1>1, <1>3
<1>9. SAddUp(C, 0)
  <2>1. /\ C.all = Total(P("all")) /\ C.fc = Total(P("fc")) /\ C.matmul = Total(P("matmul"))
        /\ C.comm = Total(P("comm")) /\ C.softmax = Total(P("softmax"))
        /\ C.act = Total(P("act")) /\ C.norm = Total(P("norm"))
    BY <1>1 DEF SKeys
  <2> HIDE DEF C, P, zero
  <2> QED
    BY <1>6, <1>7, <2>1 DEF SAddUp
<1> QED
  BY <1>8, <1>9

LEMMA GOfBlock ==
    ASSUME NEW n \in Nat, NEW block, DOMAIN block = 1..n, NEW times \in [1..n -> Int],
           \A i \in 1..n :
               /\ block[i].type \in LayerTypes
               /\ block[i].type = "FC" => block[i].name \in {"qkv", "proj", "ff1", "ff2", "ff3"}
    PROVE  /\ Collect(GKeys, GColumns, block, times) \in [GKeys -> Int]
           /\ GAddUp(Collect(GKeys, GColumns, block, times))
<1> DEFINE C == Collect(GKeys, GColumns, block, times)
           P(k) == GPart(block, times, k)
           zero == [i \in 1..n |-> 0]
<1>1. C = [k \in GKeys |-> Total(P(k))]
  BY CollectParts
<1>2. \A k \in GKeys : P(k) \in [1..n -> Int]
  BY PartsTyped
<1>3. \A k \in GKeys : Total(P(k)) \in Int
  BY <1>2, TotalType
<1>4. ASSUME NEW i \in 1..n
      PROVE  /\ P("all")[i] = P("fc")[i] + P("matmul")[i] + P("comm")[i] + P("etc")[i]
                                + P("softmax")[i] + zero[i] + zero[i]
             /\ P("fc")[i] = P("ff")[i] + P("qkv")[i] + P("prj")[i]
             /\ P("comm")[i] = P("g2g")[i] + P("x2g")[i]
             /\ P("etc")[i] = P("act")[i] + P("norm")[i]
  <2> DEFINE l == block[i]
  <2>1. l.type \in LayerTypes /\ times[i] \in Int
    OBVIOUS
  <2>2. l.type = "FC" => l.name \in {"qkv", "proj", "ff1", "ff2", "ff3"}
    OBVIOUS
  <2>3. GColumns(l) \in {{"all", "fc", "ff"}, {"all", "fc", "qkv"}, {"all", "fc", "prj"},
                         {"all", "matmul"}, {"all", "comm", "g2g"}, {"all", "comm", "x2g"},
                         {"all", "etc", "act"}, {"all", "etc", "norm"}, {"all", "softmax"}}
    <3> HIDE DEF l
    <3>1. CASE l.type = "FC"
      <4>1. CASE FeedForward(l)
        BY <3>1, <4>1 DEF GColumns, FeedForward
      <4>2. CASE l.name \in {"qkv", "proj"}
        BY <3>1, <4>2 DEF GColumns, FeedForward
      <4> QED
        BY <2>2, <3>1, <4>1, <4>2 DEF FeedForward
    <3>2. CASE l.type # "FC"
      BY <2>1, <3>2 DEF GColumns, LayerTypes
    <3> QED
      BY <3>1, <3>2
  <2> QED
    BY <2>1, <2>3, SMTT(30) DEF GPart
<1>5. zero \in [1..n -> Int] /\ Total(zero) = 0
  BY TotalOfZeros
<1> HIDE DEF P, zero
<1>6. Total(P("all")) = Total(P("fc")) + Total(P("matmul")) + Total(P("comm"))
        + Total(P("etc")) + Total(P("softmax")) + Total(zero) + Total(zero)
  <2> DEFINE p == << P("all"), P("fc"), P("matmul"), P("comm"), P("etc"), P("softmax"), zero,
                     zero >>
  <2>1. p \in [1..8 -> [1..n -> Int]]
    BY <1>2, <1>5 DEF GKeys, SKeys
  <2>2. \A i \in 1..n : p[1][i] = p[2][i] + p[3][i] + p[4][i] + p[5][i] + p[6][i] + p[7][i]
                                    + p[8][i]
    BY <1>4
  <2>3. /\ P("all") = p[1] /\ P("fc") = p[2] /\ P("matmul") = p[3] /\ P("comm") = p[4]
        /\ P("etc") = p[5] /\ P("softmax") = p[6] /\ zero = p[7] /\ zero = p[8]
    OBVIOUS
  <2> HIDE DEF p
  <2> QED
    BY <2>1, <2>2, <2>3, TotalOfSeven
<1>7. Total(P("fc")) = Total(P("ff")) + Total(P("qkv")) + Total(P("prj"))
  <2> DEFINE both == [i \in 1..n |-> P("ff")[i] + P("qkv")[i]]
  <2>1. /\ P("fc") \in [1..n -> Int] /\ P("ff") \in [1..n -> Int]
        /\ P("qkv") \in [1..n -> Int] /\ P("prj") \in [1..n -> Int]
    BY <1>2 DEF GKeys, SKeys
  <2>2. both \in [1..n -> Int] /\ \A i \in 1..n : both[i] = P("ff")[i] + P("qkv")[i]
    BY <2>1
  <2> HIDE DEF both
  <2>3. \A i \in 1..n : P("fc")[i] = both[i] + P("prj")[i]
    BY <1>4, <2>2
  <2>4. Total(both) = Total(P("ff")) + Total(P("qkv"))
    BY <2>1, <2>2, TotalOfSums, ZenonT(60)
  <2>5. Total(P("fc")) = Total(both) + Total(P("prj"))
    BY <2>1, <2>2, <2>3, TotalOfSums
  <2> QED
    BY <2>4, <2>5
<1>8. Total(P("comm")) = Total(P("g2g")) + Total(P("x2g"))
  <2>1. /\ P("comm") \in [1..n -> Int] /\ P("g2g") \in [1..n -> Int]
        /\ P("x2g") \in [1..n -> Int]
    BY <1>2 DEF GKeys, SKeys
  <2> QED
    BY <1>4, <2>1, TotalOfSums
<1>9. Total(P("etc")) = Total(P("act")) + Total(P("norm"))
  <2>1. /\ P("etc") \in [1..n -> Int] /\ P("act") \in [1..n -> Int]
        /\ P("norm") \in [1..n -> Int]
    BY <1>2 DEF GKeys, SKeys
  <2> QED
    BY <1>4, <2>1, TotalOfSums
<1>10. C \in [GKeys -> Int]
  BY <1>1, <1>3
<1>11. GAddUp(C)
  <2>1. /\ C.all = Total(P("all")) /\ C.fc = Total(P("fc")) /\ C.matmul = Total(P("matmul"))
        /\ C.comm = Total(P("comm")) /\ C.etc = Total(P("etc"))
        /\ C.softmax = Total(P("softmax")) /\ C.ff = Total(P("ff")) /\ C.qkv = Total(P("qkv"))
        /\ C.prj = Total(P("prj")) /\ C.g2g = Total(P("g2g")) /\ C.x2g = Total(P("x2g"))
        /\ C.act = Total(P("act")) /\ C.norm = Total(P("norm"))
    BY <1>1 DEF GKeys, SKeys
  <2>2. C.all \in Int /\ C.fc \in Int /\ C.matmul \in Int /\ C.comm \in Int /\ C.etc \in Int
        /\ C.softmax \in Int
    BY <1>10 DEF GKeys, SKeys
  <2> HIDE DEF C
  <2>3. C.all = C.fc + C.matmul + C.comm + C.etc + C.softmax
    BY <1>5, <1>6, <2>1, <2>2
  <2>4. C.fc = C.ff + C.qkv + C.prj
    BY <1>7, <2>1
  <2>5. C.comm = C.g2g + C.x2g /\ C.etc = C.act + C.norm
    BY <1>8, <1>9, <2>1
  <2> QED
    BY <2>3, <2>4, <2>5 DEF GAddUp
<1> QED
  BY <1>10, <1>11

(* What the layers of a block that are priced add to a column of the energy. *)
EPart(k) == [i \in DOMAIN ran |-> EnergyOf(graph[i], ran[i].energy)[k]]

LEMMA EnergyTyped ==
    ASSUME NEW l, l.type \in LayerTypes, NEW e \in [1..6 -> Int],
           l.type \in {"X2G", "G2G"} => \A unit \in 1..5 : e[unit] = 0
    PROVE  EnergyOf(l, e) \in [EKeys -> Int] /\ EAddUp(EnergyOf(l, e))
<1>1. \A i \in 1..6 : e[i] \in Int
  OBVIOUS
<1>2. e[1] \in Int /\ e[2] \in Int /\ e[3] \in Int /\ e[4] \in Int /\ e[5] \in Int /\ e[6] \in Int
  BY <1>1
<1> DEFINE computed == e[2] + e[3] + e[4] + e[5]
           Of(types, amount) == IF l.type \in types THEN amount ELSE 0
<1>3. EnergyOf(l, e)
        = [all |-> e[1] + computed + e[6], offmem |-> e[1], l2 |-> e[2], l1 |-> e[3],
           reg |-> e[4], alu |-> e[5], comm |-> e[6],
           fc_mem |-> Of({"FC"}, e[1]), fc_comp |-> Of({"FC"}, computed),
           attn_mem |-> Of({"MATMUL", "SOFTMAX"}, e[1]),
           attn_comp |-> Of({"MATMUL", "SOFTMAX"}, computed),
           etc_mem |-> Of({"ACT", "NORM"}, e[1]), etc_comp |-> Of({"ACT", "NORM"}, computed)]
  BY DEF EnergyOf
<1>4. EnergyOf(l, e) \in [EKeys -> Int]
  BY <1>2, <1>3 DEF EKeys
<1>5. l.type \in {"X2G", "G2G"} => e[1] = 0 /\ computed = 0
  OBVIOUS
<1>6. computed \in Int
  BY <1>2
<1>7. EAddUp(EnergyOf(l, e))
  <2>1. l.type \in {"X2G", "G2G"} \/ l.type = "FC" \/ l.type \in {"MATMUL", "SOFTMAX"}
        \/ l.type \in {"ACT", "NORM"}
    BY DEF LayerTypes
  <2> HIDE DEF Of
  <2>2. /\ EnergyOf(l, e).all = e[1] + computed + e[6]
        /\ EnergyOf(l, e).offmem = e[1] /\ EnergyOf(l, e).l2 = e[2]
        /\ EnergyOf(l, e).l1 = e[3] /\ EnergyOf(l, e).reg = e[4]
        /\ EnergyOf(l, e).alu = e[5] /\ EnergyOf(l, e).comm = e[6]
        /\ EnergyOf(l, e).fc_mem = Of({"FC"}, e[1])
        /\ EnergyOf(l, e).fc_comp = Of({"FC"}, computed)
        /\ EnergyOf(l, e).attn_mem = Of({"MATMUL", "SOFTMAX"}, e[1])
        /\ EnergyOf(l, e).attn_comp = Of({"MATMUL", "SOFTMAX"}, computed)
        /\ EnergyOf(l, e).etc_mem = Of({"ACT", "NORM"}, e[1])
        /\ EnergyOf(l, e).etc_comp = Of({"ACT", "NORM"}, computed)
    BY <1>3
  <2>3. e[1] + computed + e[6] = e[1] + e[2] + e[3] + e[4] + e[5] + e[6]
    BY <1>2
  <2>4. e[1] + computed + e[6]
          = Of({"FC"}, e[1]) + Of({"FC"}, computed) + Of({"MATMUL", "SOFTMAX"}, e[1])
              + Of({"MATMUL", "SOFTMAX"}, computed) + Of({"ACT", "NORM"}, e[1])
              + Of({"ACT", "NORM"}, computed) + e[6]
    <3> HIDE DEF computed
    <3> QED
      BY <1>2, <1>5, <1>6, <2>1 DEF Of
  <2> HIDE DEF computed
  <2> QED
    BY <2>2, <2>3, <2>4 DEF EAddUp
<1> QED
  BY <1>4, <1>7

LEMMA EOfBlock ==
    ASSUME Inv, pc \in Pricing
    PROVE  BlockEnergy \in [EKeys -> Int] /\ EAddUp(BlockEnergy)
<1> DEFINE n == Len(ran)
           zero == [i \in 1..n |-> 0]
<1>1. /\ n \in Nat /\ DOMAIN ran = 1..n
      /\ \A i \in 1..n : /\ ran[i].energy \in [1..6 -> Int] /\ graph[i].type \in LayerTypes
                         /\ graph[i].type \in {"X2G", "G2G"} =>
                                \A unit \in 1..5 : ran[i].energy[unit] = 0
  <2>1. /\ graph \in Seq(Elements(graph)) /\ ran \in Seq(Answers) /\ Len(ran) <= Len(graph)
        /\ \A i \in 1..Len(ran) : Fitting(graph[i], ran[i], xpus)
    BY BlockOfInv DEF Inv, Running, PricedWell
  <2>2. ASSUME NEW i \in 1..n
        PROVE  /\ ran[i].energy \in [1..6 -> Int] /\ graph[i].type \in LayerTypes
               /\ graph[i].type \in {"X2G", "G2G"} => \A unit \in 1..5 : ran[i].energy[unit] = 0
    <3>1. ran[i] \in Answers /\ i \in DOMAIN graph
      BY <2>1
    <3>2. graph[i] \in Elements(graph)
      BY <3>1 DEF Elements
    <3>3. graph[i].type \in LayerTypes
      BY <3>2, BlockOfInv
    <3>4. ran[i].energy \in [1..6 -> Nat]
      BY <3>1 DEF Answers
    <3>5. ran[i].energy \in [1..6 -> Int]
      BY <3>4
    <3> QED
      BY <2>1, <3>3, <3>5 DEF Fitting
  <2> QED
    BY <2>1, <2>2
<1>2. \A i \in 1..n : /\ EnergyOf(graph[i], ran[i].energy) \in [EKeys -> Int]
                      /\ EAddUp(EnergyOf(graph[i], ran[i].energy))
  BY <1>1, EnergyTyped
<1>3. BlockEnergy = [k \in EKeys |-> Total(EPart(k))]
  BY Zenon DEF BlockEnergy, EPart
<1>4. \A k \in EKeys : EPart(k) \in [1..n -> Int]
  BY <1>1, <1>2 DEF EPart
<1> HIDE DEF n
<1>5. \A k \in EKeys : Total(EPart(k)) \in Int
  BY <1>1, <1>4, TotalType
<1>6. BlockEnergy \in [EKeys -> Int]
  BY <1>3, <1>5
<1>7. zero \in [1..n -> Int] /\ Total(zero) = 0 /\ \A i \in 1..n : zero[i] = 0
  BY <1>1, TotalOfZeros
<1>8. \A i \in 1..n : \A k \in EKeys : EPart(k)[i] = EnergyOf(graph[i], ran[i].energy)[k]
  BY <1>1 DEF EPart
<1> HIDE DEF zero
<1>9. \A i \in 1..n :
        /\ EPart("all")[i] = EPart("offmem")[i] + EPart("l2")[i] + EPart("l1")[i]
                               + EPart("reg")[i] + EPart("alu")[i] + EPart("comm")[i] + zero[i]
        /\ EPart("all")[i] = EPart("fc_mem")[i] + EPart("fc_comp")[i] + EPart("attn_mem")[i]
                               + EPart("attn_comp")[i] + EPart("etc_mem")[i]
                               + EPart("etc_comp")[i] + EPart("comm")[i]
  <2> TAKE i \in 1..n
  <2> DEFINE E == EnergyOf(graph[i], ran[i].energy)
  <2>1. E \in [EKeys -> Int] /\ EAddUp(E)
    BY <1>2
  <2>2. \A k \in EKeys : EPart(k)[i] = E[k]
    BY <1>8
  <2> HIDE DEF E
  <2>3. /\ EPart("all")[i] = E.all /\ EPart("offmem")[i] = E.offmem /\ EPart("l2")[i] = E.l2
        /\ EPart("l1")[i] = E.l1 /\ EPart("reg")[i] = E.reg /\ EPart("alu")[i] = E.alu
        /\ EPart("comm")[i] = E.comm /\ EPart("fc_mem")[i] = E.fc_mem
        /\ EPart("fc_comp")[i] = E.fc_comp /\ EPart("attn_mem")[i] = E.attn_mem
        /\ EPart("attn_comp")[i] = E.attn_comp /\ EPart("etc_mem")[i] = E.etc_mem
        /\ EPart("etc_comp")[i] = E.etc_comp
    BY <2>2 DEF EKeys
  <2>4. E.all \in Int /\ E.offmem \in Int /\ E.l2 \in Int /\ E.l1 \in Int /\ E.reg \in Int
        /\ E.alu \in Int /\ E.comm \in Int
    BY <2>1 DEF EKeys
  <2> QED
    BY <1>7, <2>1, <2>3, <2>4 DEF EAddUp
<1>10. Total(EPart("all")) = Total(EPart("offmem")) + Total(EPart("l2")) + Total(EPart("l1"))
         + Total(EPart("reg")) + Total(EPart("alu")) + Total(EPart("comm")) + Total(zero)
  <2> DEFINE p == << EPart("all"), EPart("offmem"), EPart("l2"), EPart("l1"), EPart("reg"),
                     EPart("alu"), EPart("comm"), zero >>
  <2>1. p \in [1..8 -> [1..n -> Int]]
    BY <1>4, <1>7 DEF EKeys
  <2>2. \A i \in 1..n : p[1][i] = p[2][i] + p[3][i] + p[4][i] + p[5][i] + p[6][i] + p[7][i]
                                    + p[8][i]
    BY <1>9
  <2>3. /\ EPart("all") = p[1] /\ EPart("offmem") = p[2] /\ EPart("l2") = p[3]
        /\ EPart("l1") = p[4] /\ EPart("reg") = p[5] /\ EPart("alu") = p[6]
        /\ EPart("comm") = p[7] /\ zero = p[8]
    OBVIOUS
  <2> HIDE DEF p
  <2> QED
    BY <1>1, <2>1, <2>2, <2>3, TotalOfSeven
<1>11. Total(EPart("all")) = Total(EPart("fc_mem")) + Total(EPart("fc_comp"))
         + Total(EPart("attn_mem")) + Total(EPart("attn_comp")) + Total(EPart("etc_mem"))
         + Total(EPart("etc_comp")) + Total(EPart("comm"))
  <2> DEFINE p == << EPart("all"), EPart("fc_mem"), EPart("fc_comp"), EPart("attn_mem"),
                     EPart("attn_comp"), EPart("etc_mem"), EPart("etc_comp"), EPart("comm") >>
  <2>1. p \in [1..8 -> [1..n -> Int]]
    BY <1>4 DEF EKeys
  <2>2. \A i \in 1..n : p[1][i] = p[2][i] + p[3][i] + p[4][i] + p[5][i] + p[6][i] + p[7][i]
                                    + p[8][i]
    BY <1>9
  <2>3. /\ EPart("all") = p[1] /\ EPart("fc_mem") = p[2] /\ EPart("fc_comp") = p[3]
        /\ EPart("attn_mem") = p[4] /\ EPart("attn_comp") = p[5] /\ EPart("etc_mem") = p[6]
        /\ EPart("etc_comp") = p[7] /\ EPart("comm") = p[8]
    OBVIOUS
  <2> HIDE DEF p
  <2> QED
    BY <1>1, <2>1, <2>2, <2>3, TotalOfSeven
<1>12. EAddUp(BlockEnergy)
  <2> DEFINE E == BlockEnergy
  <2>1. \A k \in EKeys : E[k] = Total(EPart(k)) /\ E[k] \in Int
    BY <1>3, <1>5
  <2> HIDE DEF E
  <2>2. /\ E.all = Total(EPart("all")) /\ E.offmem = Total(EPart("offmem"))
        /\ E.l2 = Total(EPart("l2")) /\ E.l1 = Total(EPart("l1")) /\ E.reg = Total(EPart("reg"))
        /\ E.alu = Total(EPart("alu")) /\ E.comm = Total(EPart("comm"))
        /\ E.fc_mem = Total(EPart("fc_mem")) /\ E.fc_comp = Total(EPart("fc_comp"))
        /\ E.attn_mem = Total(EPart("attn_mem")) /\ E.attn_comp = Total(EPart("attn_comp"))
        /\ E.etc_mem = Total(EPart("etc_mem")) /\ E.etc_comp = Total(EPart("etc_comp"))
    BY <2>1 DEF EKeys
  <2>3. E.offmem \in Int /\ E.l2 \in Int /\ E.l1 \in Int /\ E.reg \in Int /\ E.alu \in Int
        /\ E.comm \in Int
    BY <2>1 DEF EKeys
  <2>4. E.all = E.offmem + E.l2 + E.l1 + E.reg + E.alu + E.comm
    BY <1>7, <1>10, <2>2, <2>3
  <2>5. E.all = E.fc_mem + E.fc_comp + E.attn_mem + E.attn_comp + E.etc_mem + E.etc_comp + E.comm
    BY <1>11, <2>2
  <2> QED
    BY <2>4, <2>5 DEF EAddUp, E
<1> QED
  BY <1>6, <1>12

(* Columns that add up still do when others that do are added, count times. *)
LEMMA AccumulateTyped ==
    ASSUME NEW keys, NEW dst \in [keys -> Int], NEW src \in [keys -> Int], NEW count \in Int
    PROVE  /\ Accumulate(dst, src, count) \in [keys -> Int]
           /\ \A k \in keys : Accumulate(dst, src, count)[k] = dst[k] + src[k] * count
BY DEF Accumulate

LEMMA SAccumulates ==
    ASSUME NEW floor \in Int, NEW dst \in [SKeys -> Int], NEW src \in [SKeys -> Int],
           NEW count \in Int, SAddUp(dst, floor), SAddUp(src, 0)
    PROVE  SAddUp(Accumulate(dst, src, count), floor)
<1> DEFINE C == Accumulate(dst, src, count)
           m == [k \in SKeys |-> src[k] * count]
<1>1. /\ C.all = dst.all + m.all /\ C.fc = dst.fc + m.fc /\ C.matmul = dst.matmul + m.matmul
      /\ C.comm = dst.comm + m.comm /\ C.softmax = dst.softmax + m.softmax
      /\ C.act = dst.act + m.act /\ C.norm = dst.norm + m.norm
  BY DEF Accumulate, SKeys
<1>2. /\ dst.all \in Int /\ dst.fc \in Int /\ dst.matmul \in Int /\ dst.comm \in Int
      /\ dst.softmax \in Int /\ dst.act \in Int /\ dst.norm \in Int
  BY DEF SKeys
<1>3. /\ src.all \in Int /\ src.fc \in Int /\ src.matmul \in Int /\ src.comm \in Int
      /\ src.softmax \in Int /\ src.act \in Int /\ src.norm \in Int
  BY DEF SKeys
<1>4. /\ m.all = src.all * count /\ m.fc = src.fc * count /\ m.matmul = src.matmul * count
      /\ m.comm = src.comm * count /\ m.softmax = src.softmax * count
      /\ m.act = src.act * count /\ m.norm = src.norm * count
  BY DEF SKeys
<1>5. /\ m.all \in Int /\ m.fc \in Int /\ m.matmul \in Int /\ m.comm \in Int
      /\ m.softmax \in Int /\ m.act \in Int /\ m.norm \in Int
  BY <1>3, <1>4
<1> HIDE DEF C, m
<1>6. C.all = C.fc + C.matmul + C.comm + C.softmax + C.act + C.norm + floor
  <2>1. src.all = src.fc + src.matmul + src.comm + src.softmax + src.act + src.norm
    BY <1>3 DEF SAddUp
  <2>2. dst.all = dst.fc + dst.matmul + dst.comm + dst.softmax + dst.act + dst.norm + floor
    BY DEF SAddUp
  <2>3. m.all = m.fc + m.matmul + m.comm + m.softmax + m.act + m.norm
    BY <1>3, <1>4, <2>1
  <2> QED
    BY <1>1, <1>2, <1>5, <2>2, <2>3
<1> QED
  BY <1>6 DEF SAddUp, C

LEMMA GAccumulates ==
    ASSUME NEW dst \in [GKeys -> Int], NEW src \in [GKeys -> Int],
           NEW count \in Int, GAddUp(dst), GAddUp(src)
    PROVE  GAddUp(Accumulate(dst, src, count))
<1> DEFINE C == Accumulate(dst, src, count)
           m == [k \in GKeys |-> src[k] * count]
<1>1. /\ C.all = dst.all + m.all /\ C.fc = dst.fc + m.fc /\ C.matmul = dst.matmul + m.matmul
      /\ C.comm = dst.comm + m.comm /\ C.etc = dst.etc + m.etc
      /\ C.softmax = dst.softmax + m.softmax /\ C.ff = dst.ff + m.ff /\ C.qkv = dst.qkv + m.qkv
      /\ C.prj = dst.prj + m.prj /\ C.g2g = dst.g2g + m.g2g /\ C.x2g = dst.x2g + m.x2g
      /\ C.act = dst.act + m.act /\ C.norm = dst.norm + m.norm
  BY DEF Accumulate, GKeys, SKeys
<1>2. /\ dst.all \in Int /\ dst.fc \in Int /\ dst.matmul \in Int /\ dst.comm \in Int
      /\ dst.etc \in Int /\ dst.softmax \in Int /\ dst.ff \in Int /\ dst.qkv \in Int
      /\ dst.prj \in Int /\ dst.g2g \in Int /\ dst.x2g \in Int /\ dst.act \in Int
      /\ dst.norm \in Int
  BY DEF GKeys, SKeys
<1>3. /\ src.all \in Int /\ src.fc \in Int /\ src.matmul \in Int /\ src.comm \in Int
      /\ src.etc \in Int /\ src.softmax \in Int /\ src.ff \in Int /\ src.qkv \in Int
      /\ src.prj \in Int /\ src.g2g \in Int /\ src.x2g \in Int /\ src.act \in Int
      /\ src.norm \in Int
  BY DEF GKeys, SKeys
<1>4. /\ m.all = src.all * count /\ m.fc = src.fc * count /\ m.matmul = src.matmul * count
      /\ m.comm = src.comm * count /\ m.etc = src.etc * count
      /\ m.softmax = src.softmax * count /\ m.ff = src.ff * count /\ m.qkv = src.qkv * count
      /\ m.prj = src.prj * count /\ m.g2g = src.g2g * count /\ m.x2g = src.x2g * count
      /\ m.act = src.act * count /\ m.norm = src.norm * count
  BY DEF GKeys, SKeys
<1>5. /\ m.all \in Int /\ m.fc \in Int /\ m.matmul \in Int /\ m.comm \in Int /\ m.etc \in Int
      /\ m.softmax \in Int /\ m.ff \in Int /\ m.qkv \in Int /\ m.prj \in Int /\ m.g2g \in Int
      /\ m.x2g \in Int /\ m.act \in Int /\ m.norm \in Int
  BY <1>3, <1>4
<1> HIDE DEF C, m
<1>6. C.all = C.fc + C.matmul + C.comm + C.etc + C.softmax
  <2>1. src.all = src.fc + src.matmul + src.comm + src.etc + src.softmax
    BY DEF GAddUp
  <2>2. dst.all = dst.fc + dst.matmul + dst.comm + dst.etc + dst.softmax
    BY DEF GAddUp
  <2>3. m.all = m.fc + m.matmul + m.comm + m.etc + m.softmax
    BY <1>3, <1>4, <2>1
  <2> QED
    BY <1>1, <1>2, <1>5, <2>2, <2>3
<1>7. C.fc = C.ff + C.qkv + C.prj
  <2>1. src.fc = src.ff + src.qkv + src.prj
    BY DEF GAddUp
  <2>2. dst.fc = dst.ff + dst.qkv + dst.prj
    BY DEF GAddUp
  <2>3. m.fc = m.ff + m.qkv + m.prj
    BY <1>3, <1>4, <2>1
  <2> QED
    BY <1>1, <1>2, <1>5, <2>2, <2>3
<1>8. C.comm = C.g2g + C.x2g
  <2>1. src.comm = src.g2g + src.x2g
    BY DEF GAddUp
  <2>2. dst.comm = dst.g2g + dst.x2g
    BY DEF GAddUp
  <2>3. m.comm = m.g2g + m.x2g
    BY <1>3, <1>4, <2>1
  <2> QED
    BY <1>1, <1>2, <1>5, <2>2, <2>3
<1>9. C.etc = C.act + C.norm
  <2>1. src.etc = src.act + src.norm
    BY DEF GAddUp
  <2>2. dst.etc = dst.act + dst.norm
    BY DEF GAddUp
  <2>3. m.etc = m.act + m.norm
    BY <1>3, <1>4, <2>1
  <2> QED
    BY <1>1, <1>2, <1>5, <2>2, <2>3
<1> QED
  BY <1>6, <1>7, <1>8, <1>9 DEF GAddUp, C

LEMMA EAccumulates ==
    ASSUME NEW dst \in [EKeys -> Int], NEW src \in [EKeys -> Int],
           NEW count \in Int, EAddUp(dst), EAddUp(src)
    PROVE  EAddUp(Accumulate(dst, src, count))
<1> DEFINE C == Accumulate(dst, src, count)
           m == [k \in EKeys |-> src[k] * count]
<1>1. /\ C.all = dst.all + m.all /\ C.offmem = dst.offmem + m.offmem /\ C.l2 = dst.l2 + m.l2
      /\ C.l1 = dst.l1 + m.l1 /\ C.reg = dst.reg + m.reg /\ C.alu = dst.alu + m.alu
      /\ C.comm = dst.comm + m.comm /\ C.fc_mem = dst.fc_mem + m.fc_mem
      /\ C.fc_comp = dst.fc_comp + m.fc_comp /\ C.attn_mem = dst.attn_mem + m.attn_mem
      /\ C.attn_comp = dst.attn_comp + m.attn_comp /\ C.etc_mem = dst.etc_mem + m.etc_mem
      /\ C.etc_comp = dst.etc_comp + m.etc_comp
  BY DEF Accumulate, EKeys
<1>2. /\ dst.all \in Int /\ dst.offmem \in Int /\ dst.l2 \in Int /\ dst.l1 \in Int
      /\ dst.reg \in Int /\ dst.alu \in Int /\ dst.comm \in Int /\ dst.fc_mem \in Int
      /\ dst.fc_comp \in Int /\ dst.attn_mem \in Int /\ dst.attn_comp \in Int
      /\ dst.etc_mem \in Int /\ dst.etc_comp \in Int
  BY DEF EKeys
<1>3. /\ src.all \in Int /\ src.offmem \in Int /\ src.l2 \in Int /\ src.l1 \in Int
      /\ src.reg \in Int /\ src.alu \in Int /\ src.comm \in Int /\ src.fc_mem \in Int
      /\ src.fc_comp \in Int /\ src.attn_mem \in Int /\ src.attn_comp \in Int
      /\ src.etc_mem \in Int /\ src.etc_comp \in Int
  BY DEF EKeys
<1>4. /\ m.all = src.all * count /\ m.offmem = src.offmem * count /\ m.l2 = src.l2 * count
      /\ m.l1 = src.l1 * count /\ m.reg = src.reg * count /\ m.alu = src.alu * count
      /\ m.comm = src.comm * count /\ m.fc_mem = src.fc_mem * count
      /\ m.fc_comp = src.fc_comp * count /\ m.attn_mem = src.attn_mem * count
      /\ m.attn_comp = src.attn_comp * count /\ m.etc_mem = src.etc_mem * count
      /\ m.etc_comp = src.etc_comp * count
  BY DEF EKeys
<1>5. /\ m.all \in Int /\ m.offmem \in Int /\ m.l2 \in Int /\ m.l1 \in Int /\ m.reg \in Int
      /\ m.alu \in Int /\ m.comm \in Int /\ m.fc_mem \in Int /\ m.fc_comp \in Int
      /\ m.attn_mem \in Int /\ m.attn_comp \in Int /\ m.etc_mem \in Int /\ m.etc_comp \in Int
  BY <1>3, <1>4
<1> HIDE DEF C, m
<1>6. C.all = C.offmem + C.l2 + C.l1 + C.reg + C.alu + C.comm
  <2>1. src.all = src.offmem + src.l2 + src.l1 + src.reg + src.alu + src.comm
    BY DEF EAddUp
  <2>2. dst.all = dst.offmem + dst.l2 + dst.l1 + dst.reg + dst.alu + dst.comm
    BY DEF EAddUp
  <2>3. m.all = m.offmem + m.l2 + m.l1 + m.reg + m.alu + m.comm
    BY <1>3, <1>4, <2>1
  <2> QED
    BY <1>1, <1>2, <1>5, <2>2, <2>3
<1>7. C.all = C.fc_mem + C.fc_comp + C.attn_mem + C.attn_comp + C.etc_mem + C.etc_comp + C.comm
  <2>1. src.all = src.fc_mem + src.fc_comp + src.attn_mem + src.attn_comp + src.etc_mem + src.etc_comp + src.comm
    BY DEF EAddUp
  <2>2. dst.all = dst.fc_mem + dst.fc_comp + dst.attn_mem + dst.attn_comp + dst.etc_mem + dst.etc_comp + dst.comm
    BY DEF EAddUp
  <2>3. m.all = m.fc_mem + m.fc_comp + m.attn_mem + m.attn_comp + m.etc_mem + m.etc_comp + m.comm
    BY <1>3, <1>4, <2>1
  <2> QED
    BY <1>1, <1>2, <1>5, <2>2, <2>3
<1> QED
  BY <1>6, <1>7 DEF EAddUp, C

----------------------------------------------------------------------------
(* What overlaps.                                                          *)

LEMMA QuotientTyped == \A a \in Int : \A b \in Nat \ {0} : a \div b \in Int
OBVIOUS

LEMMA ByEfficiencyTyped ==
    ASSUME NEW t \in Int, NEW heads \in Int, NEW batch
    PROVE  ByEfficiency(t, heads, batch) \in Int
<1> DEFINE perHbm == CeilDiv(heads, Hbms)
           stacks5 == IF perHbm <= 1 THEN 7 * Hbms ELSE 5 * Hbms * perHbm
<1>1. Hbms \in Nat \ {0}
  BY CallsAssumption
<1>2. perHbm \in Int
  BY <1>1 DEF CeilDiv
<1>3. stacks5 \in Int
  BY <1>1, <1>2
<1>4. ByEfficiency(t, heads, batch)
        = IF batch >= 2 \/ heads <= 0 \/ stacks5 <= 5 * heads THEN t
          ELSE (t * stacks5) \div (5 * heads)
  BY DEF ByEfficiency
<1> HIDE DEF stacks5
<1>5. ~(heads <= 0) => 5 * heads \in Nat \ {0}
  OBVIOUS
<1>6. t * stacks5 \in Int
  BY <1>3
<1> QED
  BY <1>4, <1>5, <1>6, QuotientTyped

LEMMA ApplyEffLatTyped ==
    ASSUME NEW n \in Nat, NEW block, DOMAIN block = 1..n, NEW times \in [1..n -> Int],
           \A i \in 1..n : block[i].pim \in Int, \E i \in 1..n : block[i].name = "score"
    PROVE  /\ ApplyEffLat(block, times) \in [1..n -> Int]
           /\ \A i \in 1..n : block[i].name \notin {"score", "softmax", "context"} =>
                  ApplyEffLat(block, times)[i] = times[i]
<1> DEFINE scores == CHOOSE l \in {block[i] : i \in DOMAIN block} : l.name = "score"
           heads == scores.pim
<1>1. scores \in {block[i] : i \in DOMAIN block}
  OBVIOUS
<1>2. heads \in Int
  BY <1>1
<1> HIDE DEF heads
<1>3. \A i \in 1..n : ByEfficiency(times[i], heads, call.batch) \in Int
  BY <1>2, ByEfficiencyTyped
<1>4. ApplyEffLat(block, times)
        = [i \in DOMAIN times |-> IF block[i].name \in {"score", "softmax", "context"}
                                  THEN ByEfficiency(times[i], heads, call.batch) ELSE times[i]]
  BY Zenon DEF ApplyEffLat, heads
<1> QED
  BY <1>3, <1>4

LEMMA FfParallelTyped ==
    ASSUME NEW n \in Nat, NEW block, NEW times \in [1..n -> Int], NEW bounds,
           call.batch \in Nat \ {0}
    PROVE  /\ FfParallel(block, times, bounds) \in [1..n -> Int]
           /\ \A i \in 1..n : ~FeedForward(block[i]) =>
                  FfParallel(block, times, bounds)[i] = times[i]
<1>1. ASSUME NEW t \in Int, NEW bound PROVE FfShare(bound, t) \in Int
  <2>1. GpuFlops \in Nat \ {0} /\ GpuBandwidth \in Nat \ {0} /\ AccBandwidth \in Nat \ {0}
    BY CallsAssumption
  <2>2. t * GpuFlops \in Int /\ GpuFlops + AccBandwidth \in Nat \ {0}
    BY <2>1
  <2>3. GpuBandwidth * call.batch \in Nat \ {0}
    BY <2>1
  <2>4. t * GpuBandwidth * call.batch \in Int
        /\ GpuBandwidth * call.batch + AccBandwidth \in Nat \ {0}
    BY <2>1, <2>3
  <2>5. /\ (t * GpuFlops) \div (GpuFlops + AccBandwidth) \in Int
        /\ (t * GpuBandwidth * call.batch) \div (GpuBandwidth * call.batch + AccBandwidth) \in Int
    BY <2>2, <2>4, QuotientTyped
  <2> QED
    BY <2>5 DEF FfShare
<1>2. \A i \in 1..n : FfShare(bounds[i], times[i]) \in Int
  BY <1>1
<1> QED
  BY <1>2 DEF FfParallel

LEMMA PipelineTyped ==
    ASSUME NEW n \in Nat, NEW block, DOMAIN block = 1..n, NEW times \in [1..n -> Int],
           NEW level \in BOOLEAN, shard.info.kv \in Nat, xpus \in Nat \ {0}
    PROVE  /\ Pipeline(block, times, level) \in [1..n -> Int]
           /\ \A i \in 1..n : block[i].name \notin {"qkv", "proj", "softmax"}
                                /\ block[i].type # "X2G" =>
                  Pipeline(block, times, level)[i] = times[i]
<1> DEFINE Named(name) == Total([i \in DOMAIN block |-> IF block[i].name = name THEN times[i] ELSE 0])
           heads == Most(1, shard.info.kv \div xpus)
           attn == Named("score") + Named("context") + Named("softmax")
           fc == Named("qkv") + Named("proj")
           x2g == Total([i \in DOMAIN block |-> IF block[i].type = "X2G" THEN times[i] ELSE 0])
           moves == Cardinality({i \in DOMAIN block : block[i].type = "X2G"})
           Share(t) == t \div heads
           Hidden(num, den) == (attn * (heads - 1) * num) \div (heads * den)
           hideFc == level /\ attn > fc
           fcLonger == level /\ attn <= fc /\ fc > x2g
           x2gLonger == level /\ attn <= fc /\ fc <= x2g
           After(l, t) ==
               CASE l.name = "qkv" ->
                        IF hideFc \/ x2gLonger THEN Share(t)
                        ELSE IF fcLonger THEN t - Hidden(3, 4) ELSE t
                 [] l.name = "proj" ->
                        IF hideFc \/ x2gLonger THEN Share(t)
                        ELSE IF fcLonger THEN t - Hidden(1, 4) ELSE t
                 [] l.type = "X2G" ->
                        (IF fcLonger \/ (attn > x2g /\ ~x2gLonger) THEN Share(x2g)
                         ELSE x2g - Hidden(1, 1)) \div Most(1, moves)
                 [] l.name = "softmax" -> 0
                 [] OTHER -> t
<1>1. Pipeline(block, times, level) = [i \in DOMAIN times |-> After(block[i], times[i])]
  BY Zenon DEF Pipeline
<1>2. heads \in Nat \ {0}
  BY DEF Most
<1>3. ASSUME NEW name PROVE Named(name) \in Int
  <2>1. [i \in DOMAIN block |-> IF block[i].name = name THEN times[i] ELSE 0] \in [1..n -> Int]
    OBVIOUS
  <2> QED
    BY <2>1, TotalType
<1>4. attn \in Int /\ fc \in Int
  <2> HIDE DEF Named
  <2> QED
    BY <1>3
<1>5. x2g \in Int
  <2>1. [i \in DOMAIN block |-> IF block[i].type = "X2G" THEN times[i] ELSE 0] \in [1..n -> Int]
    OBVIOUS
  <2> QED
    BY <2>1, TotalType
<1>6. moves \in Nat /\ Most(1, moves) \in Nat \ {0}
  <2> DEFINE D == {i \in DOMAIN block : block[i].type = "X2G"}
  <2>1. IsFiniteSet(1..n) /\ D \subseteq 1..n
    BY FS_Interval
  <2>2. IsFiniteSet(D)
    BY <2>1, FS_Subset
  <2>3. Cardinality(D) \in Nat
    BY <2>2, FS_CardinalityType
  <2> HIDE DEF D
  <2>4. moves = Cardinality(D)
    BY DEF D
  <2> HIDE DEF moves
  <2> QED
    BY <2>3, <2>4 DEF Most
<1> HIDE DEF heads, attn, fc, x2g, moves
<1>7. \A t \in Int : Share(t) \in Int
  BY <1>2, QuotientTyped
<1>8. Hidden(3, 4) \in Int /\ Hidden(1, 4) \in Int /\ Hidden(1, 1) \in Int
  <2>1. attn * (heads - 1) \in Int
    BY <1>2, <1>4
  <2>2. ASSUME NEW num \in Nat, NEW den \in Nat \ {0} PROVE Hidden(num, den) \in Int
    <3>1. attn * (heads - 1) * num \in Int /\ heads * den \in Nat \ {0}
      BY <1>2, <2>1
    <3> QED
      BY <3>1, QuotientTyped
  <2> HIDE DEF Hidden
  <2> QED
    BY <2>2
<1> HIDE DEF Share, Hidden, hideFc, fcLonger, x2gLonger
<1>9. (IF fcLonger \/ (attn > x2g /\ ~x2gLonger) THEN Share(x2g) ELSE x2g - Hidden(1, 1))
         \div Most(1, moves) \in Int
  <2>1. (IF fcLonger \/ (attn > x2g /\ ~x2gLonger) THEN Share(x2g) ELSE x2g - Hidden(1, 1)) \in Int
    <3>1. Share(x2g) \in Int
      BY <1>5, <1>7, Zenon
    <3>2. x2g - Hidden(1, 1) \in Int
      BY <1>5, <1>8
    <3> DEFINE hidden == fcLonger \/ (attn > x2g /\ ~x2gLonger)
    <3> HIDE DEF hidden
    <3>3. (IF hidden THEN Share(x2g) ELSE x2g - Hidden(1, 1)) \in Int
      BY <3>1, <3>2
    <3> QED
      BY <3>3 DEF hidden
  <2> QED
    BY <1>6, <2>1, QuotientTyped
<1>10. \A i \in 1..n : After(block[i], times[i]) \in Int
  BY <1>7, <1>8, <1>9
<1>11. \A i \in 1..n : block[i].name \notin {"qkv", "proj", "softmax"} /\ block[i].type # "X2G"
           => After(block[i], times[i]) = times[i]
  OBVIOUS
<1> HIDE DEF After
<1> QED
  BY <1>1, <1>10, <1>11

(* The layers of a block that is priced. *)
LEMMA BlockAnswered ==
    ASSUME Inv, pc \in Pricing, Len(ran) = Len(graph)
    PROVE  /\ Len(graph) \in Nat /\ DOMAIN graph = 1..Len(graph) /\ DOMAIN ran = 1..Len(graph)
           /\ Times \in [1..Len(graph) -> Int]
           /\ \A i \in 1..Len(graph) :
                  /\ graph[i].type \in LayerTypes
                  /\ graph[i].type = "NORM" => Times[i] = Cost("gpu", xpus, graph[i]).time
           /\ pc # "vision" =>
                  /\ \A i \in 1..Len(graph) :
                         /\ graph[i].pim \in Int
                         /\ graph[i].type = "FC" => graph[i].name \in {"qkv", "proj", "ff1", "ff2", "ff3"}
                         /\ graph[i].type = "NORM" => graph[i].name \in {"norm1", "norm2"}
                  /\ \E i \in 1..Len(graph) : graph[i].name = "score"
<1> DEFINE n == Len(graph)
<1>1. /\ graph \in Seq(Elements(graph)) /\ ran \in Seq(Answers)
      /\ \A i \in 1..Len(ran) : Fitting(graph[i], ran[i], xpus)
  BY BlockOfInv DEF Inv, Running, PricedWell
<1>2. n \in Nat /\ DOMAIN graph = 1..n /\ DOMAIN ran = 1..n
  BY <1>1
<1>3. ASSUME NEW i \in 1..n
      PROVE  /\ ran[i].time \in Int /\ graph[i].type \in LayerTypes
             /\ graph[i].type = "NORM" => ran[i].time = Cost("gpu", xpus, graph[i]).time
  <2>1. ran[i] \in Answers /\ graph[i] \in Elements(graph)
    BY <1>1, <1>2 DEF Elements
  <2>2. ran[i].time \in Int
    BY <2>1 DEF Answers
  <2>3. graph[i].type \in LayerTypes
    BY <2>1, BlockOfInv
  <2>4. Fitting(graph[i], ran[i], xpus)
    BY <1>1
  <2> QED
    BY <2>2, <2>3, <2>4 DEF Fitting
<1>4. Times \in [1..n -> Int] /\ \A i \in 1..n : Times[i] = ran[i].time
  BY <1>2, <1>3 DEF Times
<1>5. ASSUME pc # "vision"
      PROVE  /\ \A i \in 1..n :
                    /\ graph[i].pim \in Int
                    /\ graph[i].type = "FC" => graph[i].name \in {"qkv", "proj", "ff1", "ff2", "ff3"}
                    /\ graph[i].type = "NORM" => graph[i].name \in {"norm1", "norm2"}
             /\ \E i \in 1..n : graph[i].name = "score"
  <2>1. PICK keys : graph \in Seq(DecoderLayers(keys))
    BY <1>5, BlockOfInv DEF Pricing
  <2>2. ASSUME NEW i \in 1..n
        PROVE  /\ graph[i].pim \in Int
               /\ graph[i].type = "FC" => graph[i].name \in {"qkv", "proj", "ff1", "ff2", "ff3"}
               /\ graph[i].type = "NORM" => graph[i].name \in {"norm1", "norm2"}
    <3>1. graph[i] \in DecoderLayers(keys)
      BY <1>2, <2>1
    <3> QED
      BY <3>1 DEF DecoderLayers, Layers
  <2>3. \E l \in Elements(graph) : l.name = "score"
    BY <1>5, BlockOfInv
  <2> QED
    BY <1>2, <2>2, <2>3 DEF Elements
<1> QED
  BY <1>2, <1>3, <1>4, <1>5

PromptTimes == IF Device = "pim" THEN ApplyEffLat(graph, Times) ELSE Times

LEMMA PromptTyped ==
    ASSUME Inv, pc = "sum", Len(ran) = Len(graph)
    PROVE  /\ PromptTimes \in [1..Len(graph) -> Int]
           /\ \A i \in 1..Len(graph) :
                  graph[i].type = "NORM" => PromptTimes[i] = Cost("gpu", xpus, graph[i]).time
<1> DEFINE n == Len(graph)
<1>1. pc \in Pricing
  BY DEF Pricing
<1>2. /\ n \in Nat /\ DOMAIN graph = 1..n /\ Times \in [1..n -> Int]
      /\ \A i \in 1..n : graph[i].pim \in Int
      /\ \E i \in 1..n : graph[i].name = "score"
      /\ \A i \in 1..n : graph[i].type = "NORM" =>
             graph[i].name \in {"norm1", "norm2"} /\ Times[i] = Cost("gpu", xpus, graph[i]).time
  BY <1>1, BlockAnswered
<1>3. /\ ApplyEffLat(graph, Times) \in [1..n -> Int]
      /\ \A i \in 1..n : graph[i].name \notin {"score", "softmax", "context"} =>
             ApplyEffLat(graph, Times)[i] = Times[i]
  <2> HIDE DEF n
  <2> QED
    BY <1>2, ApplyEffLatTyped, ZenonT(60)
<1> QED
  BY <1>2, <1>3 DEF PromptTimes

LEMMA OverlappedTyped ==
    ASSUME Inv, pc = "gen", Len(ran) = Len(graph)
    PROVE  /\ Overlapped \in [1..Len(graph) -> Int]
           /\ \A i \in 1..Len(graph) :
                  graph[i].type = "NORM" => Overlapped[i] = Cost("gpu", xpus, graph[i]).time
<1> DEFINE n == Len(graph)
           slowed == ApplyEffLat(graph, Times)
           piped == Pipeline(graph, slowed, call.pipe)
           parallel == FfParallel(graph, piped, Bounds)
<1>1. pc \in Pricing
  BY DEF Pricing
<1>2. /\ n \in Nat /\ DOMAIN graph = 1..n /\ Times \in [1..n -> Int]
      /\ \A i \in 1..n : graph[i].pim \in Int
      /\ \E i \in 1..n : graph[i].name = "score"
      /\ \A i \in 1..n : graph[i].type = "NORM" =>
             graph[i].name \in {"norm1", "norm2"} /\ Times[i] = Cost("gpu", xpus, graph[i]).time
  BY <1>1, BlockAnswered
<1>3. /\ call.pipe \in BOOLEAN /\ call.batch \in Nat \ {0} /\ shard.info.kv \in Nat
      /\ xpus \in Nat \ {0}
  <2>1. shard.info = call.model
    BY DEF Inv, Deployed, Transformer
  <2> QED
    BY <2>1, CallsAssumption DEF Inv, Deployed, DefaultGpus
<1> HIDE DEF n
<1>4. /\ slowed \in [1..n -> Int]
      /\ \A i \in 1..n : graph[i].name \notin {"score", "softmax", "context"} =>
             slowed[i] = Times[i]
  BY <1>2, ApplyEffLatTyped, ZenonT(60)
<1> HIDE DEF slowed
<1>5. /\ piped \in [1..n -> Int]
      /\ \A i \in 1..n : graph[i].name \notin {"qkv", "proj", "softmax"} /\ graph[i].type # "X2G"
             => piped[i] = slowed[i]
  <2>1. n \in Nat /\ DOMAIN graph = 1..n
    BY <1>2
  <2>2. call.pipe \in BOOLEAN /\ shard.info.kv \in Nat /\ xpus \in Nat \ {0}
    BY <1>3
  <2>3. slowed \in [1..n -> Int]
    BY <1>4
  <2> DEFINE level == call.pipe
  <2>4. level \in BOOLEAN
    BY <2>2
  <2> HIDE DEF level
  <2>5. /\ Pipeline(graph, slowed, level) \in [1..n -> Int]
        /\ \A i \in 1..n : graph[i].name \notin {"qkv", "proj", "softmax"}
                             /\ graph[i].type # "X2G" =>
               Pipeline(graph, slowed, level)[i] = slowed[i]
    BY <2>1, <2>2, <2>3, <2>4, PipelineTyped
  <2> QED
    BY <2>5 DEF level
<1> HIDE DEF piped
<1>6. /\ parallel \in [1..n -> Int]
      /\ \A i \in 1..n : ~FeedForward(graph[i]) => parallel[i] = piped[i]
  <2>1. n \in Nat /\ piped \in [1..n -> Int] /\ call.batch \in Nat \ {0}
    BY <1>2, <1>3, <1>5
  <2> QED
    BY <2>1, FfParallelTyped
<1> HIDE DEF parallel
<1>7. Overlapped = IF Device # "pim" THEN Times ELSE IF call.ffopt THEN parallel ELSE piped
  BY DEF Overlapped, parallel, piped, slowed
<1>8. Overlapped \in [1..n -> Int]
  BY <1>2, <1>5, <1>6, <1>7
<1>9. ASSUME NEW i \in 1..n, graph[i].type = "NORM"
      PROVE  Overlapped[i] = Cost("gpu", xpus, graph[i]).time
  <2>1. /\ graph[i].name \notin {"score", "softmax", "context", "qkv", "proj"}
        /\ ~FeedForward(graph[i]) /\ Times[i] = Cost("gpu", xpus, graph[i]).time
    BY <1>2, <1>9 DEF FeedForward
  <2>2. slowed[i] = Times[i] /\ piped[i] = slowed[i] /\ parallel[i] = piped[i]
    BY <1>4, <1>5, <1>6, <1>9, <2>1
  <2> QED
    BY <1>7, <2>1, <2>2
<1> QED
  BY <1>8, <1>9 DEF n

----------------------------------------------------------------------------
(* What overlaps takes no longer.                                          *)

(* A share of a number that is not negative. *)
LEMMA ShareIsLess ==
    ASSUME NEW t \in Nat, NEW d \in Nat \ {0}
    PROVE  t \div d \in Nat /\ t \div d <= t
<1>1. t <= t * d /\ 0 * d <= t
  OBVIOUS
<1>2. t \div d \in Int
  BY QuotientTyped
<1> QED
  BY <1>1, <1>2, QuotientAtMost, QuotientAtLeast

(* A part of a part. *)
LEMMA PartIsLess ==
    ASSUME NEW t \in Int, NEW z \in Nat, t <= z, NEW num \in Nat, NEW den \in Nat \ {0}, num <= den
    PROVE  /\ (t * num) \div den <= z
           /\ t >= 0 => (t * num) \div den \in Nat
<1>1. t * num \in Int /\ z * num \in Nat /\ z * den \in Nat
  OBVIOUS
<1>2. t * num <= z * num /\ z * num <= z * den
  OBVIOUS
<1>3. (t * num) \div den \in Int
  BY <1>1, QuotientTyped
<1>4. (t * num) \div den <= z
  BY <1>1, <1>2, QuotientAtMost
<1>5. ASSUME t >= 0 PROVE (t * num) \div den >= 0
  <2>1. 0 * den <= t * num
    BY <1>5
  <2> QED
    BY <1>1, <2>1, QuotientAtLeast
<1> QED
  BY <1>3, <1>4, <1>5

LEMMA ByEfficiencyNatural ==
    ASSUME NEW t \in Nat, NEW heads \in Int, NEW batch
    PROVE  ByEfficiency(t, heads, batch) \in Nat
<1> DEFINE perHbm == CeilDiv(heads, Hbms)
           stacks5 == IF perHbm <= 1 THEN 7 * Hbms ELSE 5 * Hbms * perHbm
<1>1. Hbms \in Nat \ {0}
  BY CallsAssumption
<1>2. perHbm \in Int
  BY <1>1 DEF CeilDiv
<1> HIDE DEF perHbm
<1>3. stacks5 \in Nat
  <2>1. 5 * Hbms \in Nat /\ 7 * Hbms \in Nat
    BY <1>1
  <2>2. perHbm > 1 => 5 * Hbms * perHbm \in Nat
    BY <1>2, <2>1
  <2> QED
    BY <1>2, <2>1, <2>2
<1>4. ByEfficiency(t, heads, batch)
        = IF batch >= 2 \/ heads <= 0 \/ stacks5 <= 5 * heads THEN t
          ELSE (t * stacks5) \div (5 * heads)
  BY Zenon DEF ByEfficiency, perHbm
<1> HIDE DEF stacks5
<1>5. ~(heads <= 0) => 5 * heads \in Nat \ {0}
  OBVIOUS
<1>6. t * stacks5 \in Nat
  BY <1>3
<1>7. ~(heads <= 0) => (t * stacks5) \div (5 * heads) \in Nat
  BY <1>5, <1>6, ShareIsLess
<1> QED
  BY <1>4, <1>7

LEMMA ApplyEffLatNatural ==
    ASSUME NEW n \in Nat, NEW block, DOMAIN block = 1..n, NEW times \in [1..n -> Nat],
           \A i \in 1..n : block[i].pim \in Int, \E i \in 1..n : block[i].name = "score"
    PROVE  ApplyEffLat(block, times) \in [1..n -> Nat]
<1> DEFINE scores == CHOOSE l \in {block[i] : i \in DOMAIN block} : l.name = "score"
           heads == scores.pim
<1>1. scores \in {block[i] : i \in DOMAIN block}
  OBVIOUS
<1>2. heads \in Int
  BY <1>1
<1> HIDE DEF heads
<1>3. \A i \in 1..n : ByEfficiency(times[i], heads, call.batch) \in Nat
  BY <1>2, ByEfficiencyNatural
<1>4. ApplyEffLat(block, times)
        = [i \in DOMAIN times |-> IF block[i].name \in {"score", "softmax", "context"}
                                  THEN ByEfficiency(times[i], heads, call.batch) ELSE times[i]]
  BY Zenon DEF ApplyEffLat, heads
<1> QED
  BY <1>3, <1>4

LEMMA FfParallelShortens ==
    ASSUME NEW n \in Nat, NEW block, NEW times \in [1..n -> Int], NEW bounds,
           call.batch \in Nat \ {0}, NEW i \in 1..n, NEW z \in Nat, times[i] <= z
    PROVE  /\ FfParallel(block, times, bounds)[i] <= z
           /\ times[i] >= 0 => FfParallel(block, times, bounds)[i] >= 0
<1>1. GpuFlops \in Nat \ {0} /\ GpuBandwidth \in Nat \ {0} /\ AccBandwidth \in Nat \ {0}
  BY CallsAssumption
<1> DEFINE t == times[i]
           b == GpuBandwidth * call.batch
<1>2. t \in Int /\ t <= z /\ b \in Nat
  BY <1>1
<1>3. t * GpuBandwidth * call.batch = t * b
  BY <1>1
<1>4. FfShare(bounds[i], t) = IF bounds[i] = "compute" THEN (t * GpuFlops) \div (GpuFlops + AccBandwidth)
                              ELSE (t * b) \div (b + AccBandwidth)
  BY <1>3 DEF FfShare
<1> HIDE DEF b
<1>5. /\ GpuFlops \in Nat /\ GpuFlops + AccBandwidth \in Nat \ {0} /\ GpuFlops <= GpuFlops + AccBandwidth
      /\ b + AccBandwidth \in Nat \ {0} /\ b <= b + AccBandwidth
  BY <1>1, <1>2
<1>6. FfParallel(block, times, bounds)[i] = IF FeedForward(block[i]) THEN FfShare(bounds[i], t) ELSE t
  BY DEF FfParallel
<1> HIDE DEF t
<1>7. /\ (t * GpuFlops) \div (GpuFlops + AccBandwidth) <= z
      /\ t >= 0 => (t * GpuFlops) \div (GpuFlops + AccBandwidth) \in Nat
  BY <1>2, <1>5, PartIsLess
<1>8. /\ (t * b) \div (b + AccBandwidth) <= z
      /\ t >= 0 => (t * b) \div (b + AccBandwidth) \in Nat
  BY <1>2, <1>5, PartIsLess
<1>9. FfShare(bounds[i], t) <= z /\ (t >= 0 => FfShare(bounds[i], t) >= 0)
  BY <1>4, <1>7, <1>8
<1> QED
  BY <1>2, <1>6, <1>9 DEF t

LEMMA PipelineShortens ==
    ASSUME NEW n \in Nat, NEW block, DOMAIN block = 1..n, NEW times \in [1..n -> Nat],
           NEW level \in BOOLEAN, shard.info.kv \in Nat, xpus \in Nat \ {0}
    PROVE  \A i \in 1..n :
               /\ block[i].type # "X2G" => Pipeline(block, times, level)[i] <= times[i]
               /\ ~level => Pipeline(block, times, level)[i] >= 0
               /\ Pipeline(block, times, level)[i] <= Total(times)
<1> DEFINE Named(name) == Total([i \in DOMAIN block |-> IF block[i].name = name THEN times[i] ELSE 0])
           heads == Most(1, shard.info.kv \div xpus)
           attn == Named("score") + Named("context") + Named("softmax")
           fc == Named("qkv") + Named("proj")
           x2g == Total([i \in DOMAIN block |-> IF block[i].type = "X2G" THEN times[i] ELSE 0])
           moves == Cardinality({i \in DOMAIN block : block[i].type = "X2G"})
           Share(t) == t \div heads
           Hidden(num, den) == (attn * (heads - 1) * num) \div (heads * den)
           hideFc == level /\ attn > fc
           fcLonger == level /\ attn <= fc /\ fc > x2g
           x2gLonger == level /\ attn <= fc /\ fc <= x2g
           Moved == IF fcLonger \/ (attn > x2g /\ ~x2gLonger) THEN Share(x2g)
                    ELSE x2g - Hidden(1, 1)
           After(l, t) ==
               CASE l.name = "qkv" ->
                        IF hideFc \/ x2gLonger THEN Share(t)
                        ELSE IF fcLonger THEN t - Hidden(3, 4) ELSE t
                 [] l.name = "proj" ->
                        IF hideFc \/ x2gLonger THEN Share(t)
                        ELSE IF fcLonger THEN t - Hidden(1, 4) ELSE t
                 [] l.type = "X2G" -> Moved \div Most(1, moves)
                 [] l.name = "softmax" -> 0
                 [] OTHER -> t
<1>1. Pipeline(block, times, level) = [i \in DOMAIN times |-> After(block[i], times[i])]
  BY Zenon DEF Pipeline
<1>2. heads \in Nat \ {0}
  BY DEF Most
<1>3. ASSUME NEW name PROVE Named(name) \in Nat
  <2>1. [i \in DOMAIN block |-> IF block[i].name = name THEN times[i] ELSE 0] \in [1..n -> Nat]
    OBVIOUS
  <2> QED
    BY <2>1, TotalOfNaturals
<1>4. attn \in Nat /\ fc \in Nat
  <2> HIDE DEF Named
  <2> QED
    BY <1>3
<1>5. x2g \in Nat /\ x2g <= Total(times)
  <2> DEFINE sent == [i \in DOMAIN block |-> IF block[i].type = "X2G" THEN times[i] ELSE 0]
  <2>1. sent \in [1..n -> Nat] /\ sent \in [1..n -> Int] /\ times \in [1..n -> Int]
        /\ \A i \in 1..n : sent[i] <= times[i]
    OBVIOUS
  <2> HIDE DEF sent
  <2>2. Total(sent) \in Nat /\ Total(sent) <= Total(times)
    BY <2>1, TotalOfNaturals, TotalBetween
  <2> QED
    BY <2>2 DEF sent
<1>6. moves \in Nat /\ Most(1, moves) \in Nat \ {0}
  <2> DEFINE D == {i \in DOMAIN block : block[i].type = "X2G"}
  <2>1. IsFiniteSet(1..n) /\ D \subseteq 1..n
    BY FS_Interval
  <2>2. IsFiniteSet(D)
    BY <2>1, FS_Subset
  <2>3. Cardinality(D) \in Nat
    BY <2>2, FS_CardinalityType
  <2> HIDE DEF D
  <2>4. moves = Cardinality(D)
    BY DEF D
  <2> HIDE DEF moves
  <2> QED
    BY <2>3, <2>4 DEF Most
<1>7. Total(times) \in Nat /\ \A i \in 1..n : times[i] \in Nat /\ times[i] <= Total(times)
  BY TotalOfNaturals, ElementOfTotal
<1> HIDE DEF heads, attn, fc, x2g, moves
<1>8. \A t \in Nat : Share(t) \in Nat /\ Share(t) <= t
  BY <1>2, ShareIsLess
<1>9. /\ Hidden(3, 4) \in Nat /\ Hidden(1, 4) \in Nat /\ Hidden(1, 1) \in Nat
      /\ Hidden(1, 1) <= attn
  <2> DEFINE left == attn * (heads - 1)
  <2>1. left \in Nat /\ left <= attn * heads
    BY <1>2, <1>4
  <2> HIDE DEF left
  <2>2. left * 3 \in Nat /\ left * 1 = left /\ heads * 4 \in Nat \ {0} /\ heads * 1 = heads
    BY <1>2, <2>1
  <2>3. (left * 3) \div (heads * 4) \in Nat /\ left \div (heads * 4) \in Nat
        /\ left \div heads \in Nat
    BY <1>2, <2>1, <2>2, ShareIsLess
  <2>4. left \div heads <= attn
    BY <1>2, <1>4, <2>1, QuotientAtMost
  <2>5. /\ Hidden(3, 4) = (left * 3) \div (heads * 4) /\ Hidden(1, 4) = (left * 1) \div (heads * 4)
        /\ Hidden(1, 1) = (left * 1) \div (heads * 1)
    BY DEF left
  <2> HIDE DEF Hidden
  <2> QED
    BY <2>2, <2>3, <2>4, <2>5
<1> HIDE DEF Share, Hidden
<1>10. ~level => ~hideFc /\ ~fcLonger /\ ~x2gLonger
  OBVIOUS
<1>11. Moved \in Int /\ Moved <= x2g /\ (~level => Moved >= 0)
  <2>1. Share(x2g) \in Nat /\ Share(x2g) <= x2g /\ x2g - Hidden(1, 1) \in Int
        /\ x2g - Hidden(1, 1) <= x2g
    <3>1. Share(x2g) \in Nat /\ Share(x2g) <= x2g
      BY <1>5, <1>8, Zenon
    <3>2. x2g - Hidden(1, 1) \in Int /\ x2g - Hidden(1, 1) <= x2g
      BY <1>5, <1>9
    <3> QED
      BY <3>1, <3>2
  <2>2. attn <= x2g => x2g - Hidden(1, 1) >= 0
    BY <1>4, <1>5, <1>9
  <2>3. ~level => Moved = IF attn > x2g THEN Share(x2g) ELSE x2g - Hidden(1, 1)
    BY <1>10
  <2>4. Moved = Share(x2g) \/ Moved = x2g - Hidden(1, 1)
    OBVIOUS
  <2> HIDE DEF Moved
  <2> QED
    BY <1>4, <1>5, <2>1, <2>2, <2>3, <2>4
<1> HIDE DEF hideFc, fcLonger, x2gLonger, Moved
<1>12. Moved \div Most(1, moves) \in Int /\ Moved \div Most(1, moves) <= x2g
       /\ (~level => Moved \div Most(1, moves) >= 0)
  <2> DEFINE d == Most(1, moves)
  <2>1. d \in Nat \ {0}
    BY <1>6
  <2> HIDE DEF d
  <2>2. x2g * 1 <= x2g * d /\ x2g * 1 = x2g /\ x2g * d \in Int
    BY <1>5, <2>1
  <2>3. Moved <= x2g * d
    BY <1>5, <1>11, <2>2
  <2>4. Moved \div d \in Int /\ Moved \div d <= x2g
    <3>1. Moved \in Int /\ x2g \in Int
      BY <1>5, <1>11
    <3>2. Moved \div d \in Int
      BY <2>1, <3>1, QuotientTyped
    <3>3. Moved \div d <= x2g
      BY <2>1, <2>3, <3>1, QuotientAtMost
    <3> QED
      BY <3>2, <3>3
  <2>5. ASSUME Moved >= 0 PROVE Moved \div d >= 0
    <3>1. Moved \in Nat
      BY <1>11, <2>5
    <3>2. Moved \div d \in Nat
      BY <2>1, <3>1, ShareIsLess
    <3> QED
      BY <3>2
  <2> QED
    BY <1>11, <2>4, <2>5 DEF d
<1>13. ASSUME NEW i \in 1..n
       PROVE  /\ block[i].type # "X2G" => After(block[i], times[i]) <= times[i]
              /\ ~level => After(block[i], times[i]) >= 0
              /\ After(block[i], times[i]) <= Total(times)
  <2> DEFINE t == times[i]
             u == After(block[i], t)
             moved == Moved \div Most(1, moves)
  <2>1. t \in Nat /\ t <= Total(times)
    BY <1>7
  <2>2. CASE u \in {Share(t), 0, t}
    <3>1. Share(t) \in Nat /\ Share(t) <= t
      BY <1>8, <2>1
    <3> HIDE DEF t, u
    <3>2. u \in Nat /\ u <= t /\ u <= Total(times)
      BY <1>7, <2>1, <2>2, <3>1
    <3> QED
      BY <3>2 DEF t, u
  <2>3. CASE level /\ u \in {t - Hidden(3, 4), t - Hidden(1, 4)}
    <3> HIDE DEF t, u
    <3>1. u <= t /\ u <= Total(times)
      BY <1>7, <1>9, <2>1, <2>3
    <3> QED
      BY <2>3, <3>1 DEF t, u
  <2>4. CASE block[i].type = "X2G" /\ u = moved
    <3> HIDE DEF t, u
    <3>1. u <= Total(times) /\ (~level => u >= 0)
      BY <1>5, <1>7, <1>12, <2>4
    <3> QED
      BY <2>4, <3>1 DEF t, u
  <2>5. fcLonger => level
    BY <1>10
  <2> HIDE DEF t, moved, Share, Hidden
  <2>6. \/ u \in {Share(t), 0, t}
        \/ level /\ u \in {t - Hidden(3, 4), t - Hidden(1, 4)}
        \/ block[i].type = "X2G" /\ u = moved
    BY <2>5 DEF moved
  <2> QED
    BY <2>2, <2>3, <2>4, <2>6
<1> HIDE DEF After
<1> QED
  BY <1>1, <1>13

----------------------------------------------------------------------------
(* The columns of output.csv add up at every step.                         *)

Floor == IF call.model.floor > 0 /\ pc \in {"sum", "gen", "write", "done", "raised"} /\ Vision # <<>>
         THEN call.model.floor ELSE 0
Columns ==
    /\ s_perf \in [SKeys -> Int] /\ g_perf \in [GKeys -> Int] /\ energy \in [EKeys -> Int]
    /\ SAddUp(s_perf, Floor) /\ GAddUp(g_perf) /\ EAddUp(energy)

LEMMA ZeroAddsUp ==
    /\ Zero(SKeys) \in [SKeys -> Int] /\ SAddUp(Zero(SKeys), 0)
    /\ Zero(GKeys) \in [GKeys -> Int] /\ GAddUp(Zero(GKeys))
    /\ Zero(EKeys) \in [EKeys -> Int] /\ EAddUp(Zero(EKeys))
BY DEF Zero, SAddUp, GAddUp, EAddUp, SKeys, GKeys, EKeys

LEMMA ColumnsInit == Init => Columns
<1> SUFFICES ASSUME Init PROVE Columns
  OBVIOUS
<1>1. Floor = 0
  BY DEF Init, Floor
<1> QED
  BY <1>1, ZeroAddsUp DEF Init, Columns

LEMMA FloorKept ==
    ASSUME Inv, UNCHANGED <<call, shard>>,
           pc' \in {"sum", "gen", "write", "done", "raised"} <=> pc \in {"sum", "gen", "write", "done", "raised"}
    PROVE  Floor' = Floor
BY DEF Floor, Vision

LEMMA CountOfGroup ==
    ASSUME Inv, pc \in Pricing
    PROVE  groups[group].count \in Nat \ {0}
<1>1. groups = Routed /\ group \in DOMAIN groups
  BY DEF Inv, Placed, Late
<1>2. groups[group] \in GroupRecords
  BY <1>1, RoutedTyped DEF Inv
<1> QED
  BY <1>2 DEF GroupRecords

(* The vision tower adds its floor to the total alone. *)
LEMMA FloorAddsUp ==
    ASSUME NEW floor \in Int, NEW S \in [SKeys -> Int], SAddUp(S, 0)
    PROVE  LET F == [S EXCEPT !.all = @ + floor]
           IN  F \in [SKeys -> Int] /\ SAddUp(F, floor) /\ F.norm = S.norm
<1> DEFINE F == [S EXCEPT !.all = @ + floor]
<1>1. /\ F.all = S.all + floor /\ F.fc = S.fc /\ F.matmul = S.matmul /\ F.comm = S.comm
      /\ F.softmax = S.softmax /\ F.act = S.act /\ F.norm = S.norm
  BY DEF SKeys
<1>2. /\ S.all \in Int /\ S.fc \in Int /\ S.matmul \in Int /\ S.comm \in Int
      /\ S.softmax \in Int /\ S.act \in Int /\ S.norm \in Int
  BY DEF SKeys
<1>3. F \in [SKeys -> Int]
  BY <1>2 DEF SKeys
<1>4. S.all = S.fc + S.matmul + S.comm + S.softmax + S.act + S.norm + 0
  BY DEF SAddUp
<1> HIDE DEF F
<1>5. F.all = F.fc + F.matmul + F.comm + F.softmax + F.act + F.norm + floor
  BY <1>1, <1>2, <1>4
<1> QED
  BY <1>1, <1>3, <1>5 DEF SAddUp, F

LEMMA AdvanceTo ==
    ASSUME Advance
    PROVE  pc' \in {"sum", "write"}
BY DEF Advance, NextBlock

LEMMA EndVisionColumns ==
    ASSUME Inv, Columns, EndVision
    PROVE  Columns'
<1> DEFINE src == Collect(SKeys, SColumns, graph, Times)
           sum == Accumulate(s_perf, src, 1)
<1>1. /\ pc = "vision" /\ Len(ran) = Len(graph) /\ pc' = "sum" /\ graph = Vision
      /\ UNCHANGED <<call, shard, g_perf, energy>>
      /\ s_perf' = [sum EXCEPT !.all = @ + call.model.floor]
  BY DEF EndVision, NextBlock, Run, Inv, Layered
<1>2. src \in [SKeys -> Int] /\ SAddUp(src, 0)
  <2>1. /\ Len(graph) \in Nat /\ DOMAIN graph = 1..Len(graph)
        /\ Times \in [1..Len(graph) -> Int]
        /\ \A i \in 1..Len(graph) : graph[i].type \in LayerTypes
    BY <1>1, BlockAnswered DEF Pricing
  <2> QED
    BY <2>1, SOfBlock
<1> HIDE DEF src
<1>3. s_perf \in [SKeys -> Int] /\ SAddUp(s_perf, 0)
  BY <1>1 DEF Columns, Floor
<1>4. sum \in [SKeys -> Int] /\ SAddUp(sum, 0)
  BY <1>2, <1>3, AccumulateTyped, SAccumulates
<1> HIDE DEF sum
<1>5. call.model.floor \in Nat
  BY CallsAssumption DEF Inv, Deployed
<1>6. s_perf' \in [SKeys -> Int] /\ SAddUp(s_perf', call.model.floor)
  BY <1>1, <1>4, <1>5, FloorAddsUp
<1>7. Floor' = call.model.floor
  <2>1. Vision # <<>>
    BY <1>1 DEF Inv, Layered
  <2> QED
    BY <1>1, <1>5, <2>1 DEF Floor, Vision
<1> QED
  BY <1>1, <1>6, <1>7 DEF Columns

LEMMA EndSumColumns ==
    ASSUME Inv, Columns, EndSum
    PROVE  Columns'
<1> DEFINE src == Collect(SKeys, SColumns, graph, PromptTimes)
           count == groups[group].count
<1>1. /\ pc = "sum" /\ Len(ran) = Len(graph)
      /\ UNCHANGED <<call, shard, g_perf, energy>>
      /\ s_perf' = Accumulate(s_perf, src, count)
  BY Zenon DEF EndSum, Run, PromptTimes
<1>2. src \in [SKeys -> Int] /\ SAddUp(src, 0)
  <2>1. /\ Len(graph) \in Nat /\ DOMAIN graph = 1..Len(graph)
        /\ \A i \in 1..Len(graph) : graph[i].type \in LayerTypes
    BY <1>1, BlockAnswered DEF Pricing
  <2>2. PromptTimes \in [1..Len(graph) -> Int]
    BY <1>1, PromptTyped
  <2> QED
    BY <2>1, <2>2, SOfBlock
<1>3. count \in Int
  BY <1>1, CountOfGroup DEF Pricing
<1> HIDE DEF src, count
<1>4. Floor \in Int
  BY CallsAssumption DEF Floor, Inv, Deployed
<1>5. s_perf' \in [SKeys -> Int] /\ SAddUp(s_perf', Floor)
  BY <1>1, <1>2, <1>3, <1>4, AccumulateTyped, SAccumulates DEF Columns
<1>6. Floor' = Floor
  <2>1. pc' \in {"sum", "gen", "write", "done", "raised"}
    BY AdvanceTo DEF EndSum, NextBlock
  <2> QED
    BY <1>1, <2>1, FloorKept
<1> QED
  BY <1>1, <1>5, <1>6 DEF Columns

LEMMA EndStageColumns ==
    ASSUME Inv, Columns, EndStage
    PROVE  Columns'
<1> DEFINE src == Collect(GKeys, GColumns, graph, Overlapped)
           count == groups[group].count
<1>1. /\ pc = "gen" /\ Len(ran) = Len(graph)
      /\ UNCHANGED <<call, shard, s_perf>>
      /\ g_perf' = Accumulate(g_perf, src, count)
      /\ energy' = Accumulate(energy, BlockEnergy, count)
  BY DEF EndStage, Run
<1>2. src \in [GKeys -> Int] /\ GAddUp(src)
  <2>1. /\ Len(graph) \in Nat /\ DOMAIN graph = 1..Len(graph)
        /\ \A i \in 1..Len(graph) :
               /\ graph[i].type \in LayerTypes
               /\ graph[i].type = "FC" => graph[i].name \in {"qkv", "proj", "ff1", "ff2", "ff3"}
    BY <1>1, BlockAnswered DEF Pricing
  <2>2. Overlapped \in [1..Len(graph) -> Int]
    BY <1>1, OverlappedTyped
  <2> QED
    BY <2>1, <2>2, GOfBlock
<1>3. count \in Int
  BY <1>1, CountOfGroup DEF Pricing
<1>4. BlockEnergy \in [EKeys -> Int] /\ EAddUp(BlockEnergy)
  BY <1>1, EOfBlock DEF Pricing
<1> HIDE DEF src, count
<1>5. g_perf' \in [GKeys -> Int] /\ GAddUp(g_perf')
  BY <1>1, <1>2, <1>3, AccumulateTyped, GAccumulates DEF Columns
<1>6. energy' \in [EKeys -> Int] /\ EAddUp(energy')
  BY <1>1, <1>3, <1>4, AccumulateTyped, EAccumulates DEF Columns
<1>7. Floor' = Floor
  <2>1. pc' \in {"sum", "gen", "write", "done", "raised"}
    BY AdvanceTo DEF EndStage, NextBlock
  <2> QED
    BY <1>1, <2>1, FloorKept
<1> QED
  BY <1>1, <1>5, <1>6, <1>7 DEF Columns

LEMMA ColumnsNext ==
    ASSUME Inv, Columns, [Next]_vars
    PROVE  Columns'
<1>1. CASE UNCHANGED vars
  BY <1>1 DEF vars, Columns, Floor, Vision
<1>2. CASE StartBySimRunner \/ Main \/ SetXpu \/ SetAccelerator \/ NoThroughput \/ WriteRow
  <2>1. UNCHANGED <<call, shard, s_perf, g_perf, energy>>
    BY <1>2 DEF StartBySimRunner, Main, SetXpu, SetAccelerator, NoThroughput, WriteRow,
                Priced, Simulated
  <2>2. pc' \in {"sum", "gen", "write", "done", "raised"} <=> pc \in {"sum", "gen", "write", "done", "raised"}
    BY <1>2, CallsAssumption DEF StartBySimRunner, Main, SetXpu, SetAccelerator, NoThroughput,
                                 WriteRow, Inv, Deployed
  <2> QED
    BY <2>1, <2>2, FloorKept DEF Columns
<1>3. CASE Build
  <2>1. UNCHANGED <<call, shard, s_perf, g_perf, energy>> /\ pc = "build"
        /\ (pc' \in {"vision", "failed"} \/ Vision = <<>>)
    BY <1>3 DEF Build
  <2>2. Floor = 0 /\ Floor' = 0
    BY <2>1 DEF Floor, Vision
  <2> QED
    BY <2>1, <2>2 DEF Columns
<1>4. CASE SumLayer \/ GenLayer
  <2>1. UNCHANGED <<call, shard, s_perf, g_perf, energy, pc>>
    BY <1>4 DEF SumLayer, GenLayer, Kept, Run
  <2> QED
    BY <2>1, FloorKept DEF Columns
<1>5. CASE EndVision
  BY <1>5, EndVisionColumns
<1>6. CASE EndSum
  BY <1>6, EndSumColumns
<1>7. CASE EndStage
  BY <1>7, EndStageColumns
<1>8. CASE Finished
  BY <1>1, <1>8 DEF Finished
<1> QED
  BY <1>1, <1>2, <1>3, <1>4, <1>5, <1>6, <1>7, <1>8 DEF Next

IInv == Inv /\ Columns

LEMMA IInvHolds == Spec => []IInv
<1>1. Init => IInv
  BY InitInv, ColumnsInit DEF IInv
<1>2. IInv /\ [Next]_vars => IInv'
  BY NextInv, ColumnsNext DEF IInv
<1> QED
  BY <1>1, <1>2, PTL DEF Spec

(* Whatever the model, the command line and the costs: the columns stay    *)
(* numbers, the loops of simulate() stay within the groups and the stages, *)
(* and no more layers are priced than the block has.                       *)
THEOREM TypeCorrect == Spec => []TypeOK
<1>1. IInv => TypeOK
  <2> SUFFICES ASSUME IInv PROVE TypeOK
    OBVIOUS
  <2>1. /\ pc \in {"main", "set_xpu", "set_accelerator", "build", "vision", "sum", "gen",
                   "write", "done", "raised", "failed"}
        /\ stage \in 1..Most(1, call.lout - 1)
    BY DEF IInv, Inv, Placed, Early, Late, Pricing
  <2>2. xpus \in Nat \ {0} /\ acc \in {"gpu", "cpu", "pim"}
    BY CallsAssumption DEF IInv, Inv, Deployed, DefaultGpus
  <2>3. groups # <<>> => group \in DOMAIN groups
    <3> SUFFICES ASSUME groups # <<>> PROVE group \in DOMAIN groups
      OBVIOUS
    <3>1. CASE pc \in Late
      BY <3>1 DEF IInv, Inv, Placed
    <3>2. CASE pc \notin Late
      <4>1. group = 1 /\ groups = Routed
        BY <3>2 DEF IInv, Inv, Placed
      <4> QED
        BY <4>1, RoutedTyped DEF IInv, Inv
    <3> QED
      BY <3>1, <3>2
  <2>4. time \in Nat /\ wrt_io_busy \in Nat /\ Len(ran) <= Len(graph)
    BY DEF IInv, Inv, Running, PricedWell
  <2>5. DOMAIN s_perf = SKeys /\ DOMAIN g_perf = GKeys /\ DOMAIN energy = EKeys
    BY DEF IInv, Columns
  <2> QED
    BY <2>1, <2>2, <2>3, <2>4, <2>5 DEF TypeOK
<1> QED
  BY <1>1, IInvHolds, PTL

(* The clock of the link never overtakes that of the layers: whatever they *)
(* cost, _simulate_sum_group never makes a transfer wait.                  *)
THEOREM LinkIsFree == Spec => []LinkNeverWaits
<1>1. IInv => LinkNeverWaits
  BY DEF IInv, Inv, Running, LinkNeverWaits
<1> QED
  BY <1>1, IInvHolds, PTL

(* Whatever the devices answer and however the layers are scaled, hidden,  *)
(* shared out and counted, the columns add up to the totals of their row.  *)
THEOREM TotalsAddUp == Spec => []ColumnsAddUp
<1>1. IInv => ColumnsAddUp
  <2> SUFFICES ASSUME IInv PROVE ColumnsAddUp
    OBVIOUS
  <2>1. SAddUp(s_perf, Floor) /\ GAddUp(g_perf) /\ EAddUp(energy)
    BY DEF IInv, Columns
  <2> QED
    BY <2>1, Zenon DEF ColumnsAddUp, SAddUp, GAddUp, EAddUp, Floor
<1> QED
  BY <1>1, IInvHolds, PTL

(* What overlaps on PIM only hides time: a layer other than a transfer      *)
(* takes no longer than before, none takes longer than all together, and    *)
(* none takes less than nothing unless linear layers are hidden as well.    *)
THEOREM HidesTimeOnly == Spec => []PipelineOnlyShortens
<1>1. IInv => PipelineOnlyShortens
  <2> SUFFICES ASSUME IInv, pc = "gen", Len(ran) = Len(graph), Device = "pim"
               PROVE  \A i \in DOMAIN Overlapped :
                          /\ graph[i].type # "X2G" => Overlapped[i] <= ApplyEffLat(graph, Times)[i]
                          /\ ~call.pipe => Overlapped[i] >= 0
                          /\ Overlapped[i] <= Total(ApplyEffLat(graph, Times))
    BY Zenon DEF PipelineOnlyShortens
  <2> DEFINE n == Len(graph)
             slowed == ApplyEffLat(graph, Times)
             level == call.pipe
             piped == Pipeline(graph, slowed, level)
             parallel == FfParallel(graph, piped, Bounds)
  <2>1. Inv /\ pc \in Pricing
    BY DEF IInv, Pricing
  <2>2. /\ n \in Nat /\ DOMAIN graph = 1..n /\ DOMAIN ran = 1..n
        /\ \A i \in 1..n : graph[i].pim \in Int
        /\ \E i \in 1..n : graph[i].name = "score"
    BY <2>1, BlockAnswered
  <2>3. Times \in [1..n -> Nat]
    <3>1. ran \in Seq(Answers)
      BY <2>1 DEF Inv, Running, PricedWell
    <3>2. ASSUME NEW i \in 1..n PROVE ran[i].time \in Nat
      <4>1. i \in DOMAIN ran
        BY <2>2
      <4>2. ran[i] \in Answers
        BY <3>1, <4>1
      <4> QED
        BY <4>2 DEF Answers
    <3> QED
      BY <2>2, <3>2 DEF Times
  <2>4. /\ level \in BOOLEAN /\ call.batch \in Nat \ {0} /\ shard.info.kv \in Nat
        /\ xpus \in Nat \ {0}
    <3>1. shard.info = call.model
      BY <2>1 DEF Inv, Deployed, Transformer
    <3> QED
      BY <2>1, <3>1, CallsAssumption DEF Inv, Deployed, DefaultGpus
  <2>5. /\ Overlapped \in [1..n -> Int]
        /\ Overlapped = IF call.ffopt THEN parallel ELSE piped
    BY <2>1, OverlappedTyped DEF Overlapped
  <2> HIDE DEF n, level
  <2>6. slowed \in [1..n -> Nat]
    BY <2>2, <2>3, ApplyEffLatNatural
  <2> HIDE DEF slowed
  <2>7. /\ slowed \in [1..n -> Int] /\ Total(slowed) \in Nat
        /\ \A i \in 1..n : slowed[i] \in Nat
    BY <2>2, <2>6, TotalOfNaturals
  <2>8. /\ piped \in [1..n -> Int]
        /\ \A i \in 1..n : /\ graph[i].type # "X2G" => piped[i] <= slowed[i]
                           /\ ~level => piped[i] >= 0
                           /\ piped[i] <= Total(slowed)
    BY <2>2, <2>4, <2>6, <2>7, PipelineTyped, PipelineShortens
  <2> HIDE DEF piped
  <2>9. ASSUME NEW i \in 1..n
        PROVE  /\ graph[i].type # "X2G" => parallel[i] <= slowed[i]
               /\ ~level => parallel[i] >= 0
               /\ parallel[i] <= Total(slowed)
    <3>1. /\ parallel[i] <= Total(slowed)
          /\ piped[i] >= 0 => parallel[i] >= 0
      BY <2>2, <2>4, <2>7, <2>8, FfParallelShortens
    <3>2. ASSUME graph[i].type # "X2G" PROVE parallel[i] <= slowed[i]
      <4>1. slowed[i] \in Nat /\ piped[i] <= slowed[i]
        BY <2>7, <2>8, <3>2
      <4> QED
        BY <2>2, <2>4, <2>8, <4>1, FfParallelShortens
    <3> QED
      BY <2>8, <3>1, <3>2
  <2> HIDE DEF parallel
  <2>10. ASSUME NEW i \in 1..n
         PROVE  /\ graph[i].type # "X2G" => Overlapped[i] <= slowed[i]
                /\ ~level => Overlapped[i] >= 0
                /\ Overlapped[i] <= Total(slowed)
    BY <2>5, <2>8, <2>9
  <2> QED
    BY <2>5, <2>10 DEF slowed, level
<1> QED
  BY <1>1, IInvHolds, PTL

----------------------------------------------------------------------------
(* The groups of a run stand for the decoder layers that routing promises. *)

LEMMA TotalOfMembers ==
    ASSUME NEW n \in Nat, NEW A \in SUBSET (0..(n - 1)), NEW f \in [1..n -> Int],
           \A i \in 1..n : f[i] = IF i - 1 \in A THEN 1 ELSE 0
    PROVE  Total(f) = Cardinality(A)
<1>1. PICK sum : Sums(sum, f, n) /\ Total(f) = sum[n]
  BY TotalIsSum
<1> DEFINE upTo(m) == A \cap 0..(m - 1)
           P == {m \in Nat : m <= n => sum[m] = Cardinality(upTo(m)) /\ IsFiniteSet(upTo(m))}
<1>2. 0 \in P
  <2>1. upTo(0) = {}
    OBVIOUS
  <2>2. sum[0] = 0
    BY <1>1 DEF Sums
  <2> HIDE DEF upTo
  <2> QED
    BY <2>1, <2>2, FS_EmptySet
<1>3. ASSUME NEW m \in Nat, m \in P PROVE m + 1 \in P
  <2> SUFFICES ASSUME m + 1 <= n
               PROVE  sum[m + 1] = Cardinality(upTo(m + 1)) /\ IsFiniteSet(upTo(m + 1))
    OBVIOUS
  <2>1. sum[m] = Cardinality(upTo(m)) /\ IsFiniteSet(upTo(m))
    BY <1>3
  <2>2. sum[m + 1] = sum[m] + f[m + 1] /\ f[m + 1] = IF m \in A THEN 1 ELSE 0
    <3>1. m + 1 \in 1..n /\ m + 1 - 1 = m
      OBVIOUS
    <3> QED
      BY <1>1, <3>1 DEF Sums
  <2>3. upTo(m + 1) = (IF m \in A THEN upTo(m) \cup {m} ELSE upTo(m)) /\ m \notin upTo(m)
    OBVIOUS
  <2>4. Cardinality(upTo(m)) \in Nat
    BY <2>1, FS_CardinalityType
  <2>5. IsFiniteSet(upTo(m) \cup {m}) /\ Cardinality(upTo(m) \cup {m}) = Cardinality(upTo(m)) + 1
    <3> HIDE DEF upTo
    <3> QED
      BY <2>1, <2>3, FS_AddElement
  <2> HIDE DEF upTo
  <2> QED
    BY <2>1, <2>2, <2>3, <2>4, <2>5
<1>4. n \in P
  <2> HIDE DEF P
  <2> QED
    BY <1>2, <1>3, SetInduction
<1>5. sum[n] = Cardinality(upTo(n))
  <2> HIDE DEF upTo
  <2> QED
    BY <1>4
<1>6. upTo(n) = A
  OBVIOUS
<1> HIDE DEF upTo
<1> QED
  BY <1>1, <1>5, <1>6

(* The decoder layers of a group that are on a side. *)
OnSide(p, side) == IF p.device = "gpu" <=> side = "gpu" THEN p.count ELSE 0
CountOn(side) == [p \in GroupRecords |-> OnSide(p, side)]

LEMMA CountOnTyped ==
    ASSUME NEW side
    PROVE  CountOn(side) \in [GroupRecords -> Int]
BY DEF CountOn, OnSide, GroupRecords

LEMMA OneGroupSides ==
    ASSUME NEW device \in {"gpu", "cpu", "pim"}, NEW count \in Nat \ {0}, NEW idx \in SUBSET Int
    PROVE  LET one == << Group(device, count, idx) >> IN
           /\ Weight(one, CountOn("acc")) = IF device = "gpu" THEN 0 ELSE count
           /\ Weight(one, CountOn("gpu")) = IF device = "gpu" THEN count ELSE 0
<1> DEFINE p == Group(device, count, idx)
<1>1. p \in GroupRecords /\ p.device = device /\ p.count = count
  BY GroupTyped
<1> HIDE DEF p
<1>2. /\ CountOn("acc")[p] = IF device = "gpu" THEN 0 ELSE count
      /\ CountOn("gpu")[p] = IF device = "gpu" THEN count ELSE 0
  BY <1>1 DEF CountOn, OnSide
<1>3. /\ Weight(<<p>>, CountOn("acc")) = CountOn("acc")[p]
      /\ Weight(<<p>>, CountOn("gpu")) = CountOn("gpu")[p]
  BY <1>1, CountOnTyped, WeightOfOne
<1> QED
  BY <1>2, <1>3 DEF p

LEMMA TotalOfEither ==
    ASSUME NEW n \in Nat, NEW a \in [1..n -> Int], NEW b \in [1..n -> Int],
           \A i \in 1..n : a[i] + b[i] = 1
    PROVE  Total(a) + Total(b) = n
<1> DEFINE ones == [i \in 1..n |-> 1]
<1>1. ones \in [1..n -> Int] /\ \A i \in 1..n : ones[i] = a[i] + b[i]
  OBVIOUS
<1>2. \A i \in 1..n : ones[i] = IF i - 1 \in 0..(n - 1) THEN 1 ELSE 0
  OBVIOUS
<1> HIDE DEF ones
<1>3. Total(ones) = Total(a) + Total(b)
  BY <1>1, TotalOfSums, ZenonT(60)
<1>4. Total(ones) = Cardinality(0..(n - 1))
  BY <1>1, <1>2, TotalOfMembers
<1>5. Cardinality(0..(n - 1)) = n
  <2>1. 0 \in Int /\ n - 1 \in Int /\ (0 > n - 1 => n = 0) /\ n - 1 - 0 + 1 = n
    OBVIOUS
  <2> QED
    BY <2>1, FS_Interval
<1> QED
  BY <1>3, <1>4, <1>5

LEMMA LayerByLayerSides ==
    ASSUME NEW ndec \in Nat \ {0}, NEW accelerated \in SUBSET (0..(ndec - 1)),
           NEW device \in {"gpu", "cpu", "pim"}
    PROVE  LET list == LayerByLayer(ndec, accelerated, device)
               listed == IF device = "gpu" THEN 0 ELSE Cardinality(accelerated)
           IN  /\ Weight(list, CountOn("acc")) = listed
               /\ Weight(list, CountOn("gpu")) = ndec - listed
<1> DEFINE list == LayerByLayer(ndec, accelerated, device)
           A == IF device = "gpu" THEN {} ELSE accelerated
           on(side) == [i \in DOMAIN list |-> CountOn(side)[list[i]]]
<1>1. /\ list \in Seq(GroupRecords) /\ Len(list) = ndec
      /\ \A i \in 1..ndec : /\ list[i].count = 1
                            /\ list[i].device = IF i - 1 \in accelerated THEN device ELSE "gpu"
  BY LayerByLayerTyped
<1> HIDE DEF list
<1>2. \A side : on(side) \in [1..ndec -> Int] /\ Weight(list, CountOn(side)) = Total(on(side))
  BY <1>1, CountOnTyped DEF Weight
<1>3. \A i \in 1..ndec : /\ on("acc")[i] = IF i - 1 \in A THEN 1 ELSE 0
                         /\ on("acc")[i] + on("gpu")[i] = 1
  <2> TAKE i \in 1..ndec
  <2>1. list[i] \in GroupRecords /\ i \in DOMAIN list
    BY <1>1
  <2>2. /\ CountOn("acc")[list[i]] = IF i - 1 \in A THEN 1 ELSE 0
        /\ CountOn("gpu")[list[i]] = IF i - 1 \in A THEN 0 ELSE 1
    BY <1>1, <2>1 DEF CountOn, OnSide
  <2> QED
    BY <2>1, <2>2
<1> HIDE DEF on
<1>4. Total(on("acc")) = Cardinality(A)
  <2>1. A \in SUBSET (0..(ndec - 1))
    OBVIOUS
  <2> HIDE DEF A
  <2> QED
    BY <1>2, <1>3, <2>1, TotalOfMembers
<1>5. Total(on("acc")) + Total(on("gpu")) = ndec
  <2> DEFINE n == ndec
  <2>1. n \in Nat /\ on("acc") \in [1..n -> Int] /\ on("gpu") \in [1..n -> Int]
    BY <1>2
  <2>2. \A i \in 1..n : on("acc")[i] + on("gpu")[i] = 1
    BY <1>3
  <2> HIDE DEF n
  <2>3. Total(on("acc")) + Total(on("gpu")) = n
    BY <2>1, <2>2, TotalOfEither
  <2> QED
    BY <2>3 DEF n
<1>6. Cardinality(A) = IF device = "gpu" THEN 0 ELSE Cardinality(accelerated)
  BY FS_EmptySet
<1>7. Total(on("gpu")) \in Int /\ Total(on("acc")) \in Int
  BY <1>2, TotalType
<1> QED
  BY <1>2, <1>4, <1>5, <1>6, <1>7 DEF list

(* Where the devices of a run are set up: without one, all layers stay on the GPU. *)
Sited ==
    /\ pc \in {"main", "set_xpu", "set_accelerator"} => acc = "gpu"
    /\ pc = "set_xpu" => call.system = "dgx-cpu"
    /\ pc = "set_accelerator" => call.system # "dgx"
    /\ pc \in {"build"} \cup Late => (call.system = "dgx" <=> acc = "gpu")

LEMMA SitedInit == Init => Sited
BY DEF Init, Sited, Late, Pricing

LEMMA SitedNext ==
    ASSUME Inv, Sited, [Next]_vars
    PROVE  Sited'
<1>1. call \in Calls /\ call.system \in {"dgx", "dgx-cpu", "dgx-attacc"}
  BY CallsAssumption DEF Inv, Deployed
<1>2. CASE UNCHANGED vars \/ Finished
  BY <1>2 DEF vars, Finished, Sited
<1>3. CASE StartBySimRunner \/ Main \/ SetXpu \/ SetAccelerator
  BY <1>1, <1>3 DEF StartBySimRunner, Main, SetXpu, SetAccelerator, Simulated, Priced, Sited,
                    Late, Pricing
<1>4. CASE Build
  BY <1>4 DEF Build, Sited, Late, Pricing
<1>5. CASE SumLayer \/ GenLayer \/ EndVision \/ EndSum \/ EndStage \/ NoThroughput
           \/ WriteRow
  <2>1. /\ pc \in Late /\ pc' \in Late /\ UNCHANGED <<call, acc>>
    BY <1>5 DEF SumLayer, GenLayer, EndVision, EndSum, EndStage, NoThroughput, WriteRow,
                Advance, NextBlock, Kept, Run, Simulated, Priced, Late, Pricing
  <2> QED
    BY <2>1 DEF Sited, Late, Pricing
<1> QED
  BY <1>2, <1>3, <1>4, <1>5 DEF Next

LEMMA SidesOfRouted ==
    ASSUME Deployed, call.system = "dgx" <=> acc = "gpu"
    PROVE  /\ Weight(Routed, CountOn("acc")) = Promise.acc
           /\ Weight(Routed, CountOn("gpu")) = Promise.gpu
           /\ Promise.acc \in Nat /\ Promise.gpu \in Nat /\ Promise.acc + Promise.gpu = call.model.ndec
<1> DEFINE model == call.model
           ndec == model.ndec
           accelerated == Listed(call.list, ndec)
           count == Cardinality(accelerated)
           kind == IF model.deepstack # {} THEN "list" ELSE call.routing
           some == When(count > 0, << Group(acc, count, {}) >>)
           rest == When(ndec > count, << Group("gpu", ndec - count, {}) >>)
           all == call.routing = "default" \/ (call.routing = "conservative" /\ model.deepstack = {})
           n == IF acc = "gpu" THEN 0 ELSE IF all THEN ndec ELSE count
           Good(s) == Weight(s, CountOn("acc")) = n /\ Weight(s, CountOn("gpu")) = ndec - n
<1>1. ndec \in Nat \ {0} /\ acc \in {"gpu", "cpu", "pim"}
      /\ call.routing \in {"default", "conservative", "optimistic", "list"}
  BY CallsAssumption DEF Deployed
<1>2. count \in Nat /\ count <= ndec
  <2> HIDE DEF ndec
  <2> QED
    BY <1>1, ListedFinite
<1>3. Routed = CASE call.routing # "default" ->
                        (CASE kind = "conservative" -> << Group(acc, ndec, {}) >>
                           [] kind = "optimistic" -> some \o rest
                           [] kind = "list" -> LayerByLayer(ndec, accelerated, acc))
                 [] call.routing = "default" /\ model.deepstack # {} ->
                        LayerByLayer(ndec, 0..(ndec - 1), acc)
                 [] OTHER -> << Group(acc, ndec, {}) >>
  BY Zenon DEF Routed, Groups, ToGroups, AcceleratorRoutingName, Listed
<1>4. Promise = [acc |-> n, gpu |-> ndec - n]
  BY Zenon DEF Promise, Listed
<1>5. accelerated \in SUBSET (0..(ndec - 1)) /\ 0..(ndec - 1) \in SUBSET (0..(ndec - 1))
  BY DEF Listed
<1>6. Cardinality(0..(ndec - 1)) = ndec
  <2>1. 0 \in Int /\ ndec - 1 \in Int /\ 0 <= ndec - 1 /\ ndec - 1 - 0 + 1 = ndec
    BY <1>1
  <2> QED
    BY <2>1, FS_Interval
<1> HIDE DEF ndec, accelerated, count
<1>7. all => Good(<< Group(acc, ndec, {}) >>)
  BY <1>1, OneGroupSides
<1>8. ~all => Good(LayerByLayer(ndec, accelerated, acc))
  BY <1>1, <1>5, LayerByLayerSides DEF count
<1>9. all => Good(LayerByLayer(ndec, 0..(ndec - 1), acc))
  BY <1>1, <1>5, <1>6, LayerByLayerSides
<1>10. ~all => Good(some \o rest)
  <2>1. /\ count > 0 => Group(acc, count, {}) \in GroupRecords
        /\ ndec > count => Group("gpu", ndec - count, {}) \in GroupRecords
    BY <1>1, <1>2, GroupTyped
  <2>2. some \in Seq(GroupRecords) /\ rest \in Seq(GroupRecords)
    BY <2>1 DEF When
  <2>3. /\ Weight(some, CountOn("acc")) = IF acc = "gpu" THEN 0 ELSE count
        /\ Weight(some, CountOn("gpu")) = IF acc = "gpu" THEN count ELSE 0
    <3>1. CASE count > 0
      BY <1>1, <1>2, <3>1, OneGroupSides DEF When
    <3>2. CASE ~(count > 0)
      <4>1. some = <<>> /\ count = 0
        BY <1>2, <3>2 DEF When
      <4> QED
        BY <4>1, CountOnTyped, WeightOfOne
    <3> QED
      BY <3>1, <3>2
  <2>4. /\ Weight(rest, CountOn("acc")) = 0
        /\ Weight(rest, CountOn("gpu")) = ndec - count
    <3>1. CASE ndec > count
      BY <1>1, <1>2, <3>1, OneGroupSides DEF When
    <3>2. CASE ~(ndec > count)
      <4>1. rest = <<>> /\ ndec - count = 0
        BY <1>1, <1>2, <3>2 DEF When
      <4> QED
        BY <4>1, CountOnTyped, WeightOfOne
    <3> QED
      BY <3>1, <3>2
  <2> HIDE DEF some, rest
  <2>5. \A side : Weight(some \o rest, CountOn(side))
                    = Weight(some, CountOn(side)) + Weight(rest, CountOn(side))
    BY <2>2, CountOnTyped, WeightOfConcat
  <2> QED
    BY <1>1, <1>2, <2>3, <2>4, <2>5
<1> HIDE DEF Good, some, rest
<1>11. Good(Routed)
  <2>1. CASE call.routing = "default"
    BY <1>3, <1>7, <1>9, <2>1
  <2>2. CASE call.routing # "default"
    <3>1. CASE model.deepstack # {}
      BY <1>3, <1>8, <2>2, <3>1
    <3>2. CASE model.deepstack = {}
      BY <1>1, <1>3, <1>7, <1>8, <1>10, <2>2, <3>2
    <3> QED
      BY <3>1, <3>2
  <2> QED
    BY <2>1, <2>2
<1>12. n \in Nat /\ ndec - n \in Nat /\ n + (ndec - n) = ndec
  BY <1>1, <1>2
<1> HIDE DEF n
<1> QED
  BY <1>4, <1>11, <1>12 DEF Good, ndec

----------------------------------------------------------------------------
(* The loop over the groups implements the ledger.                         *)

(* The decoder layers on a side in the groups that are not in a set. *)
LeftIn(list, past, side) == [g \in DOMAIN list |-> IF g \notin past THEN OnSide(list[g], side) ELSE 0]
Left(list, past) == [side \in {"gpu", "acc"} |-> Total(LeftIn(list, past, side))]

LEMMA LeftTyped ==
    ASSUME NEW list \in Seq(GroupRecords), NEW past
    PROVE  /\ Len(list) \in Nat /\ DOMAIN list = 1..Len(list)
           /\ \A side : LeftIn(list, past, side) \in [1..Len(list) -> Nat]
           /\ Left(list, past) \in [{"gpu", "acc"} -> Nat]
<1>1. Len(list) \in Nat /\ DOMAIN list = 1..Len(list)
      /\ \A g \in DOMAIN list : list[g] \in GroupRecords
  OBVIOUS
<1>2. \A side : \A g \in DOMAIN list : OnSide(list[g], side) \in Nat
  BY <1>1 DEF OnSide, GroupRecords
<1>3. \A side : LeftIn(list, past, side) \in [1..Len(list) -> Nat]
  BY <1>1, <1>2 DEF LeftIn
<1>4. \A side : Total(LeftIn(list, past, side)) \in Nat
  BY <1>1, <1>3, TotalOfNaturals
<1> QED
  BY <1>1, <1>3, <1>4 DEF Left

(* One more group is past. *)
LEMMA OneGroupLess ==
    ASSUME NEW list \in Seq(GroupRecords), NEW past, NEW g \in DOMAIN list, g \notin past
    PROVE  \A side \in {"gpu", "acc"} :
               Left(list, past \cup {g})[side] = Left(list, past)[side] - OnSide(list[g], side)
<1> TAKE side \in {"gpu", "acc"}
<1> DEFINE n == Len(list)
           f == LeftIn(list, past, side)
           h == LeftIn(list, past \cup {g}, side)
<1>1. n \in Nat /\ DOMAIN list = 1..n /\ f \in [1..n -> Nat] /\ h \in [1..n -> Nat]
  BY LeftTyped
<1>2. (\A i \in (1..n) \ {g} : h[i] = f[i]) /\ h[g] = 0 /\ f[g] = OnSide(list[g], side)
  BY <1>1 DEF LeftIn
<1>3. Left(list, past \cup {g})[side] = Total(h) /\ Left(list, past)[side] = Total(f)
  BY DEF Left
<1> HIDE DEF n, f, h
<1>4. f \in [1..n -> Int] /\ h \in [1..n -> Int] /\ g \in 1..n
  BY <1>1
<1>5. Total(h) = Total(f) + (h[g] - f[g])
  BY <1>1, <1>2, <1>4, TotalOfChange
<1>6. f[g] \in Int /\ Total(f) \in Int
  BY <1>1, <1>4, TotalType
<1> QED
  BY <1>2, <1>3, <1>5, <1>6

LEMMA NoGroupLeft ==
    ASSUME NEW list \in Seq(GroupRecords)
    PROVE  Left(list, DOMAIN list) = [side \in {"gpu", "acc"} |-> 0]
<1>1. ASSUME NEW side PROVE Total(LeftIn(list, DOMAIN list, side)) = 0
  <2>1. /\ Len(list) \in Nat /\ LeftIn(list, DOMAIN list, side) \in [1..Len(list) -> Int]
        /\ \A i \in 1..Len(list) : LeftIn(list, DOMAIN list, side)[i] = 0
    BY LeftTyped DEF LeftIn
  <2> QED
    BY <2>1, TotalOfZeros
<1> QED
  BY <1>1 DEF Left

LEMMA PromiseTyped ==
    ASSUME Deployed
    PROVE  Promise \in [{"gpu", "acc"} -> Nat]
<1> DEFINE ndec == call.model.ndec
           count == Cardinality(Listed(call.list, ndec))
           all == \/ call.routing = "default"
                  \/ call.routing = "conservative" /\ call.model.deepstack = {}
           n == IF call.system = "dgx" THEN 0 ELSE IF all THEN ndec ELSE count
<1>1. Promise = [acc |-> n, gpu |-> ndec - n]
  BY Zenon DEF Promise, Listed
<1>2. ndec \in Nat
  BY CallsAssumption DEF Deployed
<1> HIDE DEF ndec
<1>3. count \in Nat /\ count <= ndec
  BY <1>2, ListedFinite
<1> HIDE DEF count, all
<1>4. n \in Nat /\ ndec - n \in Nat
  BY <1>2, <1>3
<1> HIDE DEF n
<1> QED
  BY <1>1, <1>4

LEMMA AllGroupsLeft ==
    ASSUME Inv, Sited, pc \in {"build"} \cup Late
    PROVE  Left(Routed, {}) = Promise
<1>1. Deployed /\ (call.system = "dgx" <=> acc = "gpu") /\ Routed \in Seq(GroupRecords)
  BY RoutedTyped DEF Inv, Sited
<1>2. ASSUME NEW side PROVE Total(LeftIn(Routed, {}, side)) = Weight(Routed, CountOn(side))
  <2> DEFINE list == Routed
  <2>1. list \in Seq(GroupRecords)
    BY <1>1
  <2> HIDE DEF list
  <2>2. \A g \in DOMAIN list : list[g] \in GroupRecords
    BY <2>1
  <2>3. LeftIn(list, {}, side) = [g \in DOMAIN list |-> CountOn(side)[list[g]]]
    BY <2>2 DEF LeftIn, CountOn
  <2> QED
    BY <2>3, Zenon DEF Weight, list
<1>3. /\ Weight(Routed, CountOn("acc")) = Promise["acc"]
      /\ Weight(Routed, CountOn("gpu")) = Promise["gpu"]
  BY <1>1, SidesOfRouted
<1>4. Left(Routed, {}) = [side \in {"gpu", "acc"} |-> Promise[side]]
  BY <1>2, <1>3 DEF Left
<1>5. Promise \in [{"gpu", "acc"} -> Nat]
  BY <1>1, PromiseTyped
<1> QED
  BY <1>4, <1>5

(* What is pending, in terms of the groups left, in a state and in the next one. *)
LEMMA PendingLeft ==
    /\ pc \in Late => /\ Pending(PromptPast) = Left(groups, PromptPast)
                      /\ Pending(TokensPast) = Left(groups, TokensPast)
    /\ pc \in Early \cup {"failed"} => /\ Pending(PromptPast) = Promise
                                      /\ Pending(TokensPast) = Promise
<1>1. ASSUME NEW past, pc \in Late PROVE Pending(past) = Left(groups, past)
  <2>1. pc \notin {"main", "set_xpu", "set_accelerator", "build", "failed"}
    BY <1>1 DEF Late, Pricing
  <2>2. \A side : LeftIn(groups, past, side)
          = [g \in DOMAIN groups |->
               IF g \notin past /\ (groups[g].device = "gpu" <=> side = "gpu")
               THEN groups[g].count ELSE 0]
    BY DEF LeftIn, OnSide
  <2> QED
    BY <2>1, <2>2, Zenon DEF Pending, Left
<1>2. ASSUME NEW past, pc \in Early \cup {"failed"} PROVE Pending(past) = Promise
  BY <1>2 DEF Pending, Early
<1> QED
  BY <1>1, <1>2

LEMMA PendingLeftNext ==
    ASSUME TRUE
    PROVE  /\ pc' \in Late => /\ Pending(PromptPast)' = Left(groups', PromptPast')
                              /\ Pending(TokensPast)' = Left(groups', TokensPast')
           /\ pc' \in Early \cup {"failed"} => /\ Pending(PromptPast)' = Promise'
                                              /\ Pending(TokensPast)' = Promise'
<1>1. ASSUME pc' \in Late
      PROVE  /\ Pending(PromptPast)' = Left(groups', PromptPast')
             /\ Pending(TokensPast)' = Left(groups', TokensPast')
  <2>1. pc' \notin {"main", "set_xpu", "set_accelerator", "build", "failed"}
    BY <1>1 DEF Late, Pricing
  <2>2. \A past, side : LeftIn(groups', past, side)
          = [g \in DOMAIN groups' |->
               IF g \notin past /\ (groups'[g].device = "gpu" <=> side = "gpu")
               THEN groups'[g].count ELSE 0]
    BY DEF LeftIn, OnSide
  <2> DEFINE Rest(past) == [side \in {"gpu", "acc"} |-> Total([g \in DOMAIN groups' |->
                 IF g \notin past /\ (groups'[g].device = "gpu" <=> side = "gpu")
                 THEN groups'[g].count ELSE 0])]
  <2>3. Pending(PromptPast)' = Rest(PromptPast') /\ Pending(TokensPast)' = Rest(TokensPast')
    BY <2>1 DEF Pending
  <2>4. \A past : Rest(past) = Left(groups', past)
    BY <2>2, ZenonT(30) DEF Left
  <2> HIDE DEF Rest
  <2> QED
    BY <2>3, <2>4, Zenon
<1>2. ASSUME pc' \in Early \cup {"failed"}
      PROVE  Pending(PromptPast)' = Promise' /\ Pending(TokensPast)' = Promise'
  BY <1>2 DEF Pending, Early
<1> QED
  BY <1>1, <1>2

(* output.csv holds no row of this run before the last step, and then its only row. *)
Rows ==
    /\ pc \in {"main", "failed"} => \A k \in DOMAIN csv : csv[k].run # "this"
    /\ pc \notin {"main", "failed", "done"} => csv = <<>>
    /\ pc = "done" => csv = << Row("this") >>

LEMMA RowsInit == Init => Rows
BY DEF Init, Rows, Row

LEMMA RowsNext ==
    ASSUME Inv, Rows, [Next]_vars
    PROVE  Rows'
<1>1. CASE UNCHANGED vars \/ Finished
  BY <1>1 DEF vars, Finished, Rows, Row
<1>2. CASE StartBySimRunner \/ Main
  <2>1. call.system \in {"dgx", "dgx-cpu", "dgx-attacc"}
    BY CallsAssumption DEF Inv, Deployed
  <2>2. /\ pc = "main" /\ (csv' = <<>> \/ csv' = csv)
        /\ pc' \in {"main", "failed"} \/ (pc' \in {"build", "set_xpu", "set_accelerator"} /\ csv' = <<>>)
    BY <1>2, <2>1 DEF StartBySimRunner, Main
  <2> QED
    BY <2>2 DEF Rows
<1>3. CASE SetXpu \/ SetAccelerator \/ Build
  <2>1. /\ pc \in {"set_xpu", "set_accelerator", "build"} /\ csv' = csv
        /\ pc' \in {"set_accelerator", "build", "failed", "vision", "sum"}
    BY <1>3 DEF SetXpu, SetAccelerator, Build, Simulated
  <2> QED
    BY <2>1 DEF Rows
<1>4. CASE SumLayer \/ GenLayer \/ EndVision \/ EndSum \/ EndStage
  <2>1. /\ pc \in Pricing /\ pc' \in Pricing \cup {"write"} /\ csv' = csv
    BY <1>4 DEF SumLayer, GenLayer, EndVision, EndSum, EndStage, Advance, NextBlock,
                Kept, Pricing
  <2> QED
    BY <2>1 DEF Rows, Pricing
<1>5. CASE NoThroughput
  <2>1. pc = "write" /\ pc' = "raised" /\ csv' = csv
    BY <1>5 DEF NoThroughput, Simulated
  <2> QED
    BY <2>1 DEF Rows
<1>6. CASE WriteRow
  BY <1>6 DEF WriteRow, Priced, Rows, Row
<1> QED
  BY <1>1, <1>2, <1>3, <1>4, <1>5, <1>6 DEF Next

(* Without a stage there is no time of generation, and a run whose row is  *)
(* written has one.                                                        *)
Generated ==
    /\ call.lout = 1 => g_perf.all = 0
    /\ pc = "done" => g_perf.all # 0

LEMMA GeneratedInit == Init => Generated
BY DEF Init, Generated, Zero, GKeys, SKeys

LEMMA GeneratedNext ==
    ASSUME Inv, Generated, [Next]_vars
    PROVE  Generated'
<1>1. CASE UNCHANGED vars \/ Finished
  BY <1>1 DEF vars, Finished, Generated
<1>2. CASE StartBySimRunner \/ Main \/ SetXpu \/ SetAccelerator \/ Build
  <2>1. call.system \in {"dgx", "dgx-cpu", "dgx-attacc"}
    BY CallsAssumption DEF Inv, Deployed
  <2>2. UNCHANGED <<call, g_perf>> /\ pc' # "done"
    BY <1>2, <2>1 DEF StartBySimRunner, Main, SetXpu, SetAccelerator, Build, Simulated, Priced
  <2> QED
    BY <2>2 DEF Generated
<1>3. CASE SumLayer \/ GenLayer \/ EndVision \/ EndSum
  <2>1. UNCHANGED <<call, g_perf>> /\ pc' # "done"
    BY <1>3 DEF SumLayer, GenLayer, EndVision, EndSum, Advance, NextBlock, Kept, Run
  <2> QED
    BY <2>1 DEF Generated
<1>4. CASE EndStage
  <2>1. call' = call /\ call.lout # 1 /\ pc' # "done"
    BY <1>4, CallsAssumption DEF EndStage, Advance, NextBlock, Run, Inv, Deployed, Placed
  <2> QED
    BY <2>1 DEF Generated
<1>5. CASE NoThroughput \/ WriteRow
  BY <1>5 DEF NoThroughput, WriteRow, GeneratesNothing, Simulated, Priced, Generated
<1> QED
  BY <1>1, <1>2, <1>3, <1>4, <1>5 DEF Next

LEMMA RowWhenDone ==
    ASSUME Rows
    PROVE  (\E k \in DOMAIN csv : csv[k].run = "this") <=> pc = "done"
BY DEF Rows, Row

LEMMA RowWhenDoneNext ==
    ASSUME Rows'
    PROVE  (\E k \in DOMAIN csv' : csv'[k].run = "this") <=> pc' = "done"
BY DEF Rows, Row

(* Pricing a group takes its layers off those that are left on its side. *)
LEMMA Debit ==
    ASSUME NEW before \in [{"gpu", "acc"} -> Nat], NEW after \in [{"gpu", "acc"} -> Nat],
           NEW part \in GroupRecords, part.count \in Nat \ {0},
           \A side \in {"gpu", "acc"} : after[side] = before[side] - OnSide(part, side)
    PROVE  \E d \in {"gpu", "acc"} :
               /\ after = [before EXCEPT ![d] = @ - part.count]
               /\ part.count \in 1..before[d] /\ OnSide(part, d) = part.count
<1>1. CASE part.device = "gpu"
  <2>1. OnSide(part, "gpu") = part.count /\ OnSide(part, "acc") = 0
    BY <1>1 DEF OnSide
  <2>2. after = [before EXCEPT !["gpu"] = @ - part.count] /\ part.count \in 1..before["gpu"]
    BY <2>1
  <2> QED
    BY <2>1, <2>2
<1>2. CASE part.device # "gpu"
  <2>1. OnSide(part, "acc") = part.count /\ OnSide(part, "gpu") = 0
    BY <1>2 DEF OnSide
  <2>2. after = [before EXCEPT !["acc"] = @ - part.count] /\ part.count \in 1..before["acc"]
    BY <2>1
  <2> QED
    BY <2>1, <2>2
<1> QED
  BY <1>1, <1>2

----------------------------------------------------------------------------
(* Each step prices a group, writes the row or leaves the ledger as it is. *)

LEMMA PastSets ==
    ASSUME Inv, pc \in Late
    PROVE  /\ groups \in Seq(GroupRecords) /\ group \in DOMAIN groups /\ group \in Nat
           /\ DOMAIN groups = 1..Len(groups) /\ Len(groups) \in Nat
           /\ pc \in Pricing => TokensPast = 1..(group - 1)
           /\ pc \in {"vision", "sum"} => PromptPast = TokensPast
           /\ pc = "gen" => PromptPast = TokensPast \cup {group}
           /\ pc \in {"write", "done", "raised"} => TokensPast = DOMAIN groups /\ PromptPast = DOMAIN groups
<1>1. groups = Routed /\ group \in DOMAIN groups /\ Routed \in Seq(GroupRecords)
  BY RoutedTyped DEF Inv, Placed
<1>2. /\ groups \in Seq(GroupRecords) /\ group \in DOMAIN groups /\ group \in Nat
      /\ DOMAIN groups = 1..Len(groups) /\ Len(groups) \in Nat /\ group <= Len(groups)
  BY <1>1
<1>3. pc \in Pricing => TokensPast = 1..(group - 1)
  <2> SUFFICES ASSUME pc \in Pricing PROVE TokensPast = 1..(group - 1)
    OBVIOUS
  <2>1. TokensPast = {g \in 1..Len(groups) : g < group}
    BY <1>2 DEF TokensPast, Over, Pricing
  <2> QED
    BY <1>2, <2>1
<1>4. pc \in {"vision", "sum"} => PromptPast = TokensPast
  BY DEF PromptPast
<1>5. pc = "gen" => PromptPast = TokensPast \cup {group}
  BY <1>2 DEF PromptPast
<1>6. pc \in {"write", "done", "raised"} => TokensPast = DOMAIN groups /\ PromptPast = DOMAIN groups
  BY DEF PromptPast, TokensPast, Over
<1> QED
  BY <1>2, <1>3, <1>4, <1>5, <1>6

LEMMA PastSetsNext ==
    ASSUME Inv, pc \in Late, pc' \in Late, groups' = groups, group' \in DOMAIN groups
    PROVE  /\ pc' \in Pricing => TokensPast' = 1..(group' - 1)
           /\ pc' \in {"vision", "sum"} => PromptPast' = TokensPast'
           /\ pc' = "gen" => PromptPast' = TokensPast' \cup {group'}
           /\ pc' \in {"write", "done", "raised"} => TokensPast' = DOMAIN groups /\ PromptPast' = DOMAIN groups
<1>1. DOMAIN groups = 1..Len(groups) /\ Len(groups) \in Nat /\ group' \in Nat /\ group' <= Len(groups)
  BY PastSets
<1>2. pc' \in Pricing => TokensPast' = 1..(group' - 1)
  <2> SUFFICES ASSUME pc' \in Pricing PROVE TokensPast' = 1..(group' - 1)
    OBVIOUS
  <2>1. TokensPast' = {g \in 1..Len(groups) : g < group'}
    BY <1>1 DEF TokensPast, Over, Pricing
  <2> QED
    BY <1>1, <2>1
<1>3. pc' \in {"vision", "sum"} => PromptPast' = TokensPast'
  BY DEF PromptPast
<1>4. pc' = "gen" => PromptPast' = TokensPast' \cup {group'}
  BY DEF PromptPast
<1>5. pc' \in {"write", "done", "raised"} => TokensPast' = DOMAIN groups /\ PromptPast' = DOMAIN groups
  BY DEF PromptPast, TokensPast, Over
<1> QED
  BY <1>2, <1>3, <1>4, <1>5

(* The step of a group: which groups are past before it and after. *)
LEMMA EndOfGroup ==
    ASSUME Inv, pc \in {"sum", "gen"}, Advance, UNCHANGED <<call, groups>>
    PROVE  /\ pc' \in Late /\ TokensPast' = TokensPast \cup {group}
           /\ PromptPast' = TokensPast \cup {group}
<1>1. /\ group \in DOMAIN groups /\ group \in Nat /\ pc \in Late /\ pc \in Pricing
      /\ DOMAIN groups = 1..Len(groups) /\ Len(groups) \in Nat /\ TokensPast = 1..(group - 1)
  BY PastSets DEF Late, Pricing
<1>2. CASE group < Len(groups)
  <2>1. pc' = "sum" /\ group' = group + 1 /\ group' \in DOMAIN groups
    BY <1>1, <1>2 DEF Advance, NextBlock
  <2>2. TokensPast' = 1..((group + 1) - 1) /\ PromptPast' = TokensPast'
    BY <1>1, <2>1, PastSetsNext DEF Late, Pricing
  <2> QED
    BY <1>1, <2>1, <2>2 DEF Late, Pricing
<1>3. CASE ~(group < Len(groups))
  <2>1. pc' = "write" /\ group' = group /\ group' \in DOMAIN groups
    BY <1>1, <1>3 DEF Advance, NextBlock
  <2>2. TokensPast' = DOMAIN groups /\ PromptPast' = DOMAIN groups
    BY <1>1, <2>1, PastSetsNext DEF Late
  <2> QED
    BY <1>1, <1>3, <2>1, <2>2 DEF Late
<1> QED
  BY <1>2, <1>3

LEMMA EndSumPast ==
    ASSUME Inv, EndSum
    PROVE  /\ pc \in Late /\ pc' \in Late /\ UNCHANGED <<call, groups>>
           /\ PromptPast' = PromptPast \cup {group} /\ group \notin PromptPast
           /\ call.lout > 1 => TokensPast' = TokensPast
<1>1. /\ group \in DOMAIN groups /\ group \in Nat /\ pc = "sum" /\ pc \in Late
      /\ TokensPast = 1..(group - 1) /\ PromptPast = TokensPast /\ UNCHANGED <<call, groups>>
  BY PastSets DEF EndSum, Run, Late, Pricing
<1>2. CASE call.lout > 1
  <2>1. pc' = "gen" /\ group' = group
    BY <1>2 DEF EndSum, NextBlock
  <2>2. TokensPast' = 1..(group - 1) /\ PromptPast' = TokensPast' \cup {group}
    BY <1>1, <2>1, PastSetsNext DEF Late, Pricing
  <2> QED
    BY <1>1, <2>1, <2>2 DEF Late, Pricing
<1>3. CASE ~(call.lout > 1)
  <2>1. Advance
    BY <1>3 DEF EndSum
  <2> QED
    BY <1>1, <1>3, <2>1, EndOfGroup
<1> QED
  BY <1>2, <1>3

LEMMA EndStagePast ==
    ASSUME Inv, EndStage
    PROVE  /\ pc \in Late /\ pc' \in Late /\ UNCHANGED <<call, groups>> /\ call.lout > 1
           /\ PromptPast' = PromptPast /\ PromptPast = TokensPast \cup {group}
           /\ group \notin TokensPast
           /\ TokensPast' = TokensPast \/ TokensPast' = TokensPast \cup {group}
<1>1. /\ group \in DOMAIN groups /\ group \in Nat /\ pc = "gen" /\ pc \in Late
      /\ TokensPast = 1..(group - 1) /\ PromptPast = TokensPast \cup {group}
      /\ UNCHANGED <<call, groups>> /\ call.lout > 1
  BY PastSets DEF EndStage, Run, Late, Pricing, Inv, Placed
<1>2. CASE stage < call.lout - 1
  <2>1. pc' = "gen" /\ group' = group
    BY <1>2 DEF EndStage, NextBlock
  <2>2. TokensPast' = 1..(group - 1) /\ PromptPast' = TokensPast' \cup {group}
    BY <1>1, <2>1, PastSetsNext DEF Late, Pricing
  <2> QED
    BY <1>1, <2>1, <2>2 DEF Late, Pricing
<1>3. CASE ~(stage < call.lout - 1)
  <2>1. Advance
    BY <1>3 DEF EndStage
  <2> QED
    BY <1>1, <2>1, EndOfGroup
<1> QED
  BY <1>2, <1>3

LedgerTokens == IF call.lout = 1 THEN [side \in {"gpu", "acc"} |-> 0] ELSE Pending(TokensPast)
LedgerRow == \E k \in DOMAIN csv : csv[k].run = "this"

LEMMA LedgerPricesPrompt ==
    ASSUME Inv, Columns, Rows, Rows', EndSum
    PROVE  \E d \in {"gpu", "acc"} : Ledger!PricePrompt(d)
<1> DEFINE before == Pending(PromptPast)
           after == Pending(PromptPast)'
           part == groups[group]
<1>1. /\ pc \in Late /\ pc' \in Late /\ UNCHANGED <<call, groups>>
      /\ PromptPast' = PromptPast \cup {group} /\ group \notin PromptPast
      /\ call.lout > 1 => TokensPast' = TokensPast
  BY EndSumPast
<1>2. groups \in Seq(GroupRecords) /\ group \in DOMAIN groups /\ part \in GroupRecords
  BY <1>1, PastSets
<1>3. before = Left(groups, PromptPast) /\ after = Left(groups, PromptPast \cup {group})
  BY <1>1, PendingLeft, PendingLeftNext
<1>4. before \in [{"gpu", "acc"} -> Nat] /\ after \in [{"gpu", "acc"} -> Nat]
  BY <1>2, <1>3, LeftTyped
<1>5. \A side \in {"gpu", "acc"} : after[side] = before[side] - OnSide(part, side)
  BY <1>1, <1>2, <1>3, OneGroupLess
<1>6. part.count \in Nat \ {0}
  BY <1>2 DEF GroupRecords
<1>7. LedgerTokens' = LedgerTokens
  <2>1. CASE call.lout = 1
    BY <1>1, <2>1 DEF LedgerTokens
  <2>2. CASE call.lout # 1
    <3>1. call.lout > 1
      BY <2>2, CallsAssumption DEF Inv, Deployed
    <3>2. Pending(TokensPast)' = Pending(TokensPast)
      BY <1>1, <3>1, PendingLeft, PendingLeftNext
    <3> QED
      BY <1>1, <3>2 DEF LedgerTokens
  <2> QED
    BY <2>1, <2>2
<1>8. Promise' = Promise
  BY <1>1 DEF Promise
<1>9. LedgerRow' = LedgerRow
  <2>1. pc # "done" /\ pc' # "done"
    BY DEF EndSum, Advance, NextBlock
  <2> QED
    BY <2>1, RowWhenDone, RowWhenDoneNext DEF LedgerRow
<1> HIDE DEF before, after, part
<1>10. PICK d \in {"gpu", "acc"} :
          after = [before EXCEPT ![d] = @ - part.count] /\ part.count \in 1..before[d]
  BY <1>2, <1>4, <1>5, <1>6, Debit
<1>11. \E n \in 1..before[d] : after = [before EXCEPT ![d] = @ - n]
  BY <1>10
<1> USE DEF before, after
<1> QED
  BY <1>7, <1>8, <1>9, <1>10, <1>11, Zenon DEF Ledger!PricePrompt, LedgerTokens, LedgerRow

LEMMA LedgerPricesTokens ==
    ASSUME Inv, Columns, Rows, Rows', EndStage
    PROVE  (\E d \in {"gpu", "acc"} : Ledger!PriceTokens(d)) \/ UNCHANGED Ledger!vars
<1> DEFINE before == Pending(TokensPast)
           after == Pending(TokensPast)'
           prompt == Pending(PromptPast)
           part == groups[group]
<1>1. /\ pc \in Late /\ pc' \in Late /\ UNCHANGED <<call, groups>> /\ call.lout > 1
      /\ PromptPast' = PromptPast /\ PromptPast = TokensPast \cup {group}
      /\ group \notin TokensPast
      /\ TokensPast' = TokensPast \/ TokensPast' = TokensPast \cup {group}
  BY EndStagePast
<1>2. groups \in Seq(GroupRecords) /\ group \in DOMAIN groups /\ part \in GroupRecords
  BY <1>1, PastSets
<1>3. /\ before = Left(groups, TokensPast) /\ after = Left(groups, TokensPast')
      /\ prompt = Left(groups, TokensPast \cup {group}) /\ prompt' = prompt
  BY <1>1, PendingLeft, PendingLeftNext
<1>4. before \in [{"gpu", "acc"} -> Nat] /\ after \in [{"gpu", "acc"} -> Nat]
      /\ prompt \in [{"gpu", "acc"} -> Nat]
  BY <1>2, <1>3, LeftTyped
<1>5. \A side \in {"gpu", "acc"} : prompt[side] = before[side] - OnSide(part, side)
  BY <1>1, <1>2, <1>3, OneGroupLess
<1>6. part.count \in Nat \ {0}
  BY <1>2 DEF GroupRecords
<1>7. call.lout # 1
  BY <1>1, CallsAssumption DEF Inv, Deployed
<1>8. Promise' = Promise
  BY <1>1 DEF Promise
<1>9. LedgerRow' = LedgerRow
  <2>1. pc # "done" /\ pc' # "done"
    BY DEF EndStage, Advance, NextBlock
  <2> QED
    BY <2>1, RowWhenDone, RowWhenDoneNext DEF LedgerRow
<1>10. LedgerTokens = before /\ LedgerTokens' = after
  BY <1>1, <1>7 DEF LedgerTokens
<1>11. CASE TokensPast' = TokensPast
  <2>1. after = before
    BY <1>3, <1>11
  <2>2. LedgerTokens' = LedgerTokens
    BY <1>10, <2>1, Zenon
  <2>3. UNCHANGED <<Promise, Pending(PromptPast), LedgerTokens, LedgerRow>>
    BY <1>3, <1>8, <1>9, <2>2
  <2> QED
    BY <2>3, Zenon DEF Ledger!vars, LedgerTokens, LedgerRow
<1>12. CASE TokensPast' = TokensPast \cup {group}
  <2>1. after = prompt
    BY <1>3, <1>12
  <2> HIDE DEF before, after, prompt, part
  <2>2. PICK d \in {"gpu", "acc"} :
           /\ after = [before EXCEPT ![d] = @ - part.count]
           /\ part.count \in 1..before[d] /\ OnSide(part, d) = part.count
    BY <1>2, <1>4, <1>5, <1>6, <2>1, Debit
  <2>3. before[d] \in Nat /\ prompt[d] = before[d] - part.count
    BY <1>4, <1>5, <2>2
  <2>4. part.count \in 1..(before[d] - prompt[d])
    BY <1>6, <2>2, <2>3
  <2>5. \E n \in 1..(before[d] - prompt[d]) : after = [before EXCEPT ![d] = @ - n]
    BY <2>2, <2>4
  <2>6. \E n \in 1..(LedgerTokens[d] - prompt[d]) :
            LedgerTokens' = [LedgerTokens EXCEPT ![d] = @ - n]
    BY <1>10, <2>5, Zenon
  <2> USE DEF prompt
  <2>7. prompt' = prompt
    BY <1>3
  <2>8. Ledger!PriceTokens(d)
    BY <1>8, <1>9, <2>6, <2>7, Zenon DEF Ledger!PriceTokens, LedgerTokens, LedgerRow
  <2> QED
    BY <2>8
<1> QED
  BY <1>1, <1>11, <1>12

LEMMA LedgerWritesRow ==
    ASSUME Inv, Rows, Rows', WriteRow
    PROVE  Ledger!WriteRow
<1>1. /\ pc = "write" /\ pc' = "done" /\ pc \in Late /\ pc' \in Late
      /\ UNCHANGED <<call, groups, group>>
  BY DEF WriteRow, Priced, Late
<1>2. /\ groups \in Seq(GroupRecords) /\ group' \in DOMAIN groups
      /\ TokensPast = DOMAIN groups /\ PromptPast = DOMAIN groups
  BY <1>1, PastSets
<1>3. TokensPast' = DOMAIN groups /\ PromptPast' = DOMAIN groups
  BY <1>1, <1>2, PastSetsNext
<1>4. /\ Pending(PromptPast) = Left(groups, DOMAIN groups)
      /\ Pending(TokensPast) = Left(groups, DOMAIN groups)
      /\ Pending(PromptPast)' = Left(groups, DOMAIN groups)
      /\ Pending(TokensPast)' = Left(groups, DOMAIN groups)
  BY <1>1, <1>2, <1>3, PendingLeft, PendingLeftNext
<1>5. Left(groups, DOMAIN groups) = [side \in {"gpu", "acc"} |-> 0]
  BY <1>2, NoGroupLeft
<1>6. Promise' = Promise
  BY <1>1 DEF Promise
<1>7. ~LedgerRow /\ LedgerRow'
  BY <1>1, RowWhenDone, RowWhenDoneNext DEF LedgerRow
<1>8. LedgerTokens = [side \in {"gpu", "acc"} |-> 0] /\ LedgerTokens' = LedgerTokens
  BY <1>1, <1>4, <1>5 DEF LedgerTokens
<1>9. Ledger!None = [side \in {"gpu", "acc"} |-> 0]
  BY DEF Ledger!None, Ledger!Sides
<1> QED
  BY <1>4, <1>5, <1>6, <1>7, <1>8, <1>9, Zenon DEF Ledger!WriteRow, LedgerTokens, LedgerRow

LEMMA LedgerKept ==
    ASSUME Inv, Rows, Rows', UNCHANGED <<call, groups>>, pc \in Late, pc' \in Late,
           pc # "done", pc' # "done", TokensPast' = TokensPast, PromptPast' = PromptPast
    PROVE  UNCHANGED Ledger!vars
<1>1. Pending(PromptPast)' = Pending(PromptPast) /\ Pending(TokensPast)' = Pending(TokensPast)
  BY PendingLeft, PendingLeftNext
<1>2. LedgerTokens' = LedgerTokens
  BY <1>1 DEF LedgerTokens
<1>3. LedgerRow' = LedgerRow
  BY RowWhenDone, RowWhenDoneNext DEF LedgerRow
<1>4. Promise' = Promise
  BY DEF Promise
<1> QED
  BY <1>1, <1>2, <1>3, <1>4, Zenon DEF Ledger!vars, LedgerTokens, LedgerRow

(* Until the graph is built nothing is priced. *)
LEMMA LedgerBegins ==
    ASSUME Inv, Sited, Sited', Rows, Rows', Inv',
           StartBySimRunner \/ Main \/ SetXpu \/ SetAccelerator \/ Build
    PROVE  UNCHANGED Ledger!vars
<1>1. Pending(PromptPast) = Promise /\ Pending(TokensPast) = Promise
  <2>1. pc \in Early
    BY DEF StartBySimRunner, Main, SetXpu, SetAccelerator, Build, Early
  <2> QED
    BY <2>1, PendingLeft
<1>2. call' = call /\ Promise' = Promise
  <2>1. call' = call
    BY DEF StartBySimRunner, Main, SetXpu, SetAccelerator, Build
  <2> QED
    BY <2>1 DEF Promise
<1>3. Pending(PromptPast)' = Promise /\ Pending(TokensPast)' = Promise
  <2>1. CASE pc' \in Early \cup {"failed"}
    BY <1>2, <2>1, PendingLeftNext
  <2>2. CASE pc' \notin Early \cup {"failed"}
    <3>1. /\ pc = "build" /\ pc' \in {"vision", "sum"} /\ groups' = Routed /\ group' = group
          /\ UNCHANGED <<call, acc>>
      <4>1. call.system \in {"dgx", "dgx-cpu", "dgx-attacc"}
        BY CallsAssumption DEF Inv, Deployed
      <4> QED
        BY <2>2, <4>1 DEF StartBySimRunner, Main, SetXpu, SetAccelerator, Build, Early
    <3>2. group = 1 /\ Left(Routed, {}) = Promise
      BY <3>1, AllGroupsLeft DEF Inv, Placed, Early
    <3>3. PromptPast' = TokensPast' /\ TokensPast' = {}
      <4>1. TokensPast' = {g \in DOMAIN groups' : g < 1}
        BY <3>1, <3>2 DEF TokensPast, Over
      <4>2. Routed \in Seq(GroupRecords)
        BY RoutedTyped DEF Inv
      <4>3. TokensPast' = {}
        BY <3>1, <4>1, <4>2
      <4> QED
        BY <3>1, <4>3 DEF PromptPast
    <3> QED
      BY <3>1, <3>2, <3>3, PendingLeftNext DEF Late, Pricing
  <2> QED
    BY <2>1, <2>2
<1>4. LedgerTokens' = LedgerTokens
  BY <1>1, <1>2, <1>3 DEF LedgerTokens
<1>5. LedgerRow' = LedgerRow
  <2>1. pc # "done" /\ pc' # "done"
    <3>1. call.system \in {"dgx", "dgx-cpu", "dgx-attacc"}
      BY CallsAssumption DEF Inv, Deployed
    <3> QED
      BY <3>1 DEF StartBySimRunner, Main, SetXpu, SetAccelerator, Build
  <2> QED
    BY <2>1, RowWhenDone, RowWhenDoneNext DEF LedgerRow
<1> QED
  BY <1>1, <1>2, <1>3, <1>4, <1>5, Zenon DEF Ledger!vars, LedgerTokens, LedgerRow

LEMMA LedgerInit ==
    ASSUME Init
    PROVE  Ledger!Init
<1>1. Inv /\ Rows /\ pc = "main" /\ call \in Calls
  BY InitInv, RowsInit DEF Init
<1>2. Pending(PromptPast) = Promise /\ Pending(TokensPast) = Promise
  BY <1>1, PendingLeft DEF Early
<1>3. Promise \in [{"gpu", "acc"} -> Nat]
  BY <1>1, PromiseTyped DEF Inv
<1>4. ~LedgerRow
  BY <1>1, RowWhenDone DEF LedgerRow
<1>5. LedgerTokens = Promise \/ LedgerTokens = [side \in {"gpu", "acc"} |-> 0]
  BY <1>2 DEF LedgerTokens
<1>6. Ledger!None = [side \in {"gpu", "acc"} |-> 0] /\ Ledger!Sides = {"gpu", "acc"}
  BY DEF Ledger!None, Ledger!Sides
<1>7. LedgerTokens \in {Promise, Ledger!None} /\ LedgerRow = FALSE
      /\ Promise \in [Ledger!Sides -> Nat]
  <2>1. LedgerRow \in BOOLEAN
    BY DEF LedgerRow
  <2> QED
    BY <1>3, <1>4, <1>5, <1>6, <2>1
<1> QED
  BY <1>2, <1>7, Zenon DEF Ledger!Init, LedgerTokens, LedgerRow

LInv == IInv /\ Sited /\ Rows

LEMMA LInvHolds == Spec => []LInv
<1>1. Init => LInv
  BY InitInv, ColumnsInit, SitedInit, RowsInit DEF LInv, IInv
<1>2. LInv /\ [Next]_vars => LInv'
  BY NextInv, ColumnsNext, SitedNext, RowsNext DEF LInv, IInv
<1> QED
  BY <1>1, <1>2, PTL DEF Spec

LEMMA LedgerSteps ==
    ASSUME LInv, LInv', [Next]_vars
    PROVE  [Ledger!Next]_(Ledger!vars)
<1>1. Inv /\ Columns /\ Sited /\ Rows /\ Inv' /\ Sited' /\ Rows'
  BY DEF LInv, IInv
<1>2. CASE UNCHANGED vars \/ Finished
  <2>1. UNCHANGED vars
    BY <1>2 DEF Finished
  <2> QED
    BY <2>1 DEF vars, Ledger!vars, Promise, Pending, PromptPast, TokensPast, Over
<1>3. CASE StartBySimRunner \/ Main \/ SetXpu \/ SetAccelerator \/ Build
  <2>1. UNCHANGED Ledger!vars
    BY <1>1, <1>3, LedgerBegins
  <2> QED
    BY <2>1
<1>4. CASE SumLayer \/ GenLayer
  <2>1. /\ pc \in Pricing /\ pc' = pc /\ UNCHANGED <<call, groups, group>>
    BY <1>4 DEF SumLayer, GenLayer, Kept, Run, Pricing
  <2>2. TokensPast' = TokensPast /\ PromptPast' = PromptPast
    BY <2>1 DEF TokensPast, PromptPast, Over
  <2>3. UNCHANGED Ledger!vars
    BY <1>1, <2>1, <2>2, LedgerKept DEF Late, Pricing
  <2> QED
    BY <2>3
<1>5. CASE EndVision
  <2>1. /\ pc = "vision" /\ pc' = "sum" /\ UNCHANGED <<call, groups, group>>
    BY <1>5 DEF EndVision, NextBlock, Run
  <2>2. TokensPast' = TokensPast /\ PromptPast' = PromptPast
    BY <2>1 DEF TokensPast, PromptPast, Over
  <2>3. UNCHANGED Ledger!vars
    BY <1>1, <2>1, <2>2, LedgerKept DEF Late, Pricing
  <2> QED
    BY <2>3
<1>6. CASE EndSum
  <2>1. \E d \in {"gpu", "acc"} : Ledger!PricePrompt(d)
    BY <1>1, <1>6, LedgerPricesPrompt
  <2> QED
    BY <2>1 DEF Ledger!Next, Ledger!Sides
<1>7. CASE EndStage
  <2>1. (\E d \in {"gpu", "acc"} : Ledger!PriceTokens(d)) \/ UNCHANGED Ledger!vars
    BY <1>1, <1>7, LedgerPricesTokens
  <2> QED
    BY <2>1 DEF Ledger!Next, Ledger!Sides
<1>8. CASE NoThroughput
  <2>1. /\ pc = "write" /\ pc' = "raised" /\ UNCHANGED <<call, groups, group>>
    BY <1>8 DEF NoThroughput, Simulated, Priced
  <2>2. TokensPast' = TokensPast /\ PromptPast' = PromptPast
    BY <2>1 DEF TokensPast, PromptPast, Over
  <2>3. UNCHANGED Ledger!vars
    BY <1>1, <2>1, <2>2, LedgerKept DEF Late, Pricing
  <2> QED
    BY <2>3
<1>9. CASE WriteRow
  BY <1>1, <1>9, LedgerWritesRow DEF Ledger!Next
<1> QED
  BY <1>2, <1>3, <1>4, <1>5, <1>6, <1>7, <1>8, <1>9 DEF Next

(* Whatever the routing, the stages and the accelerator, the loop of        *)
(* simulate() over the groups prices the prompt and the tokens of every    *)
(* decoder layer once, on the side the routing names for it, the tokens    *)
(* after the prompt, and main writes its row only when nothing is left.    *)
THEOREM KeepsTheLedger == Spec => ImplementsLedger
<1>1. Init => Ledger!Init
  BY LedgerInit
<1>2. LInv /\ LInv' /\ [Next]_vars => [Ledger!Next]_(Ledger!vars)
  BY LedgerSteps
<1> QED
  BY <1>1, <1>2, LInvHolds, PTL DEF Spec, ImplementsLedger, Ledger!Spec

----------------------------------------------------------------------------
(* What the graphs send and keep.  The layers of a block that do not count *)
(* weigh nothing, so a sum over the block is one over the others.          *)

LEMMA WeightOfNone ==
    ASSUME NEW S, NEW w \in [S -> Int], NEW block \in Seq(S), \A l \in Elements(block) : w[l] = 0
    PROVE  Weight(block, w) = 0
<1> DEFINE f == [i \in DOMAIN block |-> w[block[i]]]
<1>1. f \in [1..Len(block) -> Int] /\ Len(block) \in Nat /\ DOMAIN block = 1..Len(block)
  BY WeightOfBlock
<1>2. \A i \in 1..Len(block) : f[i] = 0
  BY <1>1 DEF Elements
<1> HIDE DEF f
<1>3. Total(f) = 0
  BY <1>1, <1>2, TotalOfZeros
<1> QED
  BY <1>3 DEF Weight, f

LEMMA ShareOut ==
    \A a \in Nat : \A b \in Nat \ {0} : a % b = 0 => (a \div b) * b = a
OBVIOUS

LEMMA WeightOfAttention ==
    ASSUME NEW t, Sized(t), NEW batch \in Nat, NEW queries \in Nat, NEW keys \in Nat,
           NEW w \in [DecoderLayers(keys) -> Int]
    PROVE  LET heads == batch * (t.info.q \div t.attn_tp)
               kv == batch * (t.info.kv \div t.attn_tp)
               x == [Layer("score", "MATMUL", queries, keys, t.info.dhead, heads) EXCEPT !.pim = kv]
               y == [Layer("softmax", "SOFTMAX", queries, keys, 1, heads) EXCEPT !.pim = kv]
               z == [Layer("context", "MATMUL", queries, t.info.dhead, keys, heads) EXCEPT !.pim = kv]
           IN  /\ {x, y, z} \subseteq DecoderLayers(keys)
               /\ Weight(Attention(t, batch, queries, keys), w) = w[x] + w[y] + w[z]
<1> DEFINE heads == batch * (t.info.q \div t.attn_tp)
           kv == batch * (t.info.kv \div t.attn_tp)
           x == [Layer("score", "MATMUL", queries, keys, t.info.dhead, heads) EXCEPT !.pim = kv]
           y == [Layer("softmax", "SOFTMAX", queries, keys, 1, heads) EXCEPT !.pim = kv]
           z == [Layer("context", "MATMUL", queries, t.info.dhead, keys, heads) EXCEPT !.pim = kv]
           D == DecoderLayers(keys)
<1>1. Attention(t, batch, queries, keys) = <<x, y, z>>
  BY Zenon DEF Attention
<1>2. PICK a, b, c \in D : Attention(t, batch, queries, keys) = <<a, b, c>>
  <2>1. IsAttention(Attention(t, batch, queries, keys), D)
    BY AttentionTyped
  <2> HIDE DEF D
  <2> QED
    BY <2>1 DEF IsAttention
<1> HIDE DEF x, y, z, D
<1>3. x \in D /\ y \in D /\ z \in D
  <2>1. <<x, y, z>> = <<a, b, c>>
    BY <1>1, <1>2
  <2>2. x = a /\ y = b /\ z = c
    BY <2>1
  <2> QED
    BY <1>2, <2>2
<1>4. w \in [D -> Int]
  BY DEF D
<1>5. Weight(<<x, y, z>>, w) = w[x] + w[y] + w[z]
  BY <1>3, <1>4, WeightOfThree
<1> QED
  BY <1>1, <1>3, <1>5 DEF x, y, z, D

(* The layers that follow attention. *)
Following(l) ==
    /\ l.type \in {"FC", "G2G", "NORM", "ACT"}
    /\ l.name \in {"proj", "comm_g2g", "norm1", "norm2", "ff1", "ff2", "ff3", "glu", "gelu"}

LEMMA AfterWeighsNothing ==
    ASSUME NEW t, Sized(t), NEW tokens \in Nat, NEW keys, NEW w \in [DecoderLayers(keys) -> Int],
           \A l \in DecoderLayers(keys) : Following(l) => w[l] = 0
    PROVE  Weight(AfterAttention(t, tokens), w) = 0
<1> DEFINE proj == Layer("proj", "FC", tokens, t.info.hdim, t.info.hdim \div t.fc_tp, 1)
           reduce == Layer("comm_g2g", "G2G", tokens, t.info.hdim, 1, 1)
           norm1 == Layer("norm1", "NORM", tokens, t.info.hdim, 1, 1)
           norm2 == Layer("norm2", "NORM", tokens, t.info.hdim, 1, 1)
           ff == FeedForwardLayers(t, tokens)
           D == DecoderLayers(keys)
<1>1. /\ {proj, reduce, norm1, norm2} \subseteq D
      /\ Weight(AfterAttention(t, tokens), w)
           = w[proj] + w[reduce] + w[norm1] + Weight(ff, w) + w[reduce] + w[norm2]
  BY AfterAttentionTyped
<1>2. Following(proj) /\ Following(reduce) /\ Following(norm1) /\ Following(norm2)
  BY DEF Layer, Following
<1>3. ff \in Seq(D) /\ \A l \in Elements(ff) : Following(l) /\ l \in D
  <2>1. ff \in Seq(D) /\ \A l \in Elements(ff) : IsFeedForward(l)
    BY FeedForwardTyped
  <2> HIDE DEF ff, D
  <2> QED
    BY <2>1 DEF Elements, IsFeedForward, Following
<1> HIDE DEF proj, reduce, norm1, norm2, ff
<1>4. w[proj] = 0 /\ w[reduce] = 0 /\ w[norm1] = 0 /\ w[norm2] = 0
  BY <1>1, <1>2
<1>5. Weight(ff, w) = 0
  <2>1. \A l \in Elements(ff) : w[l] = 0
    BY <1>3
  <2> QED
    BY <1>3, <2>1, WeightOfNone
<1> QED
  BY <1>1, <1>4, <1>5

(* What a layer of a decoder sends, returns, computes for heads, reads of the *)
(* KV cache, and whether it adds the features of a vision tower.              *)
Counted(of, l) ==
    CASE of = "sent" -> IF l.type = "X2G" /\ l.name # "comm_x2g_return" THEN l.n ELSE 0
      [] of = "returned" -> IF l.name = "comm_x2g_return" THEN l.n ELSE 0
      [] of = "heads" -> IF l.name = "context" THEN l.ops * l.n ELSE 0
      [] of = "read" -> IF l.type = "MATMUL" THEN l.n * l.k * l.pim ELSE 0
      [] of = "deep" -> IF l.name = "deepstack_add" THEN 1 ELSE 0
Countings == {"sent", "returned", "heads", "read", "deep"}
CountIn(of, block) == Total([i \in DOMAIN block |-> Counted(of, block[i])])
CountingOver(of, keys) == [l \in DecoderLayers(keys) |-> Counted(of, l)]

LEMMA CountIsWeight ==
    ASSUME NEW of \in Countings, NEW keys, NEW block \in Seq(DecoderLayers(keys))
    PROVE  /\ CountingOver(of, keys) \in [DecoderLayers(keys) -> Int]
           /\ CountIn(of, block) = Weight(block, CountingOver(of, keys))
           /\ \A l \in DecoderLayers(keys) : Following(l) => CountingOver(of, keys)[l] = 0
<1>1. ASSUME NEW l \in DecoderLayers(keys) PROVE Counted(of, l) \in Int
  <2>1. l.n \in Int /\ l.k \in Int /\ l.ops \in Int /\ l.pim \in Int
    BY DEF DecoderLayers, Layers
  <2>2. l.ops * l.n \in Int /\ l.n * l.k * l.pim \in Int
    BY <2>1
  <2> QED
    BY <2>1, <2>2 DEF Counted, Countings
<1>2. CountingOver(of, keys) \in [DecoderLayers(keys) -> Int]
  BY <1>1 DEF CountingOver
<1>3. CountIn(of, block) = Weight(block, CountingOver(of, keys))
  <2> DEFINE D == DecoderLayers(keys)
  <2>1. \A i \in DOMAIN block : block[i] \in D
    <3>1. block \in Seq(D)
      OBVIOUS
    <3> HIDE DEF D
    <3> QED
      BY <3>1
  <2>2. [i \in DOMAIN block |-> Counted(of, block[i])]
          = [i \in DOMAIN block |-> CountingOver(of, keys)[block[i]]]
    BY <2>1 DEF CountingOver
  <2> QED
    BY <2>2, Zenon DEF CountIn, Weight
<1>4. ASSUME NEW l \in DecoderLayers(keys), Following(l) PROVE Counted(of, l) = 0
  BY <1>4 DEF Counted, Countings, Following
<1> QED
  BY <1>2, <1>3, <1>4 DEF CountingOver

(* The shards of a transformer, once _split has found that they share out evenly. *)
LEMMA SharesEvenly ==
    ASSUME NEW t, Sized(t), Splits(t)
    PROVE  /\ (2 * (KvOut(t) \div t.fc_tp) + QOut(t) \div t.fc_tp) * t.fc_tp = QkvOut(t)
           /\ (QkvOut(t) \div t.fc_tp) * t.fc_tp = QkvOut(t)
           /\ QOut(t) \div t.attn_tp = (t.info.q \div t.attn_tp) * t.info.dhead
           /\ (t.info.kv \div t.attn_tp) * t.attn_tp = t.info.kv
<1> DEFINE fc == t.fc_tp
           attn == t.attn_tp
           q == t.info.q
           kv == t.info.kv
           dhead == t.info.dhead
           qOut == QOut(t)
           kvOut == KvOut(t)
<1>1. /\ fc \in Nat \ {0} /\ attn \in Nat \ {0} /\ q \in Nat /\ kv \in Nat /\ dhead \in Nat
      /\ qOut \in Nat /\ kvOut \in Nat
  BY SizesAreNumbers DEF Sized
<1>2. /\ qOut % fc = 0 /\ kvOut % fc = 0 /\ (qOut + 2 * kvOut) % fc = 0
      /\ q % attn = 0 /\ kv % attn = 0 /\ qOut % attn = 0
  BY DEF Splits, QkvOut
<1>3. QkvOut(t) = qOut + 2 * kvOut /\ qOut = q * dhead
  BY DEF QkvOut, QOut
<1> HIDE DEF fc, attn, q, kv, dhead, qOut, kvOut
<1>4. /\ (qOut \div fc) * fc = qOut /\ (kvOut \div fc) * fc = kvOut
      /\ ((qOut + 2 * kvOut) \div fc) * fc = qOut + 2 * kvOut
      /\ (q \div attn) * attn = q /\ (kv \div attn) * attn = kv
      /\ (qOut \div attn) * attn = qOut
  <2>1. qOut + 2 * kvOut \in Nat
    BY <1>1
  <2> QED
    BY <1>1, <1>2, <2>1, ShareOut
<1>5. (2 * (kvOut \div fc) + qOut \div fc) * fc = qOut + 2 * kvOut
  <2>1. \A a, b \in Int : (2 * a + b) * fc = 2 * (a * fc) + b * fc
    BY <1>1
  <2>2. kvOut \div fc \in Int /\ qOut \div fc \in Int
    BY <1>1
  <2> QED
    BY <1>1, <1>4, <2>1, <2>2
<1>6. qOut \div attn = (q \div attn) * dhead
  <2> DEFINE a == q \div attn
             b == qOut \div attn
  <2>1. a \in Int /\ b \in Int /\ a * attn = q /\ b * attn = qOut
    BY <1>1, <1>4
  <2> HIDE DEF a, b
  <2>2. (a * attn) * dhead = (a * dhead) * attn
    BY <1>1, <2>1
  <2>3. b * attn = (a * dhead) * attn
    BY <1>3, <2>1, <2>2
  <2>4. \A x, y \in Int : x * attn = y * attn => x = y
    BY <1>1
  <2>5. a * dhead \in Int
    BY <1>1, <2>1
  <2>6. b = a * dhead
    BY <2>1, <2>3, <2>4, <2>5
  <2> QED
    BY <2>6 DEF a, b
<1> QED
  BY <1>3, <1>4, <1>5, <1>6 DEF fc, attn, q, kv, dhead, qOut, kvOut

LEMMA AttentionCounts ==
    ASSUME NEW t, Sized(t), NEW batch \in Nat, NEW queries \in Nat, NEW keys \in Nat
    PROVE  LET att == Attention(t, batch, queries, keys)
               kv == batch * (t.info.kv \div t.attn_tp)
           IN  /\ \A of \in {"sent", "returned", "deep"} : Weight(att, CountingOver(of, keys)) = 0
               /\ Weight(att, CountingOver("heads", keys))
                    = (batch * (t.info.q \div t.attn_tp)) * t.info.dhead
               /\ Weight(att, CountingOver("read", keys))
                    = keys * t.info.dhead * kv + t.info.dhead * keys * kv
<1> DEFINE att == Attention(t, batch, queries, keys)
           heads == batch * (t.info.q \div t.attn_tp)
           kv == batch * (t.info.kv \div t.attn_tp)
           dhead == t.info.dhead
           x == [Layer("score", "MATMUL", queries, keys, dhead, heads) EXCEPT !.pim = kv]
           y == [Layer("softmax", "SOFTMAX", queries, keys, 1, heads) EXCEPT !.pim = kv]
           z == [Layer("context", "MATMUL", queries, dhead, keys, heads) EXCEPT !.pim = kv]
           D == DecoderLayers(keys)
           w(of) == CountingOver(of, keys)
<1>1. \A of \in Countings : w(of) \in [D -> Int]
  <2>1. <<>> \in Seq(D)
    OBVIOUS
  <2> QED
    BY <2>1, CountIsWeight
<1>2. /\ x \in D /\ y \in D /\ z \in D
      /\ \A of \in Countings : Weight(att, w(of)) = w(of)[x] + w(of)[y] + w(of)[z]
  <2>1. ASSUME NEW v \in [D -> Int]
        PROVE  /\ {x, y, z} \subseteq D /\ Weight(att, v) = v[x] + v[y] + v[z]
    BY WeightOfAttention
  <2> HIDE DEF att, x, y, z, D, w
  <2> QED
    BY <1>1, <2>1 DEF Countings
<1>3. heads \in Nat /\ kv \in Nat /\ dhead \in Nat
  BY SizesAreNumbers DEF Sized
<1>4. /\ x.name = "score" /\ x.type = "MATMUL" /\ x.n = keys /\ x.k = dhead /\ x.pim = kv
      /\ y.name = "softmax" /\ y.type = "SOFTMAX"
      /\ z.name = "context" /\ z.type = "MATMUL" /\ z.n = dhead /\ z.k = keys /\ z.pim = kv
      /\ z.ops = heads
  <2> HIDE DEF heads, kv, dhead
  <2> QED
    BY DEF Layer
<1> HIDE DEF heads, kv, dhead, x, y, z, att
<1>5. \A of : w(of)[x] = Counted(of, x) /\ w(of)[y] = Counted(of, y) /\ w(of)[z] = Counted(of, z)
  BY <1>2 DEF CountingOver
<1> HIDE DEF w, D
<1>6. \A of \in {"sent", "returned", "deep"} : Weight(att, w(of)) = 0
  BY <1>2, <1>4, <1>5 DEF Counted, Countings
<1>7. Weight(att, w("heads")) = heads * dhead
  <2>1. w("heads")[x] = 0 /\ w("heads")[y] = 0 /\ w("heads")[z] = heads * dhead
    BY <1>4, <1>5 DEF Counted
  <2>2. heads * dhead \in Int
    BY <1>3
  <2> QED
    BY <1>2, <2>1, <2>2 DEF Countings
<1>8. Weight(att, w("read")) = keys * dhead * kv + dhead * keys * kv
  <2>1. /\ w("read")[x] = keys * dhead * kv /\ w("read")[y] = 0
        /\ w("read")[z] = dhead * keys * kv
    BY <1>4, <1>5 DEF Counted
  <2>2. keys * dhead * kv \in Int /\ dhead * keys * kv \in Int
    BY <1>3
  <2> QED
    BY <1>2, <2>1, <2>2 DEF Countings
<1> QED
  BY <1>6, <1>7, <1>8 DEF att, heads, kv, dhead, w

SumCountsTo(t, batch, lin, hetero, idx) ==
    LET block == BuildSum(t, batch, lin, hetero, idx)
    IN  /\ CountIn("sent", block)
             = IF hetero THEN 2 * (KvOut(t) \div t.fc_tp) + QOut(t) \div t.fc_tp ELSE 0
        /\ CountIn("returned", block) = IF hetero THEN QOut(t) \div t.attn_tp ELSE 0
        /\ CountIn("heads", block) = (batch * (t.info.q \div t.attn_tp)) * t.info.dhead
        /\ CountIn("deep", block) = IF idx \cap t.info.deepstack # {} THEN 1 ELSE 0

LEMMA SumCounts ==
    ASSUME NEW t, Sized(t), NEW batch \in Nat, NEW lin \in Nat, NEW hetero \in BOOLEAN, NEW idx
    PROVE  SumCountsTo(t, batch, lin, hetero, idx)
<1> DEFINE tokens == batch * lin
           D == DecoderLayers(lin)
           qkv == Qkv(t, tokens)
           kv == Move("comm_x2g_kv", tokens, 2 * (KvOut(t) \div t.fc_tp))
           q == Move("comm_x2g_q", tokens, QOut(t) \div t.fc_tp)
           deep == Layer("deepstack_add", "ACT", tokens, t.info.hdim, 1, 1)
           ret == Return(t, tokens)
           att == Attention(t, batch, lin, lin)
           after == AfterAttention(t, tokens)
           isDeep == idx \cap t.info.deepstack # {}
           block == BuildSum(t, batch, lin, hetero, idx)
           w(of) == CountingOver(of, lin)
<1>1. /\ {qkv, kv, q, deep, ret} \subseteq D /\ block \in Seq(D)
      /\ \A v \in [D -> Int] : Weight(block, v)
           = v[qkv] + (IF hetero THEN v[kv] + v[q] ELSE 0) + Weight(att, v)
               + (IF isDeep THEN v[deep] ELSE 0) + (IF hetero THEN v[ret] ELSE 0) + Weight(after, v)
  <2>1. SumWeighs(t, batch, lin, hetero, idx)
    BY SumTyped
  <2> QED
    BY <2>1, Zenon DEF SumWeighs
<1>2. tokens \in Nat
  OBVIOUS
<1>3. /\ qkv.type = "FC" /\ qkv.name = "qkv"
      /\ kv.type = "X2G" /\ kv.name = "comm_x2g_kv" /\ kv.n = 2 * (KvOut(t) \div t.fc_tp)
      /\ q.type = "X2G" /\ q.name = "comm_x2g_q" /\ q.n = QOut(t) \div t.fc_tp
      /\ deep.type = "ACT" /\ deep.name = "deepstack_add"
      /\ ret.type = "X2G" /\ ret.name = "comm_x2g_return" /\ ret.n = QOut(t) \div t.attn_tp
  <2> HIDE DEF tokens
  <2> QED
    BY DEF Layer, Qkv, Move, Return
<1>4. /\ \A of \in {"sent", "returned", "deep"} : Weight(att, w(of)) = 0
      /\ Weight(att, w("heads")) = (batch * (t.info.q \div t.attn_tp)) * t.info.dhead
  BY AttentionCounts
<1>5. /\ KvOut(t) \div t.fc_tp \in Int /\ QOut(t) \div t.fc_tp \in Int
      /\ QOut(t) \div t.attn_tp \in Int
      /\ (batch * (t.info.q \div t.attn_tp)) * t.info.dhead \in Int
  BY SizesAreNumbers DEF Sized
<1> HIDE DEF tokens, D, qkv, kv, q, deep, ret, att, block
<1>6. \A of \in Countings : /\ w(of) \in [D -> Int] /\ CountIn(of, block) = Weight(block, w(of))
                            /\ \A l \in D : Following(l) => w(of)[l] = 0
  BY <1>1, CountIsWeight DEF D
<1>7. \A of \in Countings : Weight(after, w(of)) = 0
  <2> TAKE of \in Countings
  <2>1. w(of) \in [DecoderLayers(lin) -> Int]
        /\ \A l \in DecoderLayers(lin) : Following(l) => w(of)[l] = 0
    BY <1>6 DEF D
  <2> HIDE DEF w
  <2> QED
    BY <1>2, <2>1, AfterWeighsNothing
<1>8. \A of : \A l \in D : w(of)[l] = Counted(of, l)
  BY DEF CountingOver, D
<1> HIDE DEF w, after, isDeep
<1>9. ASSUME NEW of \in Countings
      PROVE  CountIn(of, block)
               = Counted(of, qkv) + (IF hetero THEN Counted(of, kv) + Counted(of, q) ELSE 0)
                   + Weight(att, w(of)) + (IF isDeep THEN Counted(of, deep) ELSE 0)
                   + (IF hetero THEN Counted(of, ret) ELSE 0) + 0
  BY <1>1, <1>6, <1>7, <1>8
<1>10. CountIn("sent", block)
         = IF hetero THEN 2 * (KvOut(t) \div t.fc_tp) + QOut(t) \div t.fc_tp ELSE 0
  BY <1>3, <1>4, <1>5, <1>9 DEF Counted, Countings
<1>11. CountIn("returned", block) = IF hetero THEN QOut(t) \div t.attn_tp ELSE 0
  BY <1>3, <1>4, <1>5, <1>9 DEF Counted, Countings
<1>12. CountIn("heads", block) = (batch * (t.info.q \div t.attn_tp)) * t.info.dhead
  <2> DEFINE all == (batch * (t.info.q \div t.attn_tp)) * t.info.dhead
  <2>1. all \in Int /\ Weight(att, w("heads")) = all
    BY <1>4, <1>5
  <2> HIDE DEF all
  <2>2. CountIn("heads", block) = all
    BY <1>3, <1>9, <2>1 DEF Counted, Countings
  <2> QED
    BY <2>2 DEF all
<1>13. CountIn("deep", block) = IF isDeep THEN 1 ELSE 0
  BY <1>3, <1>4, <1>9 DEF Counted, Countings
<1> QED
  BY <1>10, <1>11, <1>12, <1>13 DEF SumCountsTo, block, isDeep

GenCountsTo(t, batch, lin, s, hetero) ==
    LET block == BuildGenStage(t, batch, lin, s, hetero)
        keys == lin + s
        kv == batch * (t.info.kv \div t.attn_tp)
    IN  /\ CountIn("sent", block) = IF hetero THEN QkvOut(t) \div t.fc_tp ELSE 0
        /\ CountIn("returned", block) = IF hetero THEN QOut(t) \div t.attn_tp ELSE 0
        /\ CountIn("heads", block) = (batch * (t.info.q \div t.attn_tp)) * t.info.dhead
        /\ CountIn("read", block) = keys * t.info.dhead * kv + t.info.dhead * keys * kv

LEMMA GenCounts ==
    ASSUME NEW t, Sized(t), NEW batch \in Nat, NEW lin \in Nat, NEW s \in Nat,
           NEW hetero \in BOOLEAN
    PROVE  GenCountsTo(t, batch, lin, s, hetero)
<1> DEFINE keys == lin + s
           D == DecoderLayers(keys)
           qkv == Qkv(t, batch)
           move == Move("comm_x2g_qkv", batch, QkvOut(t) \div t.fc_tp)
           ret == Return(t, batch)
           att == Attention(t, batch, 1, keys)
           after == AfterAttention(t, batch)
           block == BuildGenStage(t, batch, lin, s, hetero)
           kv == batch * (t.info.kv \div t.attn_tp)
           heads == (batch * (t.info.q \div t.attn_tp)) * t.info.dhead
           read == keys * t.info.dhead * kv + t.info.dhead * keys * kv
           w(of) == CountingOver(of, keys)
<1>1. /\ {qkv, move, ret} \subseteq D /\ block \in Seq(D)
      /\ \A v \in [D -> Int] : Weight(block, v)
           = v[qkv] + (IF hetero THEN v[move] ELSE 0) + Weight(att, v)
               + (IF hetero THEN v[ret] ELSE 0) + Weight(after, v)
  <2>1. GenWeighs(t, batch, lin, s, hetero)
    BY GenTyped
  <2> QED
    BY <2>1, Zenon DEF GenWeighs
<1>2. /\ qkv.type = "FC" /\ qkv.name = "qkv"
      /\ move.type = "X2G" /\ move.name = "comm_x2g_qkv" /\ move.n = QkvOut(t) \div t.fc_tp
      /\ ret.type = "X2G" /\ ret.name = "comm_x2g_return" /\ ret.n = QOut(t) \div t.attn_tp
  BY DEF Layer, Qkv, Move, Return
<1>3. /\ QkvOut(t) \div t.fc_tp \in Int /\ QOut(t) \div t.attn_tp \in Int
      /\ heads \in Int /\ read \in Int
  <2>1. /\ QkvOut(t) \div t.fc_tp \in Nat /\ QOut(t) \div t.attn_tp \in Nat
        /\ t.info.q \div t.attn_tp \in Nat /\ kv \in Nat /\ t.info.dhead \in Nat /\ keys \in Nat
    BY SizesAreNumbers DEF Sized
  <2>2. \A a, b, c \in Nat : a * b * c \in Int
    OBVIOUS
  <2> HIDE DEF kv, keys
  <2> QED
    BY <2>1, <2>2
<1>4. /\ \A of \in {"sent", "returned"} : Weight(att, w(of)) = 0
      /\ Weight(att, w("heads")) = heads /\ Weight(att, w("read")) = read
  <2>1. 1 \in Nat /\ keys \in Nat
    OBVIOUS
  <2> HIDE DEF keys
  <2>2. LET a == Attention(t, batch, 1, keys)
            k == batch * (t.info.kv \div t.attn_tp)
        IN  /\ \A of \in {"sent", "returned", "deep"} : Weight(a, CountingOver(of, keys)) = 0
            /\ Weight(a, CountingOver("heads", keys))
                 = (batch * (t.info.q \div t.attn_tp)) * t.info.dhead
            /\ Weight(a, CountingOver("read", keys))
                 = keys * t.info.dhead * k + t.info.dhead * keys * k
    BY <2>1, AttentionCounts
  <2> QED
    BY <2>2
<1> HIDE DEF D, qkv, move, ret, att, block, heads, read
<1>5. \A of \in Countings : /\ w(of) \in [D -> Int] /\ CountIn(of, block) = Weight(block, w(of))
                            /\ \A l \in D : Following(l) => w(of)[l] = 0
  BY <1>1, CountIsWeight DEF D
<1>6. \A of \in Countings : Weight(after, w(of)) = 0
  <2> TAKE of \in Countings
  <2>1. w(of) \in [DecoderLayers(keys) -> Int]
        /\ \A l \in DecoderLayers(keys) : Following(l) => w(of)[l] = 0
    BY <1>5 DEF D
  <2> HIDE DEF w, keys
  <2> QED
    BY <2>1, AfterWeighsNothing
<1>7. \A of : \A l \in D : w(of)[l] = Counted(of, l)
  BY DEF CountingOver, D
<1> HIDE DEF w, after, keys, kv
<1>8. ASSUME NEW of \in Countings
      PROVE  CountIn(of, block)
               = Counted(of, qkv) + (IF hetero THEN Counted(of, move) ELSE 0)
                   + Weight(att, w(of)) + (IF hetero THEN Counted(of, ret) ELSE 0) + 0
  BY <1>1, <1>5, <1>6, <1>7
<1>9. CountIn("sent", block) = IF hetero THEN QkvOut(t) \div t.fc_tp ELSE 0
  BY <1>2, <1>3, <1>4, <1>8 DEF Counted, Countings
<1>10. CountIn("returned", block) = IF hetero THEN QOut(t) \div t.attn_tp ELSE 0
  BY <1>2, <1>3, <1>4, <1>8 DEF Counted, Countings
<1>11. CountIn("heads", block) = heads /\ CountIn("read", block) = read
  BY <1>2, <1>3, <1>4, <1>8 DEF Counted, Countings
<1> QED
  BY <1>9, <1>10, <1>11 DEF GenCountsTo, block, heads, read, keys, kv

LEMMA DeviceOfGroup ==
    ASSUME Inv, pc \in Pricing
    PROVE  /\ Sized(shard) /\ Splits(shard) /\ shard.info = call.model
           /\ call.batch \in Nat /\ call.lin \in Nat /\ call.lout \in Nat
<1>1. call \in Calls /\ shard = Transformer(call.model, call.ngpu) /\ Splits(shard)
  BY DEF Inv, Deployed, Placed, Late
<1>2. Sized(shard)
  BY <1>1, TransformerSized
<1>3. shard.info = call.model
  BY <1>1 DEF Transformer
<1> QED
  BY <1>1, <1>2, <1>3, CallsAssumption

(* For every model, number of GPUs, batch and length: a token sends the    *)
(* same to the accelerator in the prompt and in generation, all shards of  *)
(* Q, K and V together, and gets back what the heads of a shard produce    *)
(* (_build_sum, _build_gen_stage).                                         *)
THEOREM SameTransfers == Spec => []TransfersAgree
<1>1. Inv => TransfersAgree
  <2> SUFFICES ASSUME Inv, pc = "sum", Device # "gpu"
               PROVE  \A block \in {graph, GenBlock(groups[group], 1)} :
                          /\ CountIn("sent", block) * shard.fc_tp = QkvOut(shard)
                          /\ CountIn("returned", block) * call.batch = CountIn("heads", block)
    <3>1. \A block :
            /\ CountIn("sent", block) = Total([i \in DOMAIN block |->
                   IF i \in {j \in DOMAIN block : block[j].type = "X2G"}
                        /\ block[i].name # "comm_x2g_return" THEN block[i].n ELSE 0])
            /\ CountIn("returned", block) = Total([i \in DOMAIN block |->
                   IF block[i].name = "comm_x2g_return" THEN block[i].n ELSE 0])
            /\ CountIn("heads", block) = Total([i \in DOMAIN block |->
                   IF block[i].name = "context" THEN block[i].ops * block[i].n ELSE 0])
      <4> TAKE block
      <4>1. [i \in DOMAIN block |-> Counted("sent", block[i])] = [i \in DOMAIN block |->
                   IF i \in {j \in DOMAIN block : block[j].type = "X2G"}
                        /\ block[i].name # "comm_x2g_return" THEN block[i].n ELSE 0]
        BY DEF Counted
      <4>2. [i \in DOMAIN block |-> Counted("returned", block[i])] = [i \in DOMAIN block |->
                   IF block[i].name = "comm_x2g_return" THEN block[i].n ELSE 0]
        BY DEF Counted
      <4>3. [i \in DOMAIN block |-> Counted("heads", block[i])] = [i \in DOMAIN block |->
                   IF block[i].name = "context" THEN block[i].ops * block[i].n ELSE 0]
        BY DEF Counted
      <4> QED
        BY <4>1, <4>2, <4>3, Zenon DEF CountIn
    <3> QED
      BY <3>1, Zenon DEF TransfersAgree
  <2>1. /\ Sized(shard) /\ Splits(shard) /\ shard.info = call.model
        /\ call.batch \in Nat /\ call.lin \in Nat /\ call.lout \in Nat
    BY DeviceOfGroup DEF Pricing
  <2>2. /\ graph = BuildSum(shard, call.batch, call.lin, TRUE, groups[group].idx)
        /\ GenBlock(groups[group], 1) = BuildGenStage(shard, call.batch, call.lin, 1, TRUE)
    <3>1. groups[group].device # "gpu" <=> TRUE
      BY DEF Device
    <3>2. graph = SumBlock(groups[group])
      BY DEF Inv, Layered
    <3> DEFINE hetero == groups[group].device # "gpu"
    <3>3. hetero = TRUE
      BY <3>1
    <3>4. /\ graph = BuildSum(shard, call.batch, call.lin, hetero, groups[group].idx)
          /\ GenBlock(groups[group], 1) = BuildGenStage(shard, call.batch, call.lin, 1, hetero)
      BY <3>2, Zenon DEF SumBlock, GenBlock
    <3> HIDE DEF hetero
    <3> QED
      BY <3>3, <3>4
  <2> DEFINE heads == (call.batch * (shard.info.q \div shard.attn_tp)) * shard.info.dhead
  <2>3. \A block \in {graph, GenBlock(groups[group], 1)} :
            /\ \/ CountIn("sent", block)
                    = 2 * (KvOut(shard) \div shard.fc_tp) + QOut(shard) \div shard.fc_tp
               \/ CountIn("sent", block) = QkvOut(shard) \div shard.fc_tp
            /\ CountIn("returned", block) = QOut(shard) \div shard.attn_tp
            /\ CountIn("heads", block) = heads
    <3> DEFINE idx == groups[group].idx
               later == GenBlock(groups[group], 1)
    <3>1. TRUE \in BOOLEAN /\ 1 \in Nat
      OBVIOUS
    <3>2. /\ CountIn("sent", graph)
               = 2 * (KvOut(shard) \div shard.fc_tp) + QOut(shard) \div shard.fc_tp
          /\ CountIn("returned", graph) = QOut(shard) \div shard.attn_tp
          /\ CountIn("heads", graph) = heads
      <4>1. graph = BuildSum(shard, call.batch, call.lin, TRUE, idx)
        BY <2>2
      <4>2. SumCountsTo(shard, call.batch, call.lin, TRUE, idx)
        BY <2>1, <3>1, SumCounts
      <4> HIDE DEF idx
      <4> QED
        BY <4>1, <4>2 DEF SumCountsTo
    <3>3. /\ CountIn("sent", later) = QkvOut(shard) \div shard.fc_tp
          /\ CountIn("returned", later) = QOut(shard) \div shard.attn_tp
          /\ CountIn("heads", later) = heads
      <4>1. later = BuildGenStage(shard, call.batch, call.lin, 1, TRUE)
        BY <2>2
      <4>2. GenCountsTo(shard, call.batch, call.lin, 1, TRUE)
        BY <2>1, <3>1, GenCounts
      <4> HIDE DEF later
      <4> QED
        BY <4>1, <4>2 DEF GenCountsTo
    <3> QED
      BY <3>2, <3>3
  <2>4. /\ (2 * (KvOut(shard) \div shard.fc_tp) + QOut(shard) \div shard.fc_tp) * shard.fc_tp
             = QkvOut(shard)
        /\ (QkvOut(shard) \div shard.fc_tp) * shard.fc_tp = QkvOut(shard)
        /\ QOut(shard) \div shard.attn_tp
             = (shard.info.q \div shard.attn_tp) * shard.info.dhead
    BY <2>1, SharesEvenly
  <2>5. ((shard.info.q \div shard.attn_tp) * shard.info.dhead) * call.batch = heads
    <3>1. shard.info.q \div shard.attn_tp \in Nat /\ shard.info.dhead \in Nat
      BY <2>1, SizesAreNumbers DEF Sized
    <3>2. \A a, b, c \in Nat : (a * b) * c = (c * a) * b
      OBVIOUS
    <3> QED
      BY <2>1, <3>1, <3>2
  <2> HIDE DEF heads
  <2> QED
    BY <2>3, <2>4, <2>5, Zenon
<1>2. LInv => Inv
  BY DEF LInv, IInv
<1> QED
  BY <1>1, <1>2, LInvHolds, PTL

(* For every model, deployment, batch and lengths: what the formulas of    *)
(* the memory count for the KV cache, on the GPU or on the accelerator, is *)
(* what the attention of the last stage reads in all decoder layers.       *)
THEOREM CountsKvAsRead == Spec => []KvAsRead
<1>1. Inv => KvAsRead
  <2> SUFFICES ASSUME Inv, pc = "gen", stage = call.lout - 1
               PROVE  KvOnGpu(call.batch) + AttaccKvCapacity(call.batch)
                        = call.model.ndec * CountIn("read", graph)
    <3>1. [i \in DOMAIN graph |-> Counted("read", graph[i])]
            = [i \in DOMAIN graph |-> IF graph[i].type = "MATMUL"
                                      THEN graph[i].n * graph[i].k * graph[i].pim ELSE 0]
      BY DEF Counted
    <3> QED
      BY <3>1, Zenon DEF KvAsRead, CountIn
  <2> DEFINE batch == call.batch
             ndec == call.model.ndec
             keys == call.lin + stage
             attn == shard.attn_tp
             share == shard.info.kv \div attn
             dhead == shard.info.dhead
             hetero == groups[group].device # "gpu"
  <2>1. /\ Sized(shard) /\ Splits(shard) /\ shard.info = call.model
        /\ call.batch \in Nat /\ call.lin \in Nat /\ call.lout \in Nat
    BY DeviceOfGroup DEF Pricing
  <2>2. stage \in Nat /\ ndec \in Nat
    BY <2>1, CallsAssumption DEF Inv, Deployed, Placed
  <2>3. graph = BuildGenStage(shard, batch, call.lin, stage, hetero) /\ hetero \in BOOLEAN
    BY Zenon DEF Inv, Layered, GenBlock
  <2>4. GenCountsTo(shard, batch, call.lin, stage, hetero)
    <3> HIDE DEF hetero
    <3> QED
      BY <2>1, <2>2, <2>3, GenCounts
  <2>5. CountIn("read", graph) = keys * dhead * (batch * share) + dhead * keys * (batch * share)
    BY <2>3, <2>4, Zenon DEF GenCountsTo
  <2>6. /\ keys \in Nat /\ attn \in Nat \ {0} /\ share \in Nat /\ dhead \in Nat /\ batch \in Nat
        /\ KvOut(shard) = (share * attn) * dhead
    <3>1. /\ keys \in Nat /\ attn \in Nat \ {0} /\ share \in Nat /\ dhead \in Nat
          /\ batch \in Nat
      BY <2>1, <2>2, SizesAreNumbers DEF Sized
    <3>2. share * attn = shard.info.kv
      BY <2>1, SharesEvenly
    <3> QED
      BY <3>1, <3>2 DEF KvOut
  <2>7. KvOnGpu(batch) + AttaccKvCapacity(batch) = KvMemory(batch) \/ KvMemory(batch) \notin Int
    BY DEF KvOnGpu, AttaccKvCapacity
  <2>8. KvMemory(batch) = batch * ((ndec * 2 * keys * KvOut(shard)) \div attn)
    <3>1. call.lin + call.lout - 1 = keys
      BY <2>1
    <3> QED
      BY <3>1 DEF KvMemory
  <2> HIDE DEF batch, ndec, keys, attn, share, dhead
  <2>9. (ndec * 2 * keys * KvOut(shard)) \div attn = ndec * (2 * (keys * dhead * share))
    <3> DEFINE all == ndec * (2 * (keys * dhead * share))
    <3>1. all \in Nat
      BY <2>2, <2>6
    <3>2. ndec * 2 * keys * ((share * attn) * dhead) = all * attn
      BY <2>2, <2>6
    <3> HIDE DEF all
    <3>3. (all * attn) \div attn = all
      BY <2>6, <3>1
    <3> QED
      BY <2>6, <3>2, <3>3 DEF all
  <2>10. batch * (ndec * (2 * (keys * dhead * share)))
           = ndec * (keys * dhead * (batch * share) + dhead * keys * (batch * share))
    BY <2>2, <2>6
  <2>11. batch * (ndec * (2 * (keys * dhead * share))) \in Int
    BY <2>2, <2>6
  <2> QED
    BY <2>5, <2>7, <2>8, <2>9, <2>10, <2>11 DEF batch, ndec
<1>2. LInv => Inv
  BY DEF LInv, IInv
<1> QED
  BY <1>1, <1>2, LInvHolds, PTL

----------------------------------------------------------------------------
(* The layers that add the features of a vision tower. *)

LEMMA TotalOfChosen ==
    ASSUME NEW n \in Nat, NEW A \in SUBSET (1..n), NEW f \in [1..n -> Int],
           \A i \in 1..n : f[i] = IF i \in A THEN 1 ELSE 0
    PROVE  Total(f) = Cardinality(A)
<1>1. PICK sum : Sums(sum, f, n) /\ Total(f) = sum[n]
  BY TotalIsSum
<1> DEFINE upTo(m) == A \cap 1..m
           P == {m \in Nat : m <= n => sum[m] = Cardinality(upTo(m)) /\ IsFiniteSet(upTo(m))}
<1>2. 0 \in P
  <2>1. upTo(0) = {}
    OBVIOUS
  <2>2. sum[0] = 0
    BY <1>1 DEF Sums
  <2> HIDE DEF upTo
  <2> QED
    BY <2>1, <2>2, FS_EmptySet
<1>3. ASSUME NEW m \in Nat, m \in P PROVE m + 1 \in P
  <2> SUFFICES ASSUME m + 1 <= n
               PROVE  sum[m + 1] = Cardinality(upTo(m + 1)) /\ IsFiniteSet(upTo(m + 1))
    OBVIOUS
  <2>1. sum[m] = Cardinality(upTo(m)) /\ IsFiniteSet(upTo(m))
    BY <1>3
  <2>2. sum[m + 1] = sum[m] + f[m + 1] /\ f[m + 1] = IF m + 1 \in A THEN 1 ELSE 0
    <3>1. m + 1 \in 1..n /\ m + 1 - 1 = m
      OBVIOUS
    <3> QED
      BY <1>1, <3>1 DEF Sums
  <2>3. /\ upTo(m + 1) = IF m + 1 \in A THEN upTo(m) \cup {m + 1} ELSE upTo(m)
        /\ m + 1 \notin upTo(m)
    OBVIOUS
  <2>4. Cardinality(upTo(m)) \in Nat
    BY <2>1, FS_CardinalityType
  <2>5. /\ IsFiniteSet(upTo(m) \cup {m + 1})
        /\ Cardinality(upTo(m) \cup {m + 1}) = Cardinality(upTo(m)) + 1
    <3> HIDE DEF upTo
    <3> QED
      BY <2>1, <2>3, FS_AddElement
  <2> HIDE DEF upTo
  <2> QED
    BY <2>1, <2>2, <2>3, <2>4, <2>5
<1>4. n \in P
  <2> HIDE DEF P
  <2> QED
    BY <1>2, <1>3, SetInduction
<1>5. sum[n] = Cardinality(upTo(n))
  <2> HIDE DEF upTo
  <2> QED
    BY <1>4
<1>6. upTo(n) = A
  OBVIOUS
<1> HIDE DEF upTo
<1> QED
  BY <1>1, <1>5, <1>6

DeepIn(block) == {i \in DOMAIN block : block[i].name = "deepstack_add"}

LEMMA DeepIsCounted ==
    ASSUME NEW S, NEW block \in Seq(S)
    PROVE  CountIn("deep", block) = Cardinality(DeepIn(block))
<1> DEFINE n == Len(block)
           f == [i \in DOMAIN block |-> Counted("deep", block[i])]
           A == DeepIn(block)
<1>1. n \in Nat /\ DOMAIN block = 1..n
  OBVIOUS
<1>2. \A i \in 1..n : f[i] = IF i \in A THEN 1 ELSE 0
  BY <1>1 DEF Counted, DeepIn
<1>3. f \in [1..n -> Int]
  BY <1>1 DEF Counted
<1>4. A \in SUBSET (1..n)
  BY <1>1 DEF DeepIn
<1>5. Total(f) = Cardinality(A)
  <2> HIDE DEF n, f, A
  <2> QED
    BY <1>1, <1>2, <1>3, <1>4, TotalOfChosen, ZenonT(60)
<1> QED
  BY <1>5 DEF CountIn

(* A decoder layer has a DeepStack layer if its number is known to be one. *)
LEMMA DeepOfBlock ==
    ASSUME Inv, pc \in Pricing, NEW g \in DOMAIN groups
    PROVE  Cardinality(DeepIn(SumBlock(groups[g])))
             = IF groups[g].idx \cap call.model.deepstack # {} THEN 1 ELSE 0
<1> DEFINE hetero == groups[g].device # "gpu"
           idx == groups[g].idx
           block == BuildSum(shard, call.batch, call.lin, hetero, idx)
<1>1. /\ Sized(shard) /\ Splits(shard) /\ shard.info = call.model
      /\ call.batch \in Nat /\ call.lin \in Nat /\ hetero \in BOOLEAN
  BY DeviceOfGroup
<1>2. SumBlock(groups[g]) = block
  BY Zenon DEF SumBlock
<1> HIDE DEF hetero, idx
<1>3. SumCountsTo(shard, call.batch, call.lin, hetero, idx)
  BY <1>1, SumCounts
<1>4. SumWeighs(shard, call.batch, call.lin, hetero, idx)
  BY <1>1, SumTyped
<1>5. CountIn("deep", block) = IF idx \cap call.model.deepstack # {} THEN 1 ELSE 0
  BY <1>1, <1>3, Zenon DEF SumCountsTo
<1>6. block \in Seq(DecoderLayers(call.lin))
  BY <1>4, Zenon DEF SumWeighs
<1> HIDE DEF block
<1>7. CountIn("deep", block) = Cardinality(DeepIn(block))
  BY <1>6, DeepIsCounted
<1> QED
  BY <1>2, <1>5, <1>7 DEF idx

(* A DeepStack model is routed layer by layer, so that its layers keep their numbers. *)
LEMMA RoutedNumbered ==
    ASSUME Deployed, call.model.deepstack # {}
    PROVE  /\ Len(Routed) = call.model.ndec
           /\ \A g \in 1..Len(Routed) : Routed[g].count = 1 /\ Routed[g].idx = {g - 1}
<1> DEFINE model == call.model
           ndec == model.ndec
           listed == Listed(call.list, ndec)
<1>1. ndec \in Nat \ {0} /\ acc \in {"gpu", "cpu", "pim"}
  BY CallsAssumption DEF Deployed
<1>2. \E accelerated : Routed = LayerByLayer(ndec, accelerated, acc)
  <2>1. Routed = CASE call.routing # "default" -> LayerByLayer(ndec, listed, acc)
                   [] call.routing = "default" -> LayerByLayer(ndec, 0..(ndec - 1), acc)
    BY DEF Routed, Groups, ToGroups, AcceleratorRoutingName, Listed
  <2> QED
    BY <2>1
<1>3. PICK accelerated : Routed = LayerByLayer(ndec, accelerated, acc)
  BY <1>2
<1> DEFINE of(n) == IF n - 1 \in accelerated THEN acc ELSE "gpu"
<1>4. Routed = [n \in 1..ndec |-> Group(of(n), 1, {n - 1})]
  BY <1>3, Zenon DEF LayerByLayer
<1>5. \A n : Group(of(n), 1, {n - 1}).count = 1 /\ Group(of(n), 1, {n - 1}).idx = {n - 1}
  BY DEF Group
<1> HIDE DEF of, ndec
<1>6. Len(Routed) = ndec
  BY <1>1, <1>3, LayerByLayerTyped
<1> QED
  BY <1>4, <1>5, <1>6 DEF ndec

(* However a DeepStack model is routed, each of its DeepStack layers adds  *)
(* the features of the vision tower in exactly one group (_to_groups,      *)
(* _build_sum).                                                            *)
THEOREM AddsDeepStackOnce == Spec => []DeepStackOnce
<1>1. Inv => DeepStackOnce
  <2> DEFINE deepstack == call.model.deepstack
             ndec == call.model.ndec
             n == Len(groups)
             f == [g \in DOMAIN groups |->
                     groups[g].count * Cardinality(DeepIn(SumBlock(groups[g])))]
  <2> SUFFICES ASSUME Inv, pc = "sum" PROVE Total(f) = Cardinality(deepstack)
    BY Zenon DEF DeepStackOnce, DeepIn
  <2>1. /\ Deployed /\ groups = Routed /\ call \in Calls /\ pc \in Pricing
    BY DEF Inv, Placed, Late, Pricing, Deployed
  <2>2. groups \in Seq(GroupRecords) /\ n \in Nat /\ DOMAIN groups = 1..n
    BY <2>1, RoutedTyped
  <2>3. \A g \in 1..n : groups[g].count \in Nat
    <3>1. \A p \in GroupRecords : p.count \in Nat
      BY DEF GroupRecords
    <3>2. \A g \in 1..n : groups[g] \in GroupRecords
      BY <2>2
    <3> QED
      BY <3>1, <3>2
  <2>4. \A g \in 1..n : Cardinality(DeepIn(SumBlock(groups[g])))
                          = IF groups[g].idx \cap deepstack # {} THEN 1 ELSE 0
    BY <2>1, <2>2, DeepOfBlock
  <2>5. \A g \in 1..n : f[g] = IF groups[g].idx \cap deepstack # {} THEN groups[g].count ELSE 0
    <3> TAKE g \in 1..n
    <3>1. f[g] = groups[g].count * Cardinality(DeepIn(SumBlock(groups[g])))
      BY <2>2
    <3>2. groups[g].count \in Int
      BY <2>3
    <3> HIDE DEF f
    <3> QED
      BY <2>4, <3>1, <3>2
  <2>6. f \in [1..n -> Int]
    <3>1. DOMAIN f = 1..n /\ f = [g \in DOMAIN f |-> f[g]]
      BY <2>2
    <3> HIDE DEF f
    <3> QED
      BY <2>3, <2>5, <3>1
  <2> HIDE DEF f, deepstack, n
  <2>7. CASE deepstack = {}
    <3>1. \A g \in 1..n : f[g] = 0
      BY <2>5, <2>7
    <3> QED
      BY <2>2, <2>6, <2>7, <3>1, TotalOfZeros, FS_EmptySet
  <2>8. CASE deepstack # {}
    <3>1. n = ndec /\ \A g \in 1..n : groups[g].count = 1 /\ groups[g].idx = {g - 1}
      BY <2>1, <2>8, RoutedNumbered DEF deepstack, n
    <3>2. deepstack \in SUBSET (0..(n - 1))
      BY <2>1, <3>1, CallsAssumption DEF deepstack
    <3>3. \A g \in 1..n : f[g] = IF g - 1 \in deepstack THEN 1 ELSE 0
      BY <2>5, <3>1
    <3> QED
      BY <2>2, <2>6, <3>2, <3>3, TotalOfMembers
  <2> QED
    BY <2>7, <2>8
<1> QED
  BY <1>1, IInvHolds, PTL DEF IInv

----------------------------------------------------------------------------
(* The norms of the layers.                                                 *)

NormLayer(name, tokens) == Layer(name, "NORM", tokens, call.model.hdim, 1, 1)
NormTime(tokens) == Cost("gpu", xpus, NormLayer("norm1", tokens)).time
NormAt(l) == IF l.type = "NORM" THEN Cost("gpu", xpus, l).time ELSE 0
NormsIn(block) == Total([i \in DOMAIN block |-> NormAt(block[i])])

LEMMA NormsOfAfter ==
    ASSUME NEW t, Sized(t), NEW tokens \in Nat
    PROVE  {Layer("norm1", "NORM", tokens, t.info.hdim, 1, 1),
            Layer("norm2", "NORM", tokens, t.info.hdim, 1, 1)}
             \subseteq Elements(AfterAttention(t, tokens))
<1> DEFINE hdim == t.info.hdim
           proj == Layer("proj", "FC", tokens, hdim, hdim \div t.fc_tp, 1)
           reduce == Layer("comm_g2g", "G2G", tokens, hdim, 1, 1)
           norm1 == Layer("norm1", "NORM", tokens, hdim, 1, 1)
           norm2 == Layer("norm2", "NORM", tokens, hdim, 1, 1)
           ff == FeedForwardLayers(t, tokens)
           D == DecoderLayers(1)
<1>1. {proj, reduce, norm1, norm2} \subseteq D
  BY AfterAttentionTyped
<1>2. ff \in Seq(D)
  BY FeedForwardTyped
<1>3. AfterAttention(t, tokens) = (<<proj, reduce, norm1>> \o ff) \o <<reduce, norm2>>
  BY Zenon DEF AfterAttention
<1> HIDE DEF proj, reduce, norm1, norm2, ff, D
<1>4. <<proj, reduce, norm1>> \in Seq(D) /\ <<reduce, norm2>> \in Seq(D)
  BY <1>1
<1>5. <<proj, reduce, norm1>> \o ff \in Seq(D)
  BY <1>2, <1>4
<1>6. /\ Elements(<<proj, reduce, norm1>>) \subseteq Elements(<<proj, reduce, norm1>> \o ff)
      /\ Elements(<<proj, reduce, norm1>> \o ff) \subseteq Elements(AfterAttention(t, tokens))
      /\ Elements(<<reduce, norm2>>) \subseteq Elements(AfterAttention(t, tokens))
  BY <1>2, <1>3, <1>4, <1>5, ElementsOfConcat
<1>7. norm1 \in Elements(<<proj, reduce, norm1>>) /\ norm2 \in Elements(<<reduce, norm2>>)
  <2>1. \A x, y, z : z \in Elements(<<x, y, z>>)
    BY DEF Elements
  <2>2. \A x, y : y \in Elements(<<x, y>>)
    BY DEF Elements
  <2> QED
    BY <2>1, <2>2
<1> QED
  BY <1>6, <1>7 DEF norm1, norm2, hdim

(* What the norms of a layer of the run take. *)
LEMMA NormsPriced ==
    ASSUME Deployed, Splits(shard), NEW tokens \in Nat,
           NormLayer("norm1", tokens) \in LayersOfRun(call),
           NormLayer("norm2", tokens) \in LayersOfRun(call)
    PROVE  /\ NormTime(tokens) \in Nat
           /\ Cost("gpu", xpus, NormLayer("norm2", tokens)).time = NormTime(tokens)
<1> DEFINE norm1 == NormLayer("norm1", tokens)
           norm2 == NormLayer("norm2", tokens)
<1>1. \A l \in LayersOfRun(call) : AnswersWell("gpu", xpus, l)
  BY AnswersAssumption DEF Deployed
<1>2. AnswersWell("gpu", xpus, norm1) /\ AnswersWell("gpu", xpus, norm2)
  BY <1>1
<1>3. norm2.name = "norm2" /\ [norm2 EXCEPT !.name = "norm1"] = norm1
  BY DEF NormLayer, Layer
<1> HIDE DEF norm1, norm2
<1>4. Cost("gpu", xpus, norm1) \in Answers
  BY <1>2 DEF AnswersWell, WellAnswered
<1>5. Cost("gpu", xpus, norm2) = Cost("gpu", xpus, norm1)
  BY <1>2, <1>3 DEF AnswersWell, WellAnswered
<1> QED
  BY <1>4, <1>5 DEF NormTime, Answers, norm1, norm2

NormWeight(keys) == [l \in DecoderLayers(keys) |-> IF l \in LayersOfRun(call) THEN NormAt(l) ELSE 0]
(* Apart from what follows attention, no layer of a block is a norm. *)
NormsFollow(block, tokens, keys) ==
    /\ block \in Seq(DecoderLayers(keys))
    /\ Elements(AfterAttention(shard, tokens)) \subseteq Elements(block)
    /\ \A w \in [DecoderLayers(keys) -> Int] :
           (\A l \in DecoderLayers(keys) : l.type # "NORM" => w[l] = 0)
             => Weight(block, w) = Weight(AfterAttention(shard, tokens), w)

LEMMA NormsOfBlock ==
    ASSUME Deployed, Splits(shard), NEW keys, NEW tokens \in Nat, NEW block,
           NormsFollow(block, tokens, keys), Elements(block) \subseteq LayersOfRun(call)
    PROVE  NormTime(tokens) \in Nat /\ NormsIn(block) = 2 * NormTime(tokens)
<1> DEFINE D == DecoderLayers(keys)
           w == NormWeight(keys)
           norm1 == NormLayer("norm1", tokens)
           norm2 == NormLayer("norm2", tokens)
           proj == Layer("proj", "FC", tokens, shard.info.hdim, shard.info.hdim \div shard.fc_tp, 1)
           reduce == Layer("comm_g2g", "G2G", tokens, shard.info.hdim, 1, 1)
           ff == FeedForwardLayers(shard, tokens)
<1>1. Sized(shard) /\ shard.info.hdim = call.model.hdim
  BY TransformerSized DEF Deployed, Transformer
<1>2. /\ norm1 = Layer("norm1", "NORM", tokens, shard.info.hdim, 1, 1)
      /\ norm2 = Layer("norm2", "NORM", tokens, shard.info.hdim, 1, 1)
  BY <1>1, Zenon DEF NormLayer
<1>3. norm1 \in LayersOfRun(call) /\ norm2 \in LayersOfRun(call)
  <2> HIDE DEF norm1, norm2
  <2>1. {norm1, norm2} \subseteq Elements(AfterAttention(shard, tokens))
    BY <1>1, <1>2, NormsOfAfter
  <2> QED
    BY <2>1 DEF NormsFollow
<1>4. /\ NormTime(tokens) \in Nat
      /\ Cost("gpu", xpus, norm1).time = NormTime(tokens)
      /\ Cost("gpu", xpus, norm2).time = NormTime(tokens)
  <2>1. /\ NormTime(tokens) \in Nat
        /\ Cost("gpu", xpus, norm2).time = NormTime(tokens)
    BY <1>3, NormsPriced
  <2> QED
    BY <2>1, Zenon DEF NormTime
<1>5. norm1.type = "NORM" /\ norm2.type = "NORM" /\ proj.type = "FC" /\ reduce.type = "G2G"
  BY DEF Layer, NormLayer
<1>6. w \in [D -> Int]
  <2>1. \A l \in LayersOfRun(call) : AnswersWell("gpu", xpus, l)
    BY AnswersAssumption DEF Deployed
  <2>2. \A l \in LayersOfRun(call) : Cost("gpu", xpus, l).time \in Int
    <3>1. \A a \in Answers : a.time \in Int
      BY DEF Answers
    <3> QED
      BY <2>1, <3>1 DEF AnswersWell, WellAnswered
  <2> QED
    BY <2>2 DEF NormWeight, NormAt
<1>7. \A l \in D : l.type # "NORM" => w[l] = 0
  BY DEF NormWeight, NormAt
<1>8. block \in Seq(D) /\ Weight(block, w) = Weight(AfterAttention(shard, tokens), w)
  <2> HIDE DEF D, w
  <2> QED
    BY <1>6, <1>7 DEF NormsFollow, D
<1>9. NormsIn(block) = Weight(block, w)
  <2>1. \A i \in DOMAIN block : block[i] \in D /\ block[i] \in LayersOfRun(call)
    <3>1. \A i \in DOMAIN block : block[i] \in LayersOfRun(call)
      BY DEF Elements
    <3> HIDE DEF D
    <3> QED
      BY <1>8, <3>1
  <2>2. [i \in DOMAIN block |-> NormAt(block[i])] = [i \in DOMAIN block |-> w[block[i]]]
    BY <2>1 DEF NormWeight
  <2> QED
    BY <2>2, Zenon DEF NormsIn, Weight
<1>10. /\ {proj, reduce, norm1, norm2} \subseteq D
       /\ Weight(AfterAttention(shard, tokens), w)
            = w[proj] + w[reduce] + w[norm1] + Weight(ff, w) + w[reduce] + w[norm2]
  <2> HIDE DEF w
  <2> QED
    BY <1>1, <1>2, <1>6, AfterAttentionTyped
<1>11. Weight(ff, w) = 0
  <2>1. ff \in Seq(D) /\ \A l \in Elements(ff) : IsFeedForward(l)
    BY <1>1, FeedForwardTyped
  <2> HIDE DEF w, ff, D
  <2>2. \A l \in Elements(ff) : w[l] = 0
    BY <1>7, <2>1 DEF Elements, IsFeedForward
  <2> QED
    BY <1>6, <2>1, <2>2, WeightOfNone
<1>12. w[norm1] = NormTime(tokens) /\ w[norm2] = NormTime(tokens)
  <2> HIDE DEF norm1, norm2
  <2> QED
    BY <1>3, <1>4, <1>5, <1>10 DEF NormWeight, NormAt
<1> HIDE DEF w, norm1, norm2, proj, reduce, ff, D
<1>13. w[proj] = 0 /\ w[reduce] = 0
  BY <1>5, <1>7, <1>10
<1> QED
  BY <1>4, <1>8, <1>9, <1>10, <1>11, <1>12, <1>13

LEMMA AttentionHasNoNorm ==
    ASSUME NEW t, Sized(t), NEW batch \in Nat, NEW queries \in Nat, NEW keys \in Nat,
           NEW w \in [DecoderLayers(keys) -> Int],
           \A l \in DecoderLayers(keys) : l.type # "NORM" => w[l] = 0
    PROVE  Weight(Attention(t, batch, queries, keys), w) = 0
<1> DEFINE D == DecoderLayers(keys)
           att == Attention(t, batch, queries, keys)
<1>1. IsAttention(att, D)
  BY AttentionTyped
<1> HIDE DEF D, att
<1>2. PICK x, y, z \in D : /\ att = <<x, y, z>>
                           /\ x.type = "MATMUL" /\ y.type = "SOFTMAX" /\ z.type = "MATMUL"
  BY <1>1 DEF IsAttention
<1>3. w[x] = 0 /\ w[y] = 0 /\ w[z] = 0
  BY <1>2 DEF D
<1>4. w \in [D -> Int]
  BY DEF D
<1>5. Weight(<<x, y, z>>, w) = w[x] + w[y] + w[z]
  BY <1>4, WeightOfThree
<1> QED
  BY <1>2, <1>3, <1>5 DEF att

LEMMA NormsOfPrompt ==
    ASSUME Deployed, NEW hetero \in BOOLEAN, NEW idx
    PROVE  NormsFollow(BuildSum(shard, call.batch, call.lin, hetero, idx),
                       call.batch * call.lin, call.lin)
<1> DEFINE t == shard
           batch == call.batch
           lin == call.lin
           tokens == batch * lin
           D == DecoderLayers(lin)
           qkv == Qkv(t, tokens)
           kv == Move("comm_x2g_kv", tokens, 2 * (KvOut(t) \div t.fc_tp))
           q == Move("comm_x2g_q", tokens, QOut(t) \div t.fc_tp)
           deep == Layer("deepstack_add", "ACT", tokens, t.info.hdim, 1, 1)
           ret == Return(t, tokens)
           att == Attention(t, batch, lin, lin)
           after == AfterAttention(t, tokens)
           isDeep == idx \cap t.info.deepstack # {}
           block == BuildSum(t, batch, lin, hetero, idx)
<1>1. Sized(t) /\ batch \in Nat /\ lin \in Nat /\ tokens \in Nat
  BY TransformerSized, CallsAssumption DEF Deployed
<1>2. SumWeighs(t, batch, lin, hetero, idx)
  <2> HIDE DEF t, batch, lin
  <2> QED
    BY <1>1, SumTyped
<1>3. /\ {qkv, kv, q, deep, ret} \subseteq D /\ block \in Seq(D)
      /\ Elements(after) \subseteq Elements(block)
      /\ \A v \in [D -> Int] : Weight(block, v)
           = v[qkv] + (IF hetero THEN v[kv] + v[q] ELSE 0) + Weight(att, v)
               + (IF isDeep THEN v[deep] ELSE 0) + (IF hetero THEN v[ret] ELSE 0) + Weight(after, v)
  BY <1>2, Zenon DEF SumWeighs
<1>4. /\ qkv.type = "FC" /\ kv.type = "X2G" /\ q.type = "X2G" /\ deep.type = "ACT"
      /\ ret.type = "X2G"
  BY DEF Layer, Qkv, Move, Return
<1>5. after \in Seq(D)
  <2> HIDE DEF tokens
  <2> QED
    BY <1>1, AfterAttentionTyped
<1>6. ASSUME NEW w \in [D -> Int], \A l \in D : l.type # "NORM" => w[l] = 0
      PROVE  Weight(block, w) = Weight(after, w)
  <2>1. Weight(att, w) = 0
    <3> HIDE DEF t, batch, lin
    <3> QED
      BY <1>1, <1>6, AttentionHasNoNorm
  <2> HIDE DEF qkv, kv, q, deep, ret, isDeep, att, after, block, D
  <2>2. w[qkv] = 0 /\ w[kv] = 0 /\ w[q] = 0 /\ w[deep] = 0 /\ w[ret] = 0
    BY <1>3, <1>4, <1>6
  <2>3. Weight(after, w) \in Int
    BY <1>5, WeightOfBlock
  <2> QED
    BY <1>3, <2>1, <2>2, <2>3
<1> QED
  BY <1>3, <1>6, Zenon DEF NormsFollow

LEMMA NormsOfStage ==
    ASSUME Deployed, NEW hetero \in BOOLEAN, NEW s \in Nat
    PROVE  NormsFollow(BuildGenStage(shard, call.batch, call.lin, s, hetero),
                       call.batch, call.lin + s)
<1> DEFINE t == shard
           batch == call.batch
           lin == call.lin
           keys == lin + s
           D == DecoderLayers(keys)
           qkv == Qkv(t, batch)
           move == Move("comm_x2g_qkv", batch, QkvOut(t) \div t.fc_tp)
           ret == Return(t, batch)
           att == Attention(t, batch, 1, keys)
           after == AfterAttention(t, batch)
           block == BuildGenStage(t, batch, lin, s, hetero)
<1>1. Sized(t) /\ batch \in Nat /\ lin \in Nat /\ keys \in Nat /\ 1 \in Nat
  BY TransformerSized, CallsAssumption DEF Deployed
<1>2. GenWeighs(t, batch, lin, s, hetero)
  <2> HIDE DEF t, batch, lin
  <2> QED
    BY <1>1, GenTyped
<1>3. /\ {qkv, move, ret} \subseteq D /\ block \in Seq(D)
      /\ Elements(after) \subseteq Elements(block)
      /\ \A v \in [D -> Int] : Weight(block, v)
           = v[qkv] + (IF hetero THEN v[move] ELSE 0) + Weight(att, v)
               + (IF hetero THEN v[ret] ELSE 0) + Weight(after, v)
  BY <1>2, Zenon DEF GenWeighs
<1>4. qkv.type = "FC" /\ move.type = "X2G" /\ ret.type = "X2G"
  BY DEF Layer, Qkv, Move, Return
<1>5. after \in Seq(D)
  <2> HIDE DEF t, batch, D
  <2> QED
    BY <1>1, AfterAttentionTyped DEF D
<1>6. ASSUME NEW w \in [D -> Int], \A l \in D : l.type # "NORM" => w[l] = 0
      PROVE  Weight(block, w) = Weight(after, w)
  <2>1. Weight(att, w) = 0
    <3> HIDE DEF t, batch, keys
    <3> QED
      BY <1>1, <1>6, AttentionHasNoNorm
  <2> HIDE DEF qkv, move, ret, att, after, block, D
  <2>2. w[qkv] = 0 /\ w[move] = 0 /\ w[ret] = 0
    BY <1>3, <1>4, <1>6
  <2>3. Weight(after, w) \in Int
    BY <1>5, WeightOfBlock
  <2> QED
    BY <1>3, <2>1, <2>2, <2>3
<1> QED
  BY <1>3, <1>6, Zenon DEF NormsFollow

(* The norms of a run take a number of time units. *)
LEMMA NormTimes ==
    ASSUME Deployed, Splits(shard)
    PROVE  /\ NormTime(call.batch * call.lin) \in Nat
           /\ call.lout > 1 => NormTime(call.batch) \in Nat
<1>1. /\ call.batch * call.lin \in Nat /\ call.batch \in Nat /\ call.lout \in Nat
      /\ shard = Transformer(call.model, call.ngpu)
  BY CallsAssumption DEF Deployed
<1>2. NormTime(call.batch * call.lin) \in Nat
  <2> DEFINE hetero == FALSE
             block == BuildSum(shard, call.batch, call.lin, hetero, {})
  <2>0. hetero \in BOOLEAN
    OBVIOUS
  <2> HIDE DEF hetero
  <2>1. NormsFollow(block, call.batch * call.lin, call.lin)
    BY <2>0, NormsOfPrompt
  <2>2. block \in BlocksOfRun(call)
    <3>1. block = BuildSum(Transformer(call.model, call.ngpu), call.batch, call.lin, hetero, {})
      BY <1>1
    <3> QED
      BY <2>0, <3>1 DEF BlocksOfRun
  <2> HIDE DEF block
  <2>3. Elements(block) \subseteq LayersOfRun(call)
    BY <2>2, LayersOfBlock
  <2> QED
    BY <1>1, <2>1, <2>3, NormsOfBlock
<1>3. ASSUME call.lout > 1 PROVE NormTime(call.batch) \in Nat
  <2> DEFINE hetero == FALSE
             block == BuildGenStage(shard, call.batch, call.lin, 1, hetero)
  <2>0. hetero \in BOOLEAN
    OBVIOUS
  <2> HIDE DEF hetero
  <2>1. NormsFollow(block, call.batch, call.lin + 1)
    <3>1. 1 \in Nat
      OBVIOUS
    <3> QED
      BY <2>0, <3>1, NormsOfStage
  <2>2. block \in BlocksOfRun(call)
    <3>1. 1 \in 1..(call.lout - 1)
      BY <1>1, <1>3
    <3>2. block = BuildGenStage(Transformer(call.model, call.ngpu), call.batch, call.lin, 1, hetero)
      BY <1>1
    <3> QED
      BY <2>0, <3>1, <3>2 DEF BlocksOfRun
  <2> HIDE DEF block
  <2>3. Elements(block) \subseteq LayersOfRun(call)
    BY <2>2, LayersOfBlock
  <2> QED
    BY <1>1, <2>1, <2>3, NormsOfBlock
<1> QED
  BY <1>2, <1>3

(* What the blocks add to the columns of the norms. *)
LEMMA NormIsAColumn ==
    ASSUME NEW l, l.type \in LayerTypes
    PROVE  /\ "norm" \in SColumns(l) <=> l.type = "NORM"
           /\ (l.type = "FC" => l.name \in {"qkv", "proj", "ff1", "ff2", "ff3"})
                => ("norm" \in GColumns(l) <=> l.type = "NORM")
<1>1. "norm" \in SColumns(l) <=> l.type = "NORM"
  BY DEF SColumns, SColumnOf, LayerTypes
<1>2. ASSUME l.type = "FC" => l.name \in {"qkv", "proj", "ff1", "ff2", "ff3"}
      PROVE  "norm" \in GColumns(l) <=> l.type = "NORM"
  BY <1>2 DEF GColumns, FeedForward, LayerTypes
<1> QED
  BY <1>1, <1>2

LEMMA NormColumn ==
    ASSUME NEW block, NEW times
    PROVE  /\ Collect(SKeys, SColumns, block, times).norm = Total(SPart(block, times, "norm"))
           /\ Collect(GKeys, GColumns, block, times).norm = Total(GPart(block, times, "norm"))
<1>1. "norm" \in SKeys /\ "norm" \in GKeys
  BY DEF SKeys, GKeys
<1>2. /\ Collect(SKeys, SColumns, block, times) = [k \in SKeys |-> Total(SPart(block, times, k))]
      /\ Collect(GKeys, GColumns, block, times) = [k \in GKeys |-> Total(GPart(block, times, k))]
  BY CollectParts
<1> QED
  BY <1>1, <1>2

LEMMA NormsOfTower ==
    ASSUME Inv, pc = "vision", Len(ran) = Len(graph)
    PROVE  /\ Collect(SKeys, SColumns, graph, Times) \in [SKeys -> Int]
           /\ Collect(SKeys, SColumns, graph, Times).norm = NormsIn(Vision)
<1>1. /\ Len(graph) \in Nat /\ DOMAIN graph = 1..Len(graph)
      /\ Times \in [1..Len(graph) -> Int]
      /\ \A i \in 1..Len(graph) :
             /\ graph[i].type \in LayerTypes
             /\ graph[i].type = "NORM" => Times[i] = Cost("gpu", xpus, graph[i]).time
  BY BlockAnswered DEF Pricing
<1>2. Collect(SKeys, SColumns, graph, Times) \in [SKeys -> Int]
  BY <1>1, SOfBlock
<1>3. graph = Vision
  BY DEF Inv, Layered
<1>4. SPart(graph, Times, "norm") = [i \in DOMAIN graph |-> NormAt(graph[i])]
  BY <1>1, NormIsAColumn DEF SPart, NormAt
<1>5. Collect(SKeys, SColumns, graph, Times).norm = Total(SPart(graph, Times, "norm"))
  BY NormColumn
<1> QED
  BY <1>2, <1>3, <1>4, <1>5 DEF NormsIn

LEMMA NormsOfSum ==
    ASSUME Inv, pc = "sum", Len(ran) = Len(graph)
    PROVE  /\ NormTime(call.batch * call.lin) \in Nat
           /\ Collect(SKeys, SColumns, graph, PromptTimes) \in [SKeys -> Int]
           /\ Collect(SKeys, SColumns, graph, PromptTimes).norm
                = 2 * NormTime(call.batch * call.lin)
<1> DEFINE tokens == call.batch * call.lin
           hetero == groups[group].device # "gpu"
           idx == groups[group].idx
<1>1. /\ Len(graph) \in Nat /\ DOMAIN graph = 1..Len(graph)
      /\ \A i \in 1..Len(graph) : graph[i].type \in LayerTypes
  BY BlockAnswered DEF Pricing
<1>2. /\ PromptTimes \in [1..Len(graph) -> Int]
      /\ \A i \in 1..Len(graph) :
             graph[i].type = "NORM" => PromptTimes[i] = Cost("gpu", xpus, graph[i]).time
  BY PromptTyped
<1>3. Collect(SKeys, SColumns, graph, PromptTimes) \in [SKeys -> Int]
  BY <1>1, <1>2, SOfBlock
<1>4. SPart(graph, PromptTimes, "norm") = [i \in DOMAIN graph |-> NormAt(graph[i])]
  BY <1>1, <1>2, NormIsAColumn DEF SPart, NormAt
<1>5. Collect(SKeys, SColumns, graph, PromptTimes).norm = NormsIn(graph)
  <2>1. Collect(SKeys, SColumns, graph, PromptTimes).norm = Total(SPart(graph, PromptTimes, "norm"))
    BY NormColumn
  <2> QED
    BY <1>4, <2>1 DEF NormsIn
<1>6. Deployed /\ Splits(shard) /\ tokens \in Nat
  BY CallsAssumption DEF Inv, Deployed, Placed, Late, Pricing
<1>7. graph = BuildSum(shard, call.batch, call.lin, hetero, idx) /\ hetero \in BOOLEAN
  BY Zenon DEF Inv, Layered, SumBlock
<1>8. NormsFollow(graph, tokens, call.lin)
  <2> HIDE DEF hetero, idx
  <2> QED
    BY <1>6, <1>7, NormsOfPrompt
<1>9. Elements(graph) \subseteq LayersOfRun(call)
  BY BlockOfInv DEF Pricing
<1> HIDE DEF tokens
<1>10. NormTime(tokens) \in Nat /\ NormsIn(graph) = 2 * NormTime(tokens)
  BY <1>6, <1>8, <1>9, NormsOfBlock
<1> QED
  BY <1>3, <1>5, <1>10 DEF tokens

LEMMA NormsOfGen ==
    ASSUME Inv, pc = "gen", Len(ran) = Len(graph)
    PROVE  /\ NormTime(call.batch) \in Nat
           /\ Collect(GKeys, GColumns, graph, Overlapped) \in [GKeys -> Int]
           /\ Collect(GKeys, GColumns, graph, Overlapped).norm = 2 * NormTime(call.batch)
<1> DEFINE hetero == groups[group].device # "gpu"
<1>1. /\ Len(graph) \in Nat /\ DOMAIN graph = 1..Len(graph)
      /\ \A i \in 1..Len(graph) :
             /\ graph[i].type \in LayerTypes
             /\ graph[i].type = "FC" => graph[i].name \in {"qkv", "proj", "ff1", "ff2", "ff3"}
  BY BlockAnswered DEF Pricing
<1>2. /\ Overlapped \in [1..Len(graph) -> Int]
      /\ \A i \in 1..Len(graph) :
             graph[i].type = "NORM" => Overlapped[i] = Cost("gpu", xpus, graph[i]).time
  BY OverlappedTyped
<1>3. Collect(GKeys, GColumns, graph, Overlapped) \in [GKeys -> Int]
  BY <1>1, <1>2, GOfBlock
<1>4. GPart(graph, Overlapped, "norm") = [i \in DOMAIN graph |-> NormAt(graph[i])]
  BY <1>1, <1>2, NormIsAColumn DEF GPart, NormAt
<1>5. Collect(GKeys, GColumns, graph, Overlapped).norm = NormsIn(graph)
  <2>1. Collect(GKeys, GColumns, graph, Overlapped).norm = Total(GPart(graph, Overlapped, "norm"))
    BY NormColumn
  <2> QED
    BY <1>4, <2>1 DEF NormsIn
<1>6. Deployed /\ Splits(shard) /\ call.batch \in Nat /\ stage \in Nat
  <2>1. Deployed /\ Splits(shard) /\ stage \in 1..Most(1, call.lout - 1)
    BY DEF Inv, Placed, Late, Pricing
  <2> QED
    BY <2>1, CallsAssumption DEF Deployed
<1>7. graph = BuildGenStage(shard, call.batch, call.lin, stage, hetero) /\ hetero \in BOOLEAN
  BY Zenon DEF Inv, Layered, GenBlock
<1>8. NormsFollow(graph, call.batch, call.lin + stage)
  <2> HIDE DEF hetero
  <2> QED
    BY <1>6, <1>7, NormsOfStage
<1>9. Elements(graph) \subseteq LayersOfRun(call)
  BY BlockOfInv DEF Pricing
<1>10. NormTime(call.batch) \in Nat /\ NormsIn(graph) = 2 * NormTime(call.batch)
  BY <1>6, <1>8, <1>9, NormsOfBlock
<1> QED
  BY <1>3, <1>5, <1>10

----------------------------------------------------------------------------
(* The columns of the norms: those of the vision tower, of the prompt in   *)
(* the layers past, and of the tokens in the layers and the stages past.   *)

LayersPast(past) == call.model.ndec - (Left(groups, past)["gpu"] + Left(groups, past)["acc"])
StagesPast == (call.lout - 1) * LayersPast(TokensPast)
                + IF pc = "gen" THEN (stage - 1) * groups[group].count ELSE 0
PromptNorms == NormsIn(Vision) + (2 * NormTime(call.batch * call.lin)) * LayersPast(PromptPast)
TokenNorms == IF call.lout = 1 THEN 0 ELSE (2 * NormTime(call.batch)) * StagesPast
Counting == {"sum", "gen", "write", "done", "raised"}
Norms ==
    /\ pc \notin Counting => s_perf.norm = 0 /\ g_perf.norm = 0
    /\ pc \in Counting => /\ NormsIn(Vision) \in Int
                          /\ s_perf.norm = PromptNorms /\ g_perf.norm = TokenNorms

LEMMA LayersPastTyped ==
    ASSUME Inv, pc \in Late, NEW past
    PROVE  LayersPast(past) \in Int
<1>1. groups \in Seq(GroupRecords) /\ call.model.ndec \in Nat
  BY RoutedTyped, CallsAssumption DEF Inv, Placed, Deployed
<1>2. Left(groups, past)["gpu"] \in Nat /\ Left(groups, past)["acc"] \in Nat
  BY <1>1, LeftTyped
<1> QED
  BY <1>1, <1>2 DEF LayersPast

LEMMA OneLayerMore ==
    ASSUME Inv, pc \in Pricing, NEW past, group \notin past
    PROVE  LayersPast(past \cup {group}) = LayersPast(past) + groups[group].count
<1> DEFINE part == groups[group]
           more == past \cup {group}
<1>1. groups \in Seq(GroupRecords) /\ call.model.ndec \in Nat /\ group \in DOMAIN groups
  BY RoutedTyped, CallsAssumption DEF Inv, Placed, Deployed, Late
<1>2. /\ Left(groups, past)["gpu"] \in Nat /\ Left(groups, past)["acc"] \in Nat
  BY <1>1, LeftTyped
<1>3. /\ Left(groups, more)["gpu"] = Left(groups, past)["gpu"] - OnSide(part, "gpu")
      /\ Left(groups, more)["acc"] = Left(groups, past)["acc"] - OnSide(part, "acc")
  BY <1>1, OneGroupLess
<1>4. part.count \in Nat
  BY CountOfGroup
<1>5. OnSide(part, "gpu") + OnSide(part, "acc") = part.count
      /\ OnSide(part, "gpu") \in Nat /\ OnSide(part, "acc") \in Nat
  BY <1>4 DEF OnSide
<1> HIDE DEF part, more
<1> QED
  BY <1>1, <1>2, <1>3, <1>4, <1>5 DEF LayersPast, part, more

LEMMA NoLayerPast ==
    ASSUME Inv, Sited, pc \in Late
    PROVE  LayersPast({}) = 0
<1>1. groups = Routed /\ Deployed /\ (call.system = "dgx" <=> acc = "gpu")
  BY DEF Inv, Placed, Sited
<1>2. Left(groups, {}) = Promise
  BY <1>1, AllGroupsLeft
<1>3. Promise.acc \in Nat /\ Promise.gpu \in Nat /\ Promise.acc + Promise.gpu = call.model.ndec
  BY <1>1, SidesOfRouted
<1> QED
  BY <1>2, <1>3 DEF LayersPast

LEMMA EveryLayerPast ==
    ASSUME Inv, pc \in Late
    PROVE  LayersPast(DOMAIN groups) = call.model.ndec
<1>1. groups \in Seq(GroupRecords) /\ call.model.ndec \in Nat
  BY RoutedTyped, CallsAssumption DEF Inv, Placed, Deployed
<1>2. Left(groups, DOMAIN groups) = [side \in {"gpu", "acc"} |-> 0]
  BY <1>1, NoGroupLeft
<1> QED
  BY <1>1, <1>2 DEF LayersPast

Beginning ==
    /\ Inv /\ Sited /\ pc = "sum" /\ group = 1
    /\ s_perf.norm = NormsIn(Vision) /\ s_perf.norm \in Int /\ g_perf.norm = 0
LEMMA NormsBegin == Beginning => Norms
<1> SUFFICES ASSUME Beginning PROVE Norms
  OBVIOUS
<1>1. Inv /\ Sited /\ pc = "sum" /\ pc \in Late /\ pc \in Pricing /\ Deployed /\ Splits(shard)
  BY DEF Beginning, Inv, Placed, Late, Pricing
<1>2. PromptPast = {} /\ TokensPast = {}
  <2>1. PromptPast = TokensPast /\ TokensPast = 1..(group - 1) /\ group = 1
    BY <1>1, PastSets DEF Beginning
  <2> QED
    BY <2>1
<1>3. LayersPast({}) = 0
  BY <1>1, NoLayerPast
<1>4. NormTime(call.batch * call.lin) \in Nat /\ (call.lout > 1 => NormTime(call.batch) \in Nat)
  BY <1>1, NormTimes
<1>5. call.lout \in Nat \ {0}
  BY <1>1, CallsAssumption DEF Deployed
<1>6. PromptNorms = NormsIn(Vision)
  <2> DEFINE a == NormTime(call.batch * call.lin)
             b == NormsIn(Vision)
  <2>1. a \in Nat /\ b \in Int /\ PromptNorms = b + (2 * a) * 0
    BY <1>2, <1>3, <1>4 DEF Beginning, PromptNorms
  <2> HIDE DEF a, b
  <2> QED
    BY <2>1 DEF b
<1>7. TokenNorms = 0
  <2>1. StagesPast = 0
    <3>1. StagesPast = (call.lout - 1) * 0 + 0
      BY <1>1, <1>2, <1>3 DEF StagesPast
    <3> QED
      BY <1>5, <3>1
  <2>2. CASE call.lout = 1
    BY <2>2 DEF TokenNorms
  <2>3. CASE call.lout # 1
    <3>1. NormTime(call.batch) \in Nat
      BY <1>4, <1>5, <2>3
    <3> QED
      BY <2>1, <2>3, <3>1 DEF TokenNorms
  <2> QED
    BY <2>2, <2>3
<1> QED
  BY <1>1, <1>6, <1>7 DEF Beginning, Norms, Counting

LEMMA NormsBeginNext == Beginning' => Norms'
BY NormsBegin, PTL

(* A step that prices nothing leaves the columns of the norms as they are. *)
LEMMA NormsKept ==
    ASSUME Norms, UNCHANGED <<call, xpus, shard, groups, s_perf, g_perf>>,
           UNCHANGED <<PromptPast, TokensPast>>, pc' \in Counting <=> pc \in Counting,
           pc' = "gen" <=> pc = "gen", pc = "gen" => UNCHANGED <<group, stage>>
    PROVE  Norms'
<1>1. /\ NormsIn(Vision)' = NormsIn(Vision)
      /\ LayersPast(PromptPast)' = LayersPast(PromptPast)
      /\ LayersPast(TokensPast)' = LayersPast(TokensPast)
      /\ NormTime(call.batch * call.lin)' = NormTime(call.batch * call.lin)
      /\ NormTime(call.batch)' = NormTime(call.batch)
  BY DEF NormsIn, Vision, NormAt, LayersPast, NormTime, NormLayer
<1>2. StagesPast' = StagesPast
  BY <1>1 DEF StagesPast
<1>3. PromptNorms' = PromptNorms
  BY <1>1 DEF PromptNorms
<1>4. TokenNorms' = TokenNorms
  BY <1>1, <1>2 DEF TokenNorms
<1> QED
  BY <1>1, <1>3, <1>4 DEF Norms

LEMMA BuildNorms ==
    ASSUME Inv, Sited, Norms, Inv', Sited', Build
    PROVE  Norms'
<1>1. /\ pc = "build" /\ UNCHANGED <<call, xpus, shard, s_perf, g_perf, group>>
      /\ pc' \in {"failed", "vision"} \/ (pc' = "sum" /\ Vision = <<>>)
  BY DEF Build
<1>2. s_perf'.norm = 0 /\ g_perf'.norm = 0
  BY <1>1 DEF Norms, Counting
<1>3. CASE pc' \in {"failed", "vision"}
  BY <1>2, <1>3 DEF Norms, Counting
<1>4. CASE pc' = "sum" /\ Vision = <<>>
  <2>1. group' = 1
    BY <1>1 DEF Inv, Placed, Early
  <2>2. NormsIn(Vision)' = 0
    <3>1. Vision' = <<>>
      BY <1>1, <1>4 DEF Vision
    <3> DEFINE f == [i \in DOMAIN <<>> |-> NormAt(<<>>[i])']
    <3>2. f \in [1..0 -> Int] /\ 0 \in {0, 1}
      OBVIOUS
    <3>3. NormsIn(Vision)' = Total(f)
      BY <3>1 DEF NormsIn
    <3> HIDE DEF f
    <3> QED
      BY <3>2, <3>3, TotalOfFew
  <2>3. Beginning'
    BY <1>2, <1>4, <2>1, <2>2 DEF Beginning
  <2> QED
    BY <2>3, NormsBeginNext
<1> QED
  BY <1>1, <1>3, <1>4

LEMMA EndVisionNorms ==
    ASSUME Inv, Columns, Norms, Inv', Sited', EndVision
    PROVE  Norms'
<1> DEFINE src == Collect(SKeys, SColumns, graph, Times)
           sum == Accumulate(s_perf, src, 1)
<1>1. /\ pc = "vision" /\ Len(ran) = Len(graph) /\ pc' = "sum" /\ group = 1 /\ group' = group
      /\ UNCHANGED <<call, xpus, shard, g_perf>>
      /\ s_perf' = [sum EXCEPT !.all = @ + call.model.floor]
  BY DEF EndVision, NextBlock, Run, Inv, Placed
<1>2. src \in [SKeys -> Int] /\ src.norm = NormsIn(Vision)
  BY <1>1, NormsOfTower
<1>3. s_perf \in [SKeys -> Int] /\ s_perf.norm = 0 /\ g_perf.norm = 0
  BY <1>1 DEF Columns, Norms, Counting
<1> HIDE DEF src
<1>4. "norm" \in SKeys /\ "norm" # "all" /\ 1 \in Int
  BY DEF SKeys
<1>5. sum \in [SKeys -> Int] /\ sum["norm"] = s_perf["norm"] + src["norm"] * 1
  BY <1>2, <1>3, <1>4, AccumulateTyped
<1> HIDE DEF sum
<1>6. src["norm"] \in Int
  BY <1>2, <1>4
<1>7. s_perf'["norm"] = src["norm"]
  BY <1>1, <1>3, <1>4, <1>5, <1>6
<1>8. NormsIn(Vision)' = NormsIn(Vision)
  BY <1>1 DEF NormsIn, NormAt, Vision
<1>9. Beginning'
  BY <1>1, <1>2, <1>3, <1>6, <1>7, <1>8 DEF Beginning
<1> QED
  BY <1>9, NormsBeginNext

LEMMA EndSumNorms ==
    ASSUME Inv, Columns, Norms, EndSum
    PROVE  Norms'
<1> DEFINE src == Collect(SKeys, SColumns, graph, PromptTimes)
           count == groups[group].count
           time1 == NormTime(call.batch * call.lin)
           past == LayersPast(PromptPast)
           tower == NormsIn(Vision)
<1>1. /\ pc = "sum" /\ Len(ran) = Len(graph)
      /\ UNCHANGED <<call, xpus, shard, groups, g_perf>>
      /\ s_perf' = Accumulate(s_perf, src, count)
  BY Zenon DEF EndSum, Run, PromptTimes
<1>2. /\ pc' \in Late /\ PromptPast' = PromptPast \cup {group} /\ group \notin PromptPast
      /\ call.lout > 1 => TokensPast' = TokensPast
  BY EndSumPast
<1>3. pc' \in {"sum", "gen", "write"} /\ (call.lout > 1 => pc' = "gen" /\ group' = group /\ stage' = 1)
  BY AdvanceTo DEF EndSum, NextBlock
<1>4. time1 \in Nat /\ src \in [SKeys -> Int] /\ src["norm"] = 2 * time1
  BY <1>1, NormsOfSum
<1>5. count \in Int
  BY <1>1, CountOfGroup DEF Pricing
<1>6. past \in Int /\ LayersPast(PromptPast \cup {group}) = past + count
  BY <1>1, <1>2, LayersPastTyped, OneLayerMore DEF Late, Pricing
<1>7. s_perf \in [SKeys -> Int] /\ s_perf["norm"] = tower + (2 * time1) * past
  BY <1>1 DEF Columns, Norms, Counting, PromptNorms
<1>8. /\ NormsIn(Vision)' = tower
      /\ NormTime(call.batch * call.lin)' = time1
      /\ LayersPast(PromptPast)' = LayersPast(PromptPast \cup {group})
  BY <1>1, <1>2 DEF NormsIn, NormAt, Vision, NormTime, NormLayer, LayersPast
<1>9. PromptNorms' = tower + (2 * time1) * (past + count)
  BY <1>6, <1>8 DEF PromptNorms
<1>10. NormTime(call.batch)' = NormTime(call.batch) /\ LayersPast(TokensPast)' = LayersPast(TokensPast')
  BY <1>1 DEF NormTime, NormLayer, LayersPast
<1>11. g_perf'.norm = TokenNorms'
  <2>1. g_perf'.norm = TokenNorms
    BY <1>1 DEF Norms, Counting
  <2>2. CASE call.lout = 1
    BY <1>1, <2>1, <2>2 DEF TokenNorms
  <2>3. CASE call.lout # 1
    <3>1. call.lout > 1
      BY <2>3, CallsAssumption DEF Inv, Deployed
    <3>2. StagesPast' = StagesPast
      <4>1. StagesPast' = (call.lout - 1) * LayersPast(TokensPast) + (1 - 1) * count
        BY <1>1, <1>2, <1>3, <1>10, <3>1 DEF StagesPast
      <4>2. StagesPast = (call.lout - 1) * LayersPast(TokensPast) + 0
        BY <1>1 DEF StagesPast
      <4> HIDE DEF count
      <4>3. (1 - 1) * count = 0
        BY <1>5
      <4> QED
        BY <4>1, <4>2, <4>3
    <3> QED
      BY <1>1, <1>10, <2>1, <3>2 DEF TokenNorms
  <2> QED
    BY <2>2, <2>3
<1> HIDE DEF src, count, time1, past, tower
<1>12. s_perf'["norm"] = s_perf["norm"] + src["norm"] * count
  <2>1. "norm" \in SKeys
    BY DEF SKeys
  <2>2. \A k \in SKeys : Accumulate(s_perf, src, count)[k] = s_perf[k] + src[k] * count
    BY <1>7 DEF Accumulate
  <2> QED
    BY <1>1, <2>1, <2>2
<1>13. s_perf'["norm"] = PromptNorms'
  <2>1. tower + (2 * time1) * past \in Int
    BY <1>7 DEF SKeys
  <2>2. s_perf'["norm"] = (tower + (2 * time1) * past) + (2 * time1) * count
    BY <1>4, <1>7, <1>12
  <2>3. tower \in Int
    BY <1>1 DEF tower, Norms, Counting
  <2> QED
    BY <1>4, <1>5, <1>6, <1>9, <2>1, <2>2, <2>3
<1> QED
  <2>1. NormsIn(Vision)' \in Int
    BY <1>1, <1>8 DEF tower, Norms, Counting
  <2> QED
    BY <1>3, <1>11, <1>13, <2>1 DEF Norms, Counting

LEMMA EndStageNorms ==
    ASSUME Inv, Columns, Norms, EndStage
    PROVE  Norms'
<1> DEFINE src == Collect(GKeys, GColumns, graph, Overlapped)
           count == groups[group].count
           time1 == NormTime(call.batch)
           stages == call.lout - 1
           past == LayersPast(TokensPast)
<1>1. /\ pc = "gen" /\ Len(ran) = Len(graph)
      /\ UNCHANGED <<call, xpus, shard, groups, s_perf>>
      /\ g_perf' = Accumulate(g_perf, src, count)
  BY DEF EndStage, Run
<1>2. /\ pc \in Late /\ pc' \in Late /\ call.lout > 1 /\ PromptPast' = PromptPast
      /\ group \notin TokensPast
  BY EndStagePast
<1>3. time1 \in Nat /\ src \in [GKeys -> Int] /\ src["norm"] = 2 * time1
  BY <1>1, NormsOfGen
<1>4. count \in Int
  BY <1>1, CountOfGroup DEF Pricing
<1>5. past \in Int /\ LayersPast(TokensPast \cup {group}) = past + count
  BY <1>1, <1>2, LayersPastTyped, OneLayerMore DEF Late, Pricing
<1>6. g_perf \in [GKeys -> Int] /\ g_perf["norm"] = (2 * time1) * (stages * past + (stage - 1) * count)
  BY <1>1, <1>2 DEF Columns, Norms, Counting, TokenNorms, StagesPast
<1>7. call.lout \in Nat /\ stages \in Nat \ {0} /\ stage \in 1..stages
  BY <1>1, <1>2, CallsAssumption DEF Inv, Deployed, Placed, Most
<1>8. /\ NormsIn(Vision)' = NormsIn(Vision)
      /\ NormTime(call.batch * call.lin)' = NormTime(call.batch * call.lin)
      /\ NormTime(call.batch)' = time1
      /\ LayersPast(PromptPast)' = LayersPast(PromptPast)
      /\ LayersPast(TokensPast)' = LayersPast(TokensPast')
  BY <1>1, <1>2 DEF NormsIn, NormAt, Vision, NormTime, NormLayer, LayersPast
<1>9. PromptNorms' = PromptNorms
  BY <1>8 DEF PromptNorms
<1>10. pc' \in {"sum", "gen", "write"}
  BY AdvanceTo DEF EndStage, NextBlock
<1>11. StagesPast' = stages * past + stage * count
  <2>1. CASE stage < call.lout - 1
    <3>1. pc' = "gen" /\ group' = group /\ stage' = stage + 1
      BY <2>1 DEF EndStage, NextBlock
    <3>2. TokensPast' = TokensPast
      <4>1. TokensPast = 1..(group - 1) /\ group \in DOMAIN groups
        BY <1>1, <1>2, PastSets DEF Pricing
      <4>2. TokensPast' = 1..(group' - 1)
        BY <1>1, <1>2, <3>1, <4>1, PastSetsNext DEF Pricing
      <4> QED
        BY <3>1, <4>1, <4>2
    <3>3. StagesPast' = stages * past + ((stage + 1) - 1) * count
      BY <1>1, <1>8, <3>1, <3>2 DEF StagesPast
    <3>4. (stage + 1) - 1 = stage
      BY <1>7
    <3> QED
      BY <3>3, <3>4
  <2>2. CASE ~(stage < call.lout - 1)
    <3>1. Advance
      BY <2>2 DEF EndStage
    <3>2. TokensPast' = TokensPast \cup {group} /\ pc' \in {"sum", "write"}
      BY <1>1, <3>1, AdvanceTo, EndOfGroup
    <3>3. StagesPast' = stages * (past + count) + 0
      BY <1>1, <1>5, <1>8, <3>2 DEF StagesPast
    <3>4. stage = stages
      BY <1>7, <2>2
    <3> HIDE DEF stages, past, count
    <3>5. stages * (past + count) + 0 = stages * past + stages * count
      BY <1>4, <1>5, <1>7
    <3> QED
      BY <3>3, <3>4, <3>5
  <2> QED
    BY <2>1, <2>2
<1>12. TokenNorms' = (2 * time1) * (stages * past + stage * count)
  BY <1>1, <1>2, <1>8, <1>11 DEF TokenNorms
<1> HIDE DEF src, count, time1, stages, past
<1>13. g_perf'["norm"] = g_perf["norm"] + src["norm"] * count
  <2>1. "norm" \in GKeys
    BY DEF GKeys, SKeys
  <2>2. \A k \in GKeys : Accumulate(g_perf, src, count)[k] = g_perf[k] + src[k] * count
    BY <1>6 DEF Accumulate
  <2> QED
    BY <1>1, <2>1, <2>2
<1>14. g_perf'["norm"] = TokenNorms'
  <2> DEFINE a == stages * past
  <2>1. a \in Int /\ stage \in Int
    BY <1>5, <1>7
  <2> HIDE DEF a
  <2>2. (a + (stage - 1) * count) + count = a + stage * count
    BY <1>4, <2>1
  <2> DEFINE b == a + (stage - 1) * count
  <2>3. b \in Int /\ b + count = a + stage * count
    BY <1>4, <2>1, <2>2
  <2> HIDE DEF b
  <2>4. (2 * time1) * b + (2 * time1) * count = (2 * time1) * (b + count)
    BY <1>3, <1>4, <2>3
  <2> QED
    BY <1>3, <1>6, <1>12, <1>13, <2>3, <2>4 DEF a, b
<1>15. s_perf'.norm = PromptNorms'
  BY <1>1, <1>9 DEF Norms, Counting
<1>16. NormsIn(Vision)' \in Int
  BY <1>1, <1>8 DEF Norms, Counting
<1> QED
  BY <1>10, <1>14, <1>15, <1>16 DEF Norms, Counting

LEMMA NormsInit == Init => Norms
BY DEF Init, Norms, Counting, Zero, SKeys, GKeys

LEMMA NormsNext ==
    ASSUME Inv, Columns, Sited, Norms, Inv', Sited', [Next]_vars
    PROVE  Norms'
<1>1. CASE UNCHANGED vars \/ Finished
  <2>1. UNCHANGED vars
    BY <1>1 DEF Finished
  <2>2. UNCHANGED <<PromptPast, TokensPast>>
    BY <2>1 DEF vars, PromptPast, TokensPast, Over
  <2> QED
    BY <2>1, <2>2, NormsKept DEF vars
<1>2. CASE StartBySimRunner \/ Main \/ SetXpu \/ SetAccelerator
  <2>1. call.system \in {"dgx", "dgx-cpu", "dgx-attacc"}
    BY CallsAssumption DEF Inv, Deployed
  <2>2. pc \notin Counting /\ pc' \notin Counting /\ UNCHANGED <<s_perf, g_perf>>
    BY <1>2, <2>1 DEF StartBySimRunner, Main, SetXpu, SetAccelerator, Simulated, Priced, Counting
  <2> QED
    BY <2>2 DEF Norms
<1>3. CASE Build
  BY <1>3, BuildNorms
<1>4. CASE SumLayer \/ GenLayer
  <2>1. /\ pc \in Pricing /\ pc' = pc /\ UNCHANGED <<group, stage>>
        /\ UNCHANGED <<call, xpus, shard, groups, s_perf, g_perf>>
    BY <1>4 DEF SumLayer, GenLayer, Kept, Run, Pricing
  <2>2. UNCHANGED <<PromptPast, TokensPast>>
    BY <2>1 DEF PromptPast, TokensPast, Over
  <2> QED
    BY <2>1, <2>2, NormsKept
<1>5. CASE EndVision
  BY <1>5, EndVisionNorms
<1>6. CASE EndSum
  BY <1>6, EndSumNorms
<1>7. CASE EndStage
  BY <1>7, EndStageNorms
<1>8. CASE NoThroughput \/ WriteRow
  <2>1. /\ pc = "write" /\ pc' \in {"done", "raised"}
        /\ UNCHANGED <<call, xpus, shard, groups, group, s_perf, g_perf>>
    BY <1>8 DEF NoThroughput, WriteRow, Simulated, Priced
  <2>2. UNCHANGED <<PromptPast, TokensPast>>
    BY <2>1 DEF PromptPast, TokensPast, Over
  <2> QED
    BY <2>1, <2>2, NormsKept DEF Counting
<1> QED
  BY <1>1, <1>2, <1>3, <1>4, <1>5, <1>6, <1>7, <1>8 DEF Next

(* Whatever the model, the routing, the lengths and the costs: a run that   *)
(* writes its row generates tokens, and in its only row the norms are those *)
(* of the vision tower, the two of every decoder layer for the prompt and,  *)
(* for each of the other tokens, two more (simulate, write_csv).  One that  *)
(* divides by the time of no generation leaves no row.                      *)
THEOREM CountsAllLayers == Spec => []CountsEveryLayer
<1>1. LInv /\ Norms /\ Generated => CountsEveryLayer
  <2>0. LInv /\ pc = "raised" => csv = <<>>
    BY DEF LInv, Rows
  <2> SUFFICES ASSUME LInv, Norms, Generated, pc = "done" PROVE CountsEveryLayer
    BY <2>0 DEF CountsEveryLayer
  <2> DEFINE ndec == call.model.ndec
             prompt == NormTime(call.batch * call.lin)
             token == NormTime(call.batch)
             tower == NormsIn(Vision)
             Two(tokens) ==
                 2 * ndec
                   * Cost("gpu", xpus, Layer("norm1", "NORM", tokens, call.model.hdim, 1, 1)).time
             OfVision == Total([i \in DOMAIN Vision |->
                 IF Vision[i].type = "NORM" THEN Cost("gpu", xpus, Vision[i]).time ELSE 0])
  <2>1. Inv /\ Rows /\ Deployed /\ Splits(shard) /\ pc \in Late
    BY DEF LInv, IInv, Inv, Placed, Late
  <2>2. csv = << Row("this") >>
    BY <2>1 DEF Rows
  <2>3. Len(csv) = 1 /\ LastRow.run = "this" /\ LastRow.s = s_perf /\ LastRow.g = g_perf
    BY <2>2 DEF LastRow, Row
  <2>4. ndec \in Nat /\ call.lout \in Nat \ {0}
    BY <2>1, CallsAssumption DEF Deployed
  <2>5. call.lout > 1 /\ prompt \in Nat /\ token \in Nat
    BY <2>1, <2>4, NormTimes DEF Generated
  <2>6. LayersPast(PromptPast) = ndec /\ LayersPast(TokensPast) = ndec
    BY <2>1, PastSets, EveryLayerPast
  <2>7. tower \in Int /\ s_perf.norm = tower + (2 * prompt) * ndec
    BY <2>6 DEF Norms, Counting, PromptNorms
  <2>8. g_perf.norm = (2 * token) * ((call.lout - 1) * ndec + 0)
    BY <2>5, <2>6 DEF Norms, Counting, TokenNorms, StagesPast
  <2>9. OfVision = tower
    BY DEF NormsIn, NormAt
  <2>10. Two(call.batch * call.lin) = 2 * ndec * prompt /\ Two(call.batch) = 2 * ndec * token
    BY Zenon DEF NormTime, NormLayer
  <2> HIDE DEF ndec, prompt, token, tower, Two, OfVision
  <2>11. s_perf.norm = OfVision + Two(call.batch * call.lin)
    <3>1. (2 * prompt) * ndec = 2 * ndec * prompt
      BY <2>4, <2>5
    <3> QED
      BY <2>7, <2>9, <2>10, <3>1
  <2>12. g_perf.norm = (call.lout - 1) * Two(call.batch)
    <3> DEFINE stages == call.lout - 1
    <3>1. stages \in Nat
      BY <2>4, <2>5
    <3> HIDE DEF stages
    <3>2. (2 * token) * (stages * ndec + 0) = stages * (2 * ndec * token)
      BY <2>4, <2>5, <3>1
    <3> QED
      BY <2>8, <2>10, <3>2 DEF stages
  <2> QED
    BY <2>3, <2>5, <2>11, <2>12 DEF CountsEveryLayer, Two, OfVision, ndec
<1>2. Init => Norms /\ Generated
  BY NormsInit, GeneratedInit
<1>3. (LInv /\ Norms /\ Generated) /\ LInv' /\ [Next]_vars => Norms' /\ Generated'
  BY NormsNext, GeneratedNext DEF LInv, IInv
<1> QED
  BY <1>1, <1>2, <1>3, LInvHolds, PTL DEF Spec
(* The sampled positions around one that is not sampled. *)
LEMMA PointsAround ==
    ASSUME NEW last \in Nat, NEW points, 0 \in points, last \in points, NEW x \in 0..last
    PROVE  /\ (CHOOSE p \in points \cap 0..x : \A q \in points \cap 0..x : q <= p)
                  \in points \cap 0..x
           /\ (CHOOSE p \in points \cap x..last : \A q \in points \cap x..last : p <= q)
                  \in points \cap x..last
<1> DEFINE below == points \cap 0..x
           above == points \cap x..last
<1>1. \E p \in below : \A q \in below : q <= p
  <2> DEFINE D == {x - p : p \in below}
  <2>1. D \in SUBSET Nat /\ D # {}
    <3>1. 0 \in below
      OBVIOUS
    <3> QED
      BY <3>1
  <2>2. PICK d \in D : \A e \in D : d <= e
    <3> HIDE DEF D
    <3> QED
      BY <2>1, LeastNatural
  <2>3. PICK p \in below : d = x - p
    BY <2>2
  <2>4. ASSUME NEW q \in below PROVE q <= p
    <3>1. x - p <= x - q
      BY <2>2, <2>3
    <3> QED
      BY <3>1
  <2> QED
    BY <2>4
<1>2. \E p \in above : \A q \in above : p <= q
  <2>1. above \in SUBSET Nat /\ last \in above
    OBVIOUS
  <2> HIDE DEF above
  <2> QED
    BY <2>1, LeastNatural
<1> HIDE DEF below, above
<1>3. /\ (CHOOSE p \in below : \A q \in below : q <= p) \in below
      /\ (CHOOSE p \in above : \A q \in above : p <= q) \in above
  BY <1>1, <1>2
<1> QED
  BY <1>3 DEF below, above

----------------------------------------------------------------------------
(* What sampling the chunks of a prompt charges.                           *)

(* Between two points of a line whose last one may lie below it. *)
OnLine(y, last, a, b) ==
    /\ \A c \in 0..last : c < last => y[c] = a * c + b
    /\ y[last] <= a * last + b

Between(u, z, p, d) == u + ((z - u) * p) \div d

StaysBelow(a, u, z, p, d) ==
    /\ z <= u + a * d => Between(u, z, p, d) <= u + a * p
    /\ z = u + a * d => Between(u, z, p, d) = u + a * p

LEMMA BetweenPoints ==
    ASSUME NEW a \in Int, NEW u \in Int, NEW z \in Int, NEW p \in Nat, NEW d \in Nat \ {0}
    PROVE  StaysBelow(a, u, z, p, d)
<1> DEFINE v == z - u
           q == (v * p) \div d
<1>1. v \in Int /\ a * p \in Int /\ a * d \in Int /\ (a * p) * d = (a * d) * p
  OBVIOUS
<1> HIDE DEF v
<1>2. v * p \in Int /\ q \in Int
  BY <1>1, QuotientTyped
<1>3. ASSUME v <= a * d PROVE q <= a * p
  <2>1. \A r, s \in Int : r <= s => r * p <= s * p
    OBVIOUS
  <2>2. v * p <= (a * p) * d
    BY <1>1, <1>3, <2>1
  <2> QED
    BY <1>1, <1>2, <2>2, QuotientAtMost
<1>4. ASSUME v = a * d PROVE q >= a * p
  <2>1. v * p = (a * p) * d
    BY <1>1, <1>4
  <2> QED
    BY <1>1, <1>2, <2>1, QuotientAtLeast
<1>5. Between(u, z, p, d) = u + q
  BY Zenon DEF Between, q, v
<1>6. (z <= u + a * d => v <= a * d) /\ (z = u + a * d => v = a * d)
  BY <1>1 DEF v
<1> HIDE DEF q
<1> QED
  BY <1>1, <1>2, <1>3, <1>4, <1>5, <1>6 DEF StaysBelow

LEMMA InterpolateOnLine ==
    ASSUME NEW last \in Nat, NEW y \in [0..last -> Nat], NEW points, 0 \in points,
           last \in points, NEW a \in Int, NEW b \in Int, OnLine(y, last, a, b), NEW x \in 0..last
    PROVE  /\ Interpolate(points, y, last, x) <= y[x]
           /\ x \in points \/ y[last] = a * last + b => Interpolate(points, y, last, x) = y[x]
<1>1. CASE x \in points
  BY <1>1 DEF Interpolate
<1>2. CASE x \notin points
  <2> DEFINE below == points \cap 0..x
             above == points \cap x..last
             x0 == CHOOSE p \in below : \A q \in below : q <= p
             x1 == CHOOSE p \in above : \A q \in above : p <= q
  <2>1. x0 \in below /\ x1 \in above
    BY PointsAround
  <2>2. Interpolate(points, y, last, x)
          = y[x0] + ((y[x1] - y[x0]) * (x - x0)) \div (x1 - x0)
    BY <1>2, Zenon DEF Interpolate
  <2>3. x0 \in 0..x /\ x1 \in x..last /\ x0 # x /\ x1 # x
    BY <1>2, <2>1
  <2> HIDE DEF x0, x1
  <2>4. /\ x0 \in Nat /\ x1 \in Nat /\ x \in Nat /\ x0 < x /\ x < x1 /\ x1 <= last
    BY <2>3
  <2>5. y[x0] = a * x0 + b /\ y[x] = a * x + b /\ y[x1] \in Nat
        /\ (x1 < last => y[x1] = a * x1 + b) /\ y[last] <= a * last + b
    BY <2>4 DEF OnLine
  <2>6. y[x1] <= a * x1 + b /\ (y[last] = a * last + b => y[x1] = a * x1 + b)
    <3>1. CASE x1 = last
      BY <2>5, <3>1
    <3>2. CASE x1 < last
      BY <2>4, <2>5, <3>2
    <3> QED
      BY <2>4, <3>1, <3>2
  <2> DEFINE z == y[x1]
  <2>7. z \in Int
    BY <2>5
  <2> DEFINE u == y[x0]
             p == x - x0
             d == x1 - x0
             there == Between(u, z, p, d)
  <2>8. /\ p \in Nat /\ d \in Nat \ {0} /\ u \in Int
        /\ a * x1 + b = u + a * d /\ a * x + b = u + a * p
    BY <2>4, <2>5
  <2>9. Interpolate(points, y, last, x) = there
    BY <2>2, Zenon DEF Between
  <2> HIDE DEF z, u, p, d
  <2>10. there <= y[x] /\ (y[last] = a * last + b => there = y[x])
    <3>1. /\ z <= u + a * d => there <= u + a * p
          /\ z = u + a * d => there = u + a * p
      <4>1. a \in Int /\ u \in Int /\ z \in Int /\ p \in Nat /\ d \in Nat \ {0}
        BY <2>7, <2>8
      <4>2. StaysBelow(a, u, z, p, d)
        BY <4>1, BetweenPoints
      <4> QED
        BY <4>2 DEF StaysBelow
    <3>2. z <= u + a * d /\ (y[last] = a * last + b => z = u + a * d) /\ y[x] = u + a * p
      BY <2>5, <2>6, <2>8 DEF z
    <3> HIDE DEF there
    <3> QED
      BY <3>1, <3>2
  <2> HIDE DEF there
  <2> QED
    BY <1>2, <2>9, <2>10
<1> QED
  BY <1>1, <1>2

LEMMA EverythingSampled ==
    ASSUME NEW n \in Nat \ {0}, NEW y
    PROVE  PrefillScore(n, n, y) = Total([i \in 1..n |-> y[i - 1]])
<1> DEFINE points == SampleIndices(n, n)
<1>1. points = 0..(n - 1)
  BY DEF SampleIndices
<1>2. ASSUME NEW i \in 1..n PROVE Interpolate(points, y, n - 1, i - 1) = y[i - 1]
  <2>1. i - 1 \in points
    BY <1>1
  <2> HIDE DEF points
  <2> QED
    BY <2>1 DEF Interpolate
<1>3. [i \in 1..n |-> Interpolate(points, y, n - 1, i - 1)] = [i \in 1..n |-> y[i - 1]]
  <2> HIDE DEF points
  <2> QED
    BY <1>2, Zenon
<1> QED
  BY <1>3, Zenon DEF PrefillScore

(* However few are sampled, prices on a line are never overcharged. *)
LEMMA SamplingOnLine ==
    ASSUME NEW n \in Nat \ {0}, NEW samples \in Nat, NEW y \in [0..(n - 1) -> Nat],
           NEW a \in Int, NEW b \in Int, OnLine(y, n - 1, a, b)
    PROVE  /\ PrefillScore(n, samples, y) <= PrefillScore(n, n, y)
           /\ n <= samples \/ y[n - 1] = a * (n - 1) + b =>
                  PrefillScore(n, samples, y) = PrefillScore(n, n, y)
<1> DEFINE points == SampleIndices(n, samples)
           f == [i \in 1..n |-> Interpolate(points, y, n - 1, i - 1)]
           g == [i \in 1..n |-> y[i - 1]]
<1>1. 0 \in points /\ n - 1 \in points /\ (n <= samples => points = 0..(n - 1))
  BY DEF SampleIndices
<1>2. ASSUME NEW i \in 1..n
      PROVE  /\ i - 1 \in 0..(n - 1) /\ f[i] \in Int /\ g[i] \in Int /\ f[i] <= g[i]
             /\ n <= samples \/ y[n - 1] = a * (n - 1) + b => f[i] = g[i]
  <2> DEFINE last == n - 1
             x == i - 1
  <2>1. last \in Nat /\ x \in 0..last /\ y \in [0..last -> Nat] /\ OnLine(y, last, a, b)
        /\ 0 \in points /\ last \in points /\ (n <= samples => x \in points) /\ y[x] \in Nat
    BY <1>1
  <2> HIDE DEF last, x, points
  <2>2. /\ Interpolate(points, y, last, x) <= y[x]
        /\ x \in points \/ y[last] = a * last + b => Interpolate(points, y, last, x) = y[x]
        /\ Interpolate(points, y, last, x) \in Nat
    <3>1. /\ Interpolate(points, y, last, x) <= y[x]
          /\ x \in points \/ y[last] = a * last + b => Interpolate(points, y, last, x) = y[x]
      BY <2>1, InterpolateOnLine
    <3>2. Interpolate(points, y, last, x) \in Nat
      BY <2>1, InterpolateTyped
    <3> QED
      BY <3>1, <3>2
  <2> DEFINE there == Interpolate(points, y, last, x)
  <2>3. f[i] = there /\ g[i] = y[x]
    BY Zenon DEF last, x
  <2> HIDE DEF there, f, g
  <2>4. f[i] \in Int /\ g[i] \in Int /\ f[i] <= g[i]
        /\ (n <= samples \/ y[last] = a * last + b => f[i] = g[i])
    BY <2>1, <2>2, <2>3 DEF there
  <2> QED
    BY <2>1, <2>4 DEF last, x
<1>3. f \in [1..n -> Int] /\ g \in [1..n -> Int]
  BY <1>2
<1>4. Total(f) <= Total(g)
  <2> HIDE DEF f, g
  <2> QED
    BY <1>2, <1>3, TotalBetween
<1>5. n <= samples \/ y[n - 1] = a * (n - 1) + b => f = g
  BY <1>2, <1>3
<1>6. PrefillScore(n, samples, y) = Total(f)
  BY Zenon DEF PrefillScore
<1>7. PrefillScore(n, n, y) = Total(g)
  BY EverythingSampled
<1> HIDE DEF f, g
<1> QED
  BY <1>4, <1>5, <1>6, <1>7

(* The chunks of a prompt: all but the last are of the size asked for. *)
ChunksWell(length, size, n) ==
    /\ size \in Nat \ {0} /\ n \in Nat \ {0}
    /\ (n - 1) * size < length /\ length <= n * size
    /\ length % size = 0 => length = n * size

LEMMA ChunksAreWell ==
    ASSUME NEW length \in Nat \ {0}, NEW chunk \in Nat
    PROVE  ChunksWell(length, ChunkSize(length, chunk), Chunks(length, chunk))
<1> DEFINE size == ChunkSize(length, chunk)
           n == Chunks(length, chunk)
<1>1. size \in Nat \ {0} /\ n \in Nat \ {0}
  <2>1. size \in Nat \ {0}
    BY DEF ChunkSize, Most, Least
  <2> QED
    BY <2>1, ChunksTyped
<1>2. n = (length + size - 1) \div size
  BY Zenon DEF Chunks, CeilDiv
<1> HIDE DEF size, n
<1>3. size * n <= length + size - 1 /\ length + size - 1 < size * n + size
  BY <1>1, <1>2
<1>4. size * n = n * size /\ (n - 1) * size = n * size - size /\ n * size \in Nat
  BY <1>1
<1>5. ASSUME length % size = 0 PROVE length = n * size
  <2> DEFINE q == length \div size
  <2>1. q \in Int /\ length = size * q
    BY <1>1, <1>5
  <2> HIDE DEF q
  <2>2. size * n < size * q + size /\ size * q <= size * n
    BY <1>1, <1>3, <1>4, <2>1
  <2>3. size * q + size = size * (q + 1)
    BY <1>1, <2>1
  <2>4. \A r, s \in Int : r < s => size * r < size * s
    BY <1>1
  <2>5. \A r, s \in Int : r <= s => size * r <= size * s
    BY <1>1
  <2>6. ~(n < q) /\ ~(q + 1 <= n)
    BY <1>1, <2>1, <2>2, <2>3, <2>4, <2>5
  <2> QED
    BY <1>1, <1>4, <2>1, <2>6
<1> QED
  BY <1>1, <1>3, <1>4, <1>5 DEF ChunksWell, size, n

LEMMA ChunkOfPrompt ==
    ASSUME NEW length \in Nat \ {0}, NEW size, NEW n, ChunksWell(length, size, n),
           NEW c \in 0..(n - 1)
    PROVE  /\ c < n - 1 => /\ AccumulatedL(length, size, c) = (c + 1) * size
                           /\ ChunkTokens(length, size, c) = size
           /\ c = n - 1 => /\ AccumulatedL(length, size, c) = length
                           /\ ChunkTokens(length, size, c) = length - c * size
           /\ (n - 1) * size \in Nat /\ n * size = (n - 1) * size + size
<1>1. size \in Nat \ {0} /\ n \in Nat \ {0} /\ (n - 1) * size < length /\ length <= n * size
  BY DEF ChunksWell
<1>2. /\ c \in Nat /\ c <= n - 1 /\ (c + 1) * size = c * size + size /\ c * size \in Nat
      /\ (n - 1) * size \in Nat /\ n * size = (n - 1) * size + size
  BY <1>1
<1>3. ASSUME c < n - 1 PROVE (c + 1) * size <= (n - 1) * size
  <2>1. \A r, s \in Int : r <= s => r * size <= s * size
    BY <1>1
  <2> QED
    BY <1>1, <1>2, <1>3, <2>1
<1>4. CASE c < n - 1
  BY <1>1, <1>2, <1>3, <1>4 DEF AccumulatedL, ChunkTokens, Least
<1>5. CASE c = n - 1
  <2>1. c * size = (n - 1) * size /\ (c + 1) * size = n * size
    BY <1>1, <1>2, <1>5
  <2> QED
    BY <1>1, <1>2, <1>5, <2>1 DEF AccumulatedL, ChunkTokens, Least
<1> QED
  BY <1>2, <1>4, <1>5

(* The prices of the chunks when a query costs one, or what it has keys. *)
OnePerQuery(length, size, n) ==
    [c \in 0..(n - 1) |-> 1 * ChunkTokens(length, size, c)]
KeysPerQuery(length, size, n) ==
    [c \in 0..(n - 1) |-> AccumulatedL(length, size, c) * ChunkTokens(length, size, c)]

LEMMA PricesAreOnLines ==
    ASSUME NEW length \in Nat \ {0}, NEW size, NEW n, ChunksWell(length, size, n)
    PROVE  /\ OnePerQuery(length, size, n) \in [0..(n - 1) -> Nat]
           /\ KeysPerQuery(length, size, n) \in [0..(n - 1) -> Nat]
           /\ OnLine(OnePerQuery(length, size, n), n - 1, 0, size)
           /\ OnLine(KeysPerQuery(length, size, n), n - 1, size * size, size * size)
           /\ length % size = 0 =>
                  /\ OnePerQuery(length, size, n)[n - 1] = 0 * (n - 1) + size
                  /\ KeysPerQuery(length, size, n)[n - 1] = (size * size) * (n - 1) + size * size
<1> DEFINE one == OnePerQuery(length, size, n)
           keys == KeysPerQuery(length, size, n)
           s == size * size
           last == n - 1
           rest == length - last * size
<1>1. /\ size \in Nat \ {0} /\ n \in Nat \ {0} /\ last \in Nat /\ last \in 0..last
      /\ last * size < length /\ length <= n * size /\ (length % size = 0 => length = n * size)
  BY DEF ChunksWell
<1>2. last * size \in Nat /\ n * size = last * size + size
  <2>1. last \in 0..(n - 1)
    BY <1>1
  <2> QED
    BY <2>1, ChunkOfPrompt
<1>3. rest \in Nat /\ rest <= size /\ (length % size = 0 => rest = size)
  BY <1>1, <1>2
<1>4. ASSUME NEW c \in 0..last, c < last
      PROVE  /\ one[c] = size /\ one[c] = 0 * c + size
             /\ keys[c] = s * c + s /\ keys[c] \in Nat
  <2>1. AccumulatedL(length, size, c) = (c + 1) * size /\ ChunkTokens(length, size, c) = size
    BY <1>4, ChunkOfPrompt
  <2>2. one[c] = 1 * size /\ keys[c] = ((c + 1) * size) * size
    BY <2>1 DEF OnePerQuery, KeysPerQuery
  <2>3. ((c + 1) * size) * size = s * c + s /\ ((c + 1) * size) * size \in Nat
        /\ 1 * size = size /\ 0 * c + size = size
    BY <1>1
  <2> QED
    BY <2>2, <2>3
<1>5. /\ one[last] = rest /\ keys[last] = length * rest
      /\ length * rest \in Nat /\ length * rest <= s * last + s
      /\ length % size = 0 => length * rest = s * last + s
  <2>1. AccumulatedL(length, size, last) = length /\ ChunkTokens(length, size, last) = rest
    BY <1>1, ChunkOfPrompt
  <2>2. one[last] = 1 * rest /\ keys[last] = length * rest
    BY <1>1, <2>1 DEF OnePerQuery, KeysPerQuery
  <2> HIDE DEF rest
  <2>3. length * rest \in Nat /\ 1 * rest = rest
    BY <1>3
  <2>4. length * rest <= length * size /\ length * size <= (n * size) * size
    <3>1. \A a, b, d \in Nat : a <= b => d * a <= d * b
      OBVIOUS
    <3>2. \A a, b, d \in Nat : a <= b => a * d <= b * d
      OBVIOUS
    <3>3. n * size \in Nat
      BY <1>1
    <3> QED
      BY <1>1, <1>3, <3>1, <3>2, <3>3
  <2>5. (n * size) * size = s * last + s
    BY <1>1
  <2>6. length * size \in Nat /\ s * last + s \in Nat
    BY <1>1
  <2>7. length % size = 0 => length * rest = (n * size) * size
    BY <1>1, <1>3
  <2> QED
    BY <2>2, <2>3, <2>4, <2>5, <2>6, <2>7
<1> HIDE DEF one, keys, s, rest
<1>6. \A c \in 0..last : one[c] \in Nat /\ keys[c] \in Nat
  <2> TAKE c \in 0..last
  <2>1. CASE c < last
    BY <1>1, <1>4, <2>1
  <2>2. CASE c = last
    BY <1>3, <1>5, <2>2
  <2> QED
    BY <1>1, <2>1, <2>2
<1>7. one \in [0..last -> Nat] /\ keys \in [0..last -> Nat]
  <2>1. /\ one = [c \in 0..last |-> one[c]] /\ keys = [c \in 0..last |-> keys[c]]
    BY DEF one, keys, OnePerQuery, KeysPerQuery
  <2> QED
    BY <1>6, <2>1
<1>8. 0 * last + size = size
  BY <1>1
<1>9. OnLine(one, last, 0, size) /\ OnLine(keys, last, s, s)
  BY <1>3, <1>4, <1>5, <1>8 DEF OnLine
<1> QED
  BY <1>3, <1>5, <1>7, <1>8, <1>9 DEF one, keys, s

LEMMA TokensOfPrompt ==
    ASSUME NEW length \in Nat \ {0}, NEW size, NEW n, ChunksWell(length, size, n)
    PROVE  Total([i \in 1..n |-> OnePerQuery(length, size, n)[i - 1]]) = length
<1> DEFINE f == [i \in 1..n |-> OnePerQuery(length, size, n)[i - 1]]
<1>1. /\ size \in Nat \ {0} /\ n \in Nat \ {0}
  BY DEF ChunksWell
<1>2. ASSUME NEW i \in 1..n
      PROVE  f[i] \in Int /\ (i < n => f[i] = size) /\ (i = n => f[i] = length - (n - 1) * size)
  <2> DEFINE c == i - 1
  <2>1. c \in 0..(n - 1) /\ (i < n => c < n - 1) /\ (i = n => c = n - 1)
    BY <1>1
  <2>2. f[i] = 1 * ChunkTokens(length, size, c)
    BY <2>1 DEF OnePerQuery
  <2> HIDE DEF c
  <2>3. /\ c < n - 1 => ChunkTokens(length, size, c) = size
        /\ c = n - 1 => ChunkTokens(length, size, c) = length - c * size
        /\ (n - 1) * size \in Nat
    BY <2>1, ChunkOfPrompt
  <2>4. CASE i < n
    BY <1>1, <2>1, <2>2, <2>3, <2>4
  <2>5. CASE i = n
    <3>1. f[i] = 1 * (length - (n - 1) * size)
      BY <2>1, <2>2, <2>3, <2>5
    <3> QED
      BY <2>3, <2>5, <3>1
  <2> QED
    BY <1>1, <2>4, <2>5
<1>3. f \in [1..n -> Int]
  BY <1>2
<1> HIDE DEF f
<1>4. PICK sum : Sums(sum, f, n) /\ Total(f) = sum[n]
  BY <1>1, <1>3, TotalIsSum
<1> DEFINE P == {m \in Nat : m <= n - 1 => sum[m] = m * size}
<1>5. 0 \in P
  BY <1>1, <1>4 DEF Sums
<1>6. ASSUME NEW m \in Nat, m \in P PROVE m + 1 \in P
  <2> SUFFICES ASSUME m + 1 <= n - 1 PROVE sum[m + 1] = (m + 1) * size
    OBVIOUS
  <2>1. m + 1 \in 1..n /\ m + 1 < n /\ (m + 1) - 1 = m /\ m <= n - 1
    BY <1>1
  <2>2. sum[m + 1] = sum[m] + f[m + 1] /\ f[m + 1] = size /\ sum[m] = m * size
    BY <1>2, <1>4, <1>6, <2>1 DEF Sums
  <2>3. (m + 1) * size = m * size + size
    BY <1>1
  <2> QED
    BY <2>2, <2>3
<1> HIDE DEF P
<1>7. n - 1 \in P
  <2>1. \A m \in Nat : m \in P
    BY <1>5, <1>6, SetInduction
  <2> QED
    BY <1>1, <2>1
<1>8. sum[n - 1] = (n - 1) * size /\ n \in 1..n
  BY <1>1, <1>7 DEF P
<1>9. sum[n] = sum[n - 1] + f[n] /\ f[n] = length - (n - 1) * size
  BY <1>2, <1>4, <1>8 DEF Sums
<1>10. (n - 1) * size \in Int
  BY <1>1
<1> QED
  BY <1>4, <1>8, <1>9, <1>10 DEF f

(* Whatever the prompt, its chunks and how many of them are sampled: all    *)
(* queries are charged when all chunks are sampled, and never more when     *)
(* some are interpolated (_sample_indices, _interp_scalar).                 *)
THEOREM PromptNotOvercharged == Spec => []PrefillPricesThePrompt
<1>1. IInv => PrefillPricesThePrompt
  <2> SUFFICES ASSUME IInv, pc = "build" PROVE PrefillPricesThePrompt
    BY Zenon DEF PrefillPricesThePrompt
  <2> DEFINE lin == call.lin
             chunk == call.chunk
             samples == call.samples
             size == ChunkSize(lin, chunk)
             n == Chunks(lin, chunk)
             one == OnePerQuery(lin, size, n)
             keys == KeysPerQuery(lin, size, n)
             Score(all, y) == PrefillScore(n, all, y)
  <2>1. lin \in Nat \ {0} /\ chunk \in Nat /\ samples \in Nat
    BY CallsAssumption DEF IInv, Inv, Deployed
  <2>2. ChunkPrices(lin, chunk, LAMBDA k : 1) = one
    BY Zenon DEF ChunkPrices, OnePerQuery
  <2>3. ChunkPrices(lin, chunk, LAMBDA k : k) = keys
    BY Zenon DEF ChunkPrices, KeysPerQuery
  <2> HIDE DEF lin, chunk, samples
  <2>4. ChunksWell(lin, size, n)
    BY <2>1, ChunksAreWell
  <2> HIDE DEF size, n
  <2>5. n \in Nat \ {0}
    BY <2>4 DEF ChunksWell
  <2>6. size \in Int /\ size * size \in Int /\ 0 \in Int
    BY <2>4 DEF ChunksWell
  <2>7. /\ one \in [0..(n - 1) -> Nat] /\ keys \in [0..(n - 1) -> Nat]
        /\ OnLine(one, n - 1, 0, size) /\ OnLine(keys, n - 1, size * size, size * size)
        /\ lin % size = 0 =>
               /\ one[n - 1] = 0 * (n - 1) + size
               /\ keys[n - 1] = (size * size) * (n - 1) + size * size
    BY <2>1, <2>4, PricesAreOnLines
  <2>8. Total([i \in 1..n |-> one[i - 1]]) = lin
    BY <2>1, <2>4, TokensOfPrompt
  <2> HIDE DEF one, keys
  <2>9. Score(n, one) = lin
    BY <2>5, <2>8, EverythingSampled
  <2>10. /\ Score(samples, one) <= Score(n, one)
         /\ n <= samples \/ lin % size = 0 => Score(samples, one) = Score(n, one)
    <3>1. /\ Score(samples, one) <= Score(n, one)
          /\ n <= samples \/ one[n - 1] = 0 * (n - 1) + size => Score(samples, one) = Score(n, one)
      BY <2>1, <2>5, <2>6, <2>7, SamplingOnLine
    <3> QED
      BY <2>7, <3>1
  <2>11. /\ Score(samples, keys) <= Score(n, keys)
         /\ n <= samples \/ lin % size = 0 => Score(samples, keys) = Score(n, keys)
    <3> DEFINE s == size * size
    <3>1. s \in Int /\ OnLine(keys, n - 1, s, s)
          /\ (lin % size = 0 => keys[n - 1] = s * (n - 1) + s)
      BY <2>6, <2>7
    <3> HIDE DEF s
    <3>2. /\ Score(samples, keys) <= Score(n, keys)
          /\ n <= samples \/ keys[n - 1] = s * (n - 1) + s => Score(samples, keys) = Score(n, keys)
      BY <2>1, <2>5, <2>7, <3>1, SamplingOnLine
    <3> QED
      BY <3>1, <3>2
  <2>12. /\ Score(n, one) = lin
         /\ Score(samples, one) <= Score(n, one) /\ Score(samples, keys) <= Score(n, keys)
         /\ lin % size = 0 \/ n <= samples =>
                Score(samples, one) = Score(n, one) /\ Score(samples, keys) = Score(n, keys)
    BY <2>9, <2>10, <2>11
  <2> QED
    BY <2>2, <2>3, <2>12, Zenon DEF PrefillPricesThePrompt, lin, chunk, samples, size, n
<1> QED
  BY <1>1, IInvHolds, PTL
(***************************************************************************)
(* What the ceiling on the batch says.                                     *)
(***************************************************************************)
LEMMA LargestIsNatural ==
    ASSUME NEW a \in Nat, NEW b \in Nat, NEW c \in Nat, NEW d \in Nat
    PROVE  Max({a, b, c, d}) \in Nat
<1> DEFINE all == {a, b, c, d}
<1>1. \E x \in all : \A y \in all : x >= y
  OBVIOUS
<1>2. Max(all) \in all
  <2> HIDE DEF all
  <2> QED
    BY <1>1 DEF Max
<1> QED
  BY <1>2

(* A request keeps so many elements, and the intermediate results take so many for each. *)
PerRequest ==
    (call.model.ndec * 2 * (call.lin + call.lout - 1) * KvOut(shard)) \div shard.attn_tp
Intermediate == TempMemory(1)

LEMMA ShardsOfAttention ==
    ASSUME Deployed
    PROVE  /\ shard.fc_tp \in Nat \ {0}
           /\ shard.attn_tp \in Nat \ {0} /\ shard.attn_tp <= call.model.kv
           /\ shard.info = call.model
<1>1. call.ngpu \in Nat \ {0} /\ call.model.kv \in Nat \ {0}
  BY CallsAssumption DEF Deployed
<1> QED
  BY <1>1 DEF Deployed, Transformer, Least

LEMMA EveryRequestKeepsSomething ==
    ASSUME Deployed
    PROVE  PerRequest \in Nat \ {0}
<1> DEFINE ndec == call.model.ndec
           keys == call.lin + call.lout - 1
           kv == call.model.kv
           dhead == call.model.dhead
           attn == shard.attn_tp
           all == ndec * 2 * keys * (kv * dhead)
           rest == ndec * 2 * keys * dhead
<1>1. /\ ndec \in Nat \ {0} /\ keys \in Nat \ {0} /\ kv \in Nat \ {0} /\ dhead \in Nat \ {0}
  <2>1. /\ ndec \in Nat \ {0} /\ kv \in Nat \ {0} /\ dhead \in Nat \ {0}
        /\ call.lin \in Nat \ {0} /\ call.lout \in Nat \ {0}
    BY CallsAssumption DEF Deployed
  <2> QED
    BY <2>1
<1>2. attn \in Nat \ {0} /\ attn <= kv /\ shard.info = call.model
  BY ShardsOfAttention
<1>3. PerRequest = all \div attn
  BY <1>2 DEF PerRequest, KvOut
<1> HIDE DEF ndec, keys, kv, dhead, attn
<1>4. rest \in Nat \ {0} /\ all = kv * rest
  <2>1. \A x, y \in Nat \ {0} : x * y \in Nat \ {0}
    OBVIOUS
  <2>2. 2 * keys \in Nat \ {0}
    BY <1>1
  <2>3. rest = ndec * ((2 * keys) * dhead) /\ all = kv * (ndec * ((2 * keys) * dhead))
    BY <1>1
  <2>4. (2 * keys) * dhead \in Nat \ {0}
    BY <1>1, <2>1, <2>2
  <2>5. ndec * ((2 * keys) * dhead) \in Nat \ {0}
    BY <1>1, <2>1, <2>4
  <2> QED
    BY <2>3, <2>5
<1>5. all \in Int /\ 1 * attn <= all
  <2> HIDE DEF rest, all
  <2>1. kv * rest >= kv
    BY <1>1, <1>4
  <2>2. kv * rest \in Int
    BY <1>1, <1>4
  <2> QED
    BY <1>1, <1>2, <1>4, <2>1, <2>2
<1> HIDE DEF all
<1>6. 1 <= all \div attn /\ all \div attn \in Int
  BY <1>2, <1>5, QuotientAtLeast, QuotientTyped
<1> QED
  BY <1>3, <1>6

LEMMA MemoryOfBatch ==
    ASSUME Deployed, NEW batch \in Nat \ {0}
    PROVE  /\ KvMemory(batch) = batch * PerRequest
           /\ KvPerRequest(KvMemory(batch), batch) = PerRequest
           /\ Intermediate \in Nat /\ TempMemory(batch) = batch * Intermediate
<1>1. PerRequest \in Nat
  BY EveryRequestKeepsSomething
<1>2. KvMemory(batch) = batch * PerRequest
  BY DEF KvMemory, PerRequest
<1>3. (batch * PerRequest) \div batch = PerRequest
  <2> DEFINE kept == PerRequest
  <2> HIDE DEF kept
  <2>1. (batch * kept) \div batch = kept
    BY <1>1 DEF kept
  <2> QED
    BY <2>1 DEF kept
<1>4. Intermediate \in Nat /\ TempMemory(batch) = batch * Intermediate
  <2> DEFINE hdim == call.model.hdim
             scores == (call.lin + call.lout - 1) * call.model.q
             most == Max({hdim + scores, 2 * hdim, 2 * scores, call.model.ff + hdim})
  <2>1. hdim \in Nat /\ scores \in Nat /\ call.model.ff \in Nat
    <3>1. /\ hdim \in Nat /\ call.model.ff \in Nat /\ call.model.q \in Nat
          /\ call.lin \in Nat \ {0} /\ call.lout \in Nat
      BY CallsAssumption DEF Deployed
    <3>2. call.lin + call.lout - 1 \in Nat
      BY <3>1
    <3> QED
      BY <3>1, <3>2
  <2>2. most \in Nat
    <3> HIDE DEF scores, hdim
    <3>1. hdim + scores \in Nat /\ 2 * hdim \in Nat /\ 2 * scores \in Nat
          /\ call.model.ff + hdim \in Nat
      BY <2>1
    <3> QED
      BY <3>1, LargestIsNatural
  <2>3. TempMemory(batch) = batch * (most + scores) /\ Intermediate = 1 * (most + scores)
    BY DEF TempMemory, Intermediate
  <2> HIDE DEF most, scores
  <2> QED
    BY <2>1, <2>2, <2>3
<1> QED
  BY <1>1, <1>2, <1>3, <1>4 DEF KvPerRequest

(* Who is in main past its assertion has as many accelerators as GPUs. *)
Asserted == pc \notin {"main", "failed"} => Supported

LEMMA AssertedNext ==
    ASSUME Asserted, [Next]_vars
    PROVE  Asserted'
<1>1. CASE UNCHANGED vars \/ Finished
  BY <1>1 DEF vars, Finished, Asserted, Supported
<1>2. CASE StartBySimRunner \/ Main \/ SetXpu \/ SetAccelerator
  BY <1>2 DEF StartBySimRunner, Main, SetXpu, SetAccelerator, Asserted, Supported
<1>3. CASE Build \/ SumLayer \/ GenLayer \/ EndVision \/ EndSum \/ EndStage \/ NoThroughput
           \/ WriteRow
  <2>1. pc \notin {"main", "failed"} /\ UNCHANGED call
    BY <1>3 DEF Build, SumLayer, GenLayer, EndVision, EndSum, EndStage, NoThroughput, WriteRow,
                Advance, NextBlock, Kept, Run
  <2> QED
    BY <2>1 DEF Asserted, Supported
<1> QED
  BY <1>1, <1>2, <1>3 DEF Next

LEMMA RoomForBatch ==
    ASSUME Deployed, Supported, NEW b \in Nat \ {0}, NEW c \in Nat \ {0}, b <= c, Fits(c)
    PROVE  c <= MaxBatch(b)
<1> DEFINE kept == PerRequest
           most == Intermediate
           memory == GpuCapacity
           weights == WeightMemory
           stacks == HbmCapacity * Hbms
           accelerators == call.num_attacc
<1>1. kept \in Nat \ {0}
  BY EveryRequestKeepsSomething
<1>2. /\ most \in Nat /\ TempMemory(b) = b * most /\ TempMemory(c) = c * most
      /\ KvPerRequest(KvMemory(b), b) = kept /\ KvMemory(c) = c * kept
  BY MemoryOfBatch
<1>3. memory \in Nat /\ stacks \in Nat /\ accelerators \in Nat \ {0}
  <2>1. memory \in Nat /\ HbmCapacity \in Nat /\ Hbms \in Nat /\ call.ngpu \in Nat \ {0}
    BY CallsAssumption DEF Deployed
  <2> QED
    BY <2>1 DEF Supported
<1>4. weights \in Int
  <2> DEFINE held == call.model.ndec * WeightsPerLayer(call.model)
  <2>1. shard.fc_tp \in Nat \ {0}
    BY ShardsOfAttention
  <2>2. held \in Int
    <3> DEFINE t == Transformer(call.model, 1)
    <3>1. /\ call.model.hdim \in Nat /\ call.model.ff \in Nat /\ call.model.ndec \in Nat
          /\ call.model.q \in Nat /\ call.model.kv \in Nat /\ call.model.dhead \in Nat
      BY CallsAssumption DEF Deployed
    <3>2. t.info = call.model
      BY DEF Transformer
    <3>3. QOut(t) \in Nat /\ QkvOut(t) \in Nat
      <4> HIDE DEF t
      <4>1. QOut(t) \in Nat /\ KvOut(t) \in Nat
        BY <3>1, <3>2 DEF QOut, KvOut
      <4> QED
        BY <4>1 DEF QkvOut
    <3> HIDE DEF t
    <3>4. WeightsPerLayer(call.model)
            = call.model.hdim * QkvOut(t) + QOut(t) * call.model.hdim
                + call.model.hdim * call.model.ff * (IF call.model.gated THEN 3 ELSE 2)
      BY DEF WeightsPerLayer, t
    <3>5. /\ call.model.hdim * QkvOut(t) \in Int /\ QOut(t) * call.model.hdim \in Int
          /\ call.model.hdim * call.model.ff * (IF call.model.gated THEN 3 ELSE 2) \in Int
      BY <3>1, <3>3
    <3>6. WeightsPerLayer(call.model) \in Int
      BY <3>4, <3>5
    <3> QED
      BY <3>1, <3>6
  <2> HIDE DEF held
  <2>3. held \div shard.fc_tp \in Int
    BY <2>1, <2>2, QuotientTyped
  <2> QED
    BY <2>3 DEF WeightMemory, held
<1> HIDE DEF kept, most, memory, weights, stacks, accelerators
<1>5. c * kept \in Nat /\ b * most \in Nat /\ c * most \in Nat /\ b * most <= c * most
  <2>1. \A x, y \in Nat : x * y \in Nat
    OBVIOUS
  <2>2. \A x, y \in Nat : x <= y => x * most <= y * most
    BY <1>2
  <2> QED
    BY <1>1, <1>2, <2>1, <2>2
<1>6. CASE KvOnAttacc
  <2>1. MaxBatch(b) = (stacks * accelerators) \div kept
    BY <1>2, <1>6, Zenon DEF MaxBatch, AttaccKvCapacity, stacks, accelerators
  <2>2. c * kept <= stacks
    BY <1>2, <1>6 DEF Fits, AttaccKvCapacity, stacks
  <2>3. stacks * accelerators \in Int /\ stacks <= stacks * accelerators
    BY <1>3
  <2>4. c * kept <= stacks * accelerators
    BY <1>3, <1>5, <2>2, <2>3
  <2>5. c <= (stacks * accelerators) \div kept
    BY <1>1, <2>3, <2>4, QuotientAtLeast
  <2> QED
    BY <2>1, <2>5
<1>7. CASE ~KvOnAttacc
  <2> DEFINE free == memory - weights - b * most
  <2>1. MaxBatch(b) = Truncated(free, kept)
    BY <1>2, <1>7, Zenon DEF MaxBatch, KvOnGpu, memory, weights
  <2>2. weights + c * kept + c * most <= memory
    BY <1>2, <1>7 DEF Fits, KvOnGpu, memory, weights
  <2>3. free \in Int /\ c * kept <= free
    BY <1>3, <1>4, <1>5, <2>2
  <2> HIDE DEF free
  <2>4. c <= free \div kept
    BY <1>1, <2>3, QuotientAtLeast
  <2>5. free >= 0
    BY <1>5, <2>3
  <2> QED
    BY <2>1, <2>4, <2>5 DEF Truncated
<1> QED
  BY <1>6, <1>7

(* Whatever the memory, the model and the lengths: the largest batch that  *)
(* get_capacity_breakdown reports, seen from any smaller one, is at least  *)
(* every batch that fits.                                                  *)
THEOREM CeilingIsNotTooLow ==
    Spec => [](CeilingTurnsNobodyAway(Nat \ {0}) /\ CeilingOfSmallModels)
<1>1. Deployed /\ Asserted => CeilingTurnsNobodyAway(Nat \ {0}) /\ CeilingOfSmallModels
  <2> SUFFICES ASSUME Deployed, Asserted
               PROVE  CeilingTurnsNobodyAway(Nat \ {0}) /\ CeilingOfSmallModels
    OBVIOUS
  <2>1. CeilingTurnsNobodyAway(Nat \ {0})
    <3> SUFFICES ASSUME pc = "build", NEW b \in Nat \ {0}, NEW c \in Nat \ {0}, b <= c, Fits(c)
                 PROVE  c <= MaxBatch(b)
      BY DEF CeilingTurnsNobodyAway
    <3>1. Supported
      BY DEF Asserted
    <3> QED
      BY <3>1, RoomForBatch
  <2>2. 1..8 \subseteq Nat \ {0}
    OBVIOUS
  <2>3. CeilingTurnsNobodyAway(1..8)
    BY <2>1, <2>2, Zenon DEF CeilingTurnsNobodyAway
  <2> QED
    BY <2>1, <2>3 DEF CeilingOfSmallModels
<1>2. Init => Asserted
  BY DEF Init, Asserted
<1>3. Asserted /\ [Next]_vars => Asserted'
  BY AssertedNext
<1>4. IInv => Deployed
  BY DEF IInv, Inv
<1> QED
  BY <1>1, <1>2, <1>3, <1>4, IInvHolds, PTL DEF Spec

=============================================================================
