--------------------------- MODULE Devices_proofs ---------------------------
(***************************************************************************)
(* Proofs about what the devices answer, for any capacities, rates and     *)
(* energies, any model and any command line:                               *)
(*                                                                         *)
(*   FoundInL1, FoundInL2   the search for tiles finds tiles that fit the  *)
(*                          caches, and TilesOfSolid what they make a      *)
(*                          matrix product read and write                  *)
(*   DeviceAnswersWell      times, bounds and energies are natural numbers *)
(*   LayersArePriced        what the layers of a run have that the         *)
(*                          formulas need: positive sizes                  *)
(*   FormulasAnswerWell     so the proofs about a run hold of the formulas *)
(*   TilesFitTogether       and the tiles of what is priced next agree     *)
(*   MemoTellsTypes         and so do those that the memo answers with,    *)
(*                          where sizes tell the types of layers           *)
(***************************************************************************)
EXTENDS PricedSimulation, Simulation_proofs

(***************************************************************************)
(* The search for tiles.                                                   *)
(***************************************************************************)

(* Of finitely many fractions x / b there is a least. *)
LEMMA LeastFraction ==
    ASSUME NEW T, IsFiniteSet(T), T # {}, NEW x \in [T -> Nat], NEW b \in [T -> Nat \ {0}]
    PROVE  \E s \in T : \A t \in T : ~(x[t] * b[s] < x[s] * b[t])
<1> DEFINE Least0(U) == U = {} \/ \E s \in U : \A t \in U : x[s] * b[t] <= x[t] * b[s]
           P == {n \in Nat : \A U \in SUBSET T : IsFiniteSet(U) /\ Cardinality(U) = n => Least0(U)}
<1>1. 0 \in P
  <2>1. \A U : IsFiniteSet(U) /\ Cardinality(U) = 0 => U = {}
    BY FS_EmptySet
  <2> QED
    BY <2>1
<1>2. ASSUME NEW n \in Nat, n \in P PROVE n + 1 \in P
  <2> SUFFICES ASSUME NEW U \in SUBSET T, IsFiniteSet(U), Cardinality(U) = n + 1
               PROVE  Least0(U)
    OBVIOUS
  <2>1. U # {}
    BY FS_EmptySet
  <2>2. PICK u \in U : TRUE
    BY <2>1
  <2>3. IsFiniteSet(U \ {u}) /\ Cardinality(U \ {u}) = n
    <3>1. IsFiniteSet(U \ {u}) /\ Cardinality(U \ {u}) = Cardinality(U) - 1
      BY <2>2, FS_RemoveElement
    <3> QED
      BY <3>1
  <2>4. Least0(U \ {u})
    BY <1>2, <2>3
  <2>5. CASE U \ {u} = {}
    <3>1. \A t \in U : t = u
      BY <2>5
    <3>2. x[u] * b[u] <= x[u] * b[u]
      BY <2>2
    <3> QED
      BY <2>2, <3>1, <3>2
  <2>6. CASE U \ {u} # {}
    <3>1. PICK s \in U \ {u} : \A t \in U \ {u} : x[s] * b[t] <= x[t] * b[s]
      BY <2>4, <2>6
    <3>2. /\ x[u] \in Nat /\ b[u] \in Nat \ {0} /\ x[s] \in Nat /\ b[s] \in Nat \ {0}
          /\ \A t \in U : x[t] \in Nat /\ b[t] \in Nat \ {0}
      BY <2>2
    <3>3. CASE x[s] * b[u] <= x[u] * b[s]
      BY <3>1, <3>3
    <3>4. CASE ~(x[s] * b[u] <= x[u] * b[s])
      <4>1. ASSUME NEW t \in U \ {u} PROVE x[u] * b[t] <= x[t] * b[u]
        <5> DEFINE xu == x[u] bu == b[u] xs == x[s] bs == b[s] xt == x[t] bt == b[t]
        <5>1. xu \in Nat /\ bu \in Nat \ {0} /\ xs \in Nat /\ bs \in Nat \ {0}
              /\ xt \in Nat /\ bt \in Nat \ {0}
          BY <3>2
        <5>2. xs * bt <= xt * bs /\ xu * bs <= xs * bu
          <6>1. xs * bt <= xt * bs
            BY <3>1
          <6>2. ~(xs * bu <= xu * bs)
            BY <3>4
          <6> HIDE DEF xu, bu, xs, bs, xt, bt
          <6>3. xs * bu \in Int /\ xu * bs \in Int
            BY <5>1
          <6> QED
            BY <6>1, <6>2, <6>3
        <5> HIDE DEF xu, bu, xs, bs, xt, bt
        <5>3. \A c, d \in Nat : \A e \in Nat : c <= d => c * e <= d * e
          OBVIOUS
        <5>4. /\ xs * bt \in Nat /\ xt * bs \in Nat /\ xu * bs \in Nat /\ xs * bu \in Nat
              /\ xu * bt \in Nat /\ xt * bu \in Nat
          BY <5>1
        <5>5. (xu * bs) * bt <= (xs * bu) * bt /\ (xs * bt) * bu <= (xt * bs) * bu
          BY <5>1, <5>2, <5>3, <5>4
        <5>6. /\ (xu * bs) * bt = (xu * bt) * bs /\ (xs * bu) * bt = (xs * bt) * bu
              /\ (xt * bs) * bu = (xt * bu) * bs
          BY <5>1
        <5>7. (xu * bt) * bs <= (xt * bu) * bs
          <6>1. (xu * bs) * bt \in Int /\ (xs * bu) * bt \in Int /\ (xt * bs) * bu \in Int
            BY <5>1, <5>4
          <6> QED
            BY <5>5, <5>6, <6>1
        <5>8. \A c, d \in Nat : c * bs <= d * bs => c <= d
          BY <5>1
        <5>9. xu * bt <= xt * bu
          BY <5>4, <5>7, <5>8
        <5> QED
          BY <5>9 DEF xu, bu, xt, bt
      <4>2. x[u] * b[u] <= x[u] * b[u]
        BY <3>2
      <4> QED
        BY <2>2, <4>1, <4>2
    <3> QED
      BY <3>3, <3>4
  <2> QED
    BY <2>5, <2>6
<1>3. \A n \in Nat : n \in P
  <2> HIDE DEF P
  <2> QED
    BY <1>1, <1>2, SetInduction
<1>4. Least0(T)
  BY <1>3, FS_CardinalityType
<1>5. PICK s \in T : \A t \in T : x[s] * b[t] <= x[t] * b[s]
  BY <1>4
<1>6. \A t \in T : x[s] * b[t] \in Int /\ x[t] * b[s] \in Int
  OBVIOUS
<1> QED
  BY <1>5, <1>6

(* Pairs of numbers have a first. *)
LEMMA LexicographicFirst ==
    ASSUME NEW S \in SUBSET (Nat \X Nat), S # {}
    PROVE  \E a \in S : \A b \in S \ {a} : Lexicographic(a, b)
<1> DEFINE rows == {a[1] : a \in S}
<1>1. rows \in SUBSET Nat /\ rows # {}
  OBVIOUS
<1>2. PICK r \in rows : \A k \in rows : r <= k
  BY <1>1, LeastNatural
<1> DEFINE columns == {a[2] : a \in {a \in S : a[1] = r}}
<1>3. columns \in SUBSET Nat /\ columns # {}
  OBVIOUS
<1>4. PICK c \in columns : \A k \in columns : c <= k
  BY <1>3, LeastNatural
<1>5. PICK a \in S : a[1] = r /\ a[2] = c
  BY <1>4
<1>6. ASSUME NEW b \in S \ {a} PROVE Lexicographic(a, b)
  <2>1. a = <<a[1], a[2]>> /\ b = <<b[1], b[2]>> /\ a[1] \in Nat /\ b[1] \in Nat
        /\ a[2] \in Nat /\ b[2] \in Nat
    OBVIOUS
  <2>2. r <= b[1]
    BY <1>2
  <2>3. CASE b[1] = r
    <3>1. c <= b[2] /\ b[2] # a[2]
      BY <1>4, <1>5, <2>1, <2>3
    <3> QED
      BY <1>5, <2>1, <2>3, <3>1 DEF Lexicographic
  <2>4. CASE b[1] # r
    BY <1>5, <2>1, <2>2, <2>4 DEF Lexicographic
  <2> QED
    BY <2>3, <2>4
<1> QED
  BY <1>5, <1>6

LEMMA FirstInOrder ==
    ASSUME NEW S \in SUBSET (Nat \X Nat), S # {}
    PROVE  (CHOOSE a \in S : \A b \in S \ {a} : Lexicographic(a, b)) \in S
<1>1. \E a \in S : \A b \in S \ {a} : Lexicographic(a, b)
  BY LexicographicFirst
<1> QED
  BY <1>1

(* Layers with something in them, and tiles. *)
Solid(l) ==
    /\ {"m", "n", "k", "ops"} \subseteq DOMAIN l
    /\ {l.m, l.n, l.k, l.ops} \subseteq Sizes
Tiles == Sizes \X Sizes

LEMMA ProductOfSizes == \A a, b \in Sizes : a * b \in Sizes
BY DEF Sizes

LEMMA CeilDivIsSize ==
    ASSUME NEW a \in Sizes, NEW b \in Sizes
    PROVE  CeilDiv(a, b) \in Sizes
<1> DEFINE up == a + b - 1
<1>1. up \in Int /\ 1 * b <= up /\ b \in Nat \ {0} /\ 1 \in Int
  BY DEF Sizes
<1> HIDE DEF up
<1>2. 1 <= up \div b /\ up \div b \in Int
  BY <1>1, QuotientAtLeast, QuotientTyped
<1> QED
  BY <1>2 DEF CeilDiv, Sizes, up

(* What a tile makes of the rows and of the columns of a layer. *)
LEMMA PartsOfTile ==
    ASSUME NEW l, Solid(l), NEW t \in Tiles
    PROVE  /\ l.m \in Sizes /\ l.n \in Sizes /\ l.k \in Sizes /\ l.ops \in Sizes
           /\ CeilDiv(l.n, t[2]) \in Sizes /\ CeilDiv(l.m, t[1]) \in Sizes
<1>1. l.m \in Sizes /\ l.n \in Sizes /\ l.k \in Sizes /\ l.ops \in Sizes
      /\ t[1] \in Sizes /\ t[2] \in Sizes
  BY DEF Solid, Tiles
<1> QED
  BY <1>1, CeilDivIsSize

LEMMA TrafficIsSize ==
    ASSUME NEW l, Solid(l), NEW t \in Tiles
    PROVE  Sum3(TrafficForTile(l, t)) \in Sizes
<1> DEFINE columns == CeilDiv(l.n, t[2])
           rows == CeilDiv(l.m, t[1])
           a == columns * l.m * l.k * l.ops
           b == rows * l.n * l.k * l.ops
           c == l.m * l.n * l.ops
<1>1. /\ l.m \in Sizes /\ l.n \in Sizes /\ l.k \in Sizes /\ l.ops \in Sizes
      /\ columns \in Sizes /\ rows \in Sizes
  BY PartsOfTile
<1> HIDE DEF columns, rows
<1>2. columns * l.m \in Sizes /\ rows * l.n \in Sizes /\ l.m * l.n \in Sizes
  BY <1>1, ProductOfSizes
<1>3. columns * l.m * l.k \in Sizes /\ rows * l.n * l.k \in Sizes
  BY <1>1, <1>2, ProductOfSizes
<1>4. a \in Sizes /\ b \in Sizes /\ c \in Sizes
  BY <1>1, <1>2, <1>3, ProductOfSizes
<1>5. TrafficForTile(l, t) = <<a, b, c>>
  BY Zenon DEF TrafficForTile, columns, rows
<1> HIDE DEF a, b, c
<1>6. Sum3(<<a, b, c>>) = a + b + c
  BY DEF Sum3
<1> QED
  BY <1>4, <1>5, <1>6 DEF Sizes

LEMMA BlocksAreSizes ==
    ASSUME NEW l, Solid(l), NEW t \in Tiles
    PROVE  ThreadBlocks(l, t) \in Sizes /\ Slots(l, t) \in Sizes
<1> DEFINE columns == CeilDiv(l.n, t[2])
           rows == CeilDiv(l.m, t[1])
           each == IF l.type = "FC" THEN rows * columns ELSE 1
           cores == Cores
<1>1. columns \in Sizes /\ rows \in Sizes /\ l.ops \in Sizes
  BY PartsOfTile
<1>2. each \in Sizes
  <2> HIDE DEF columns, rows
  <2>1. rows * columns \in Sizes /\ 1 \in Sizes
    BY <1>1, ProductOfSizes DEF Sizes
  <2> QED
    BY <2>1
<1> HIDE DEF each
<1>3. ThreadBlocks(l, t) \in Sizes
  <2>1. l.ops * each \in Sizes
    BY <1>1, <1>2, ProductOfSizes
  <2> QED
    BY <2>1 DEF ThreadBlocks, each
<1>4. cores \in Sizes
  BY DevicesAssumption DEF Sizes
<1> HIDE DEF cores
<1>5. CeilDiv(ThreadBlocks(l, t), cores) \in Sizes
  BY <1>3, <1>4, CeilDivIsSize
<1>6. CeilDiv(ThreadBlocks(l, t), cores) * cores \in Sizes
  BY <1>4, <1>5, ProductOfSizes
<1> QED
  BY <1>3, <1>6 DEF Slots, cores

(* The search in the L1 cache ends with a tile that is no larger than the layer. *)
LEMMA FoundInL1 ==
    ASSUME NEW l, Solid(l)
    PROVE  L1Tile(l) \in (1..l.m) \X (1..l.n)
<1> DEFINE Clipped == {<<Least(a, l.m), Least(b, l.n)>> : a, b \in TileSizes}
           Within(t) == (t[1] + t[2]) * 32 + t[1] * t[2] <= L1Capacity
           T == {t \in Clipped : Within(t)}
           x == [t \in T |-> Sum3(TrafficForTile(l, t)) * (Slots(l, t) * Slots(l, t))]
           busy == [t \in T |-> ThreadBlocks(l, t) * ThreadBlocks(l, t)]
           best == {a \in T : \A b \in T : ~L1Cheaper(l, b, a)}
           all == (1..l.m) \X (1..l.n)
<1>1. l.m \in Nat \ {0} /\ l.n \in Nat \ {0} /\ TileSizes \subseteq 8..512
  BY DEF Solid, Sizes, TileSizes
<1>2. T \subseteq all
  <2>1. \A a, b \in TileSizes : Least(a, l.m) \in 1..l.m /\ Least(b, l.n) \in 1..l.n
    BY <1>1 DEF Least
  <2> QED
    BY <2>1
<1>3. <<Least(8, l.m), Least(8, l.n)>> \in T
  <2> DEFINE a == Least(8, l.m) b == Least(8, l.n)
  <2>1. a \in 1..8 /\ b \in 1..8
    BY <1>1 DEF Least
  <2>2. <<a, b>> \in Clipped
    BY DEF TileSizes
  <2>3. Within(<<a, b>>)
    <3>1. 576 <= L1Capacity /\ L1Capacity \in Nat
      BY DevicesAssumption
    <3> HIDE DEF a, b
    <3>2. a * b <= 64 /\ a * b \in Nat
      BY <2>1
    <3>3. (a + b) * 32 + a * b <= 576
      BY <2>1, <3>2
    <3>4. (a + b) * 32 + a * b \in Int
      BY <2>1, <3>2
    <3>5. (a + b) * 32 + a * b <= L1Capacity
      BY <3>1, <3>3, <3>4
    <3> QED
      BY <3>5
  <2> QED
    BY <2>2, <2>3
<1>4. IsFiniteSet(T)
  <2>1. IsFiniteSet(1..l.m) /\ IsFiniteSet(1..l.n)
    <3>1. 1 \in Int /\ l.m \in Int /\ l.n \in Int
      BY <1>1
    <3> QED
      BY <3>1, FS_Interval
  <2>2. IsFiniteSet(all)
    BY <2>1, FS_Product
  <2> QED
    BY <1>2, <2>2, FS_Subset
<1>5. all \subseteq Tiles /\ all \subseteq Nat \X Nat
  BY <1>1 DEF Tiles, Sizes
<1>6. L1Tile(l) = CHOOSE a \in best : \A b \in best \ {a} : Lexicographic(a, b)
  <2>1. L1Tile(l) = FirstBest(T, LAMBDA a, b : L1Cheaper(l, a, b))
    BY DEF L1Tile
  <2> HIDE DEF T
  <2> QED
    BY <2>1, Zenon DEF FirstBest
<1> HIDE DEF T, all
<1>7. x \in [T -> Nat] /\ busy \in [T -> Nat \ {0}]
  <2>1. ASSUME NEW t \in T
        PROVE  /\ Sum3(TrafficForTile(l, t)) * (Slots(l, t) * Slots(l, t)) \in Nat
               /\ ThreadBlocks(l, t) * ThreadBlocks(l, t) \in Nat \ {0}
    <3>1. t \in Tiles
      BY <1>2, <1>5
    <3>2. Sum3(TrafficForTile(l, t)) \in Sizes
      BY <3>1, TrafficIsSize
    <3>3. ThreadBlocks(l, t) \in Sizes /\ Slots(l, t) \in Sizes
      BY <3>1, BlocksAreSizes
    <3>4. Slots(l, t) * Slots(l, t) \in Sizes /\ ThreadBlocks(l, t) * ThreadBlocks(l, t) \in Sizes
      BY <3>3, ProductOfSizes
    <3>5. Sum3(TrafficForTile(l, t)) * (Slots(l, t) * Slots(l, t)) \in Sizes
      BY <3>2, <3>4, ProductOfSizes
    <3> QED
      BY <3>4, <3>5 DEF Sizes
  <2> QED
    BY <2>1
<1>8. PICK s \in T : \A t \in T : ~(x[t] * busy[s] < x[s] * busy[t])
  <2> HIDE DEF x, busy
  <2> QED
    BY <1>3, <1>4, <1>7, LeastFraction
<1>9. s \in best
  <2> SUFFICES ASSUME NEW t \in T PROVE ~L1Cheaper(l, t, s)
    OBVIOUS
  <2>1. L1Cheaper(l, t, s) = (x[t] * busy[s] < x[s] * busy[t])
    BY <1>7 DEF L1Cheaper
  <2> QED
    BY <1>8, <2>1
<1>10. best \in SUBSET (Nat \X Nat) /\ best \subseteq all
  BY <1>2, <1>5
<1> HIDE DEF best
<1> QED
  BY <1>6, <1>9, <1>10, FirstInOrder DEF all

(* The search in the L2 cache ends with a tile that needs no more traffic than that. *)
LEMMA FoundInL2 ==
    ASSUME NEW l, Solid(l), NEW l1 \in (1..l.m) \X (1..l.n)
    PROVE  /\ L2Tile(l, l1) \in Tiles
           /\ Sum3(TrafficForTile([l EXCEPT !.ops = 1], L2Tile(l, l1)))
                <= Sum3(TrafficForTile([l EXCEPT !.ops = 1], l1))
<1> DEFINE Multiples(size, step) == {step * i : i \in 1..(size \div step)} \cup {size}
           Within(t) == (t[1] + t[2]) * l.k + 64 * t[1] * t[2] <= 64 * L2Capacity
           T == {t \in Multiples(l.m, l1[1]) \X Multiples(l.n, l1[2]) : t = l1 \/ Within(t)}
           one == [l EXCEPT !.ops = 1]
           Access(t) == Sum3(TrafficForTile(one, t))
           access == {Access(t) : t \in T}
           best == {a \in T : \A b \in T : ~(Access(b) < Access(a))}
<1>1. /\ l.m \in Sizes /\ l.n \in Sizes /\ l1[1] \in Sizes /\ l1[2] \in Sizes
      /\ l1[1] \in 1..l.m /\ l1[2] \in 1..l.n /\ l1 = <<l1[1], l1[2]>>
  BY DEF Solid, Sizes
<1>2. Solid(one)
  <2>1. l.m \in Sizes /\ l.n \in Sizes /\ l.k \in Sizes /\ 1 \in Sizes
    BY DEF Solid, Sizes
  <2> QED
    BY <2>1 DEF Solid
<1>3. ASSUME NEW size \in Sizes, NEW step \in 1..size
      PROVE  Multiples(size, step) \subseteq Sizes /\ step \in Multiples(size, step)
  <2>1. step \in Sizes /\ \A i \in 1..(size \div step) : i \in Sizes
    BY <1>3 DEF Sizes
  <2>2. \A i \in 1..(size \div step) : step * i \in Sizes
    BY <2>1, ProductOfSizes
  <2>3. 1 <= size \div step /\ size \div step \in Int
    <3>1. size \in Int /\ step \in Nat \ {0} /\ 1 * step <= size /\ 1 \in Int
      BY <1>3 DEF Sizes
    <3> QED
      BY <3>1, QuotientAtLeast, QuotientTyped
  <2>4. 1 \in 1..(size \div step) /\ step * 1 = step
    BY <1>3, <2>3
  <2> QED
    BY <1>3, <2>2, <2>4
<1>4. T \subseteq Tiles
  <2> HIDE DEF Multiples, Within
  <2> QED
    BY <1>1, <1>3 DEF Tiles
<1>5. l1 \in T
  <2> HIDE DEF Multiples, Within
  <2> QED
    BY <1>1, <1>3
<1>6. L2Tile(l, l1) = FirstBest(T, LAMBDA a, b : Access(a) < Access(b))
  BY DEF L2Tile
<1> HIDE DEF T
<1>7. L2Tile(l, l1) = CHOOSE a \in best : \A b \in best \ {a} : Lexicographic(a, b)
  BY <1>6, Zenon DEF FirstBest
<1>8. \A t \in T : Access(t) \in Sizes
  <2> HIDE DEF one
  <2> QED
    BY <1>2, <1>4, TrafficIsSize
<1> HIDE DEF Access
<1>9. access \in SUBSET Nat /\ access # {}
  BY <1>5, <1>8 DEF Sizes
<1>10. PICK least \in access : \A k \in access : least <= k
  <2> HIDE DEF access
  <2> QED
    BY <1>9, LeastNatural
<1>11. PICK s \in T : Access(s) = least
  BY <1>10
<1>12. s \in best
  BY <1>8, <1>10, <1>11 DEF Sizes
<1>13. best \in SUBSET (Nat \X Nat)
  BY <1>4 DEF Tiles, Sizes
<1>14. L2Tile(l, l1) \in best
  <2> HIDE DEF best
  <2> QED
    BY <1>7, <1>12, <1>13, FirstInOrder
<1>15. L2Tile(l, l1) \in T /\ ~(Access(l1) < Access(L2Tile(l, l1)))
  BY <1>5, <1>14
<1>16. Access(l1) \in Nat /\ Access(L2Tile(l, l1)) \in Nat
  BY <1>5, <1>8, <1>15 DEF Sizes
<1>17. Access(L2Tile(l, l1)) <= Access(l1)
  BY <1>15, <1>16
<1> QED
  BY <1>4, <1>15, <1>17 DEF Access

(* Traffic is that of one of the operations, so many times, and every tile *)
(* reads the operands once and writes the result once.                     *)
LEMMA TrafficOfOne ==
    ASSUME NEW l, Solid(l), NEW t \in Tiles
    PROVE  /\ Sum3(TrafficForTile(l, t))
                = l.ops * Sum3(TrafficForTile([l EXCEPT !.ops = 1], t))
           /\ Sum3(TrafficForTile(l, t)) >= l.ops * (l.m * l.k + l.n * l.k + l.m * l.n)
<1> DEFINE one == [l EXCEPT !.ops = 1]
           m == l.m n == l.n k == l.k ops == l.ops
           columns == CeilDiv(n, t[2])
           rows == CeilDiv(m, t[1])
<1>1. /\ m \in Nat \ {0} /\ n \in Nat \ {0} /\ k \in Nat \ {0} /\ ops \in Nat \ {0}
      /\ columns \in Nat \ {0} /\ rows \in Nat \ {0}
  BY PartsOfTile DEF Sizes
<1>2. TrafficForTile(l, t) = <<columns * m * k * ops, rows * n * k * ops, m * n * ops>>
  BY Zenon DEF TrafficForTile
<1>3. TrafficForTile(one, t) = <<columns * m * k * 1, rows * n * k * 1, m * n * 1>>
  BY DEF TrafficForTile
<1> HIDE DEF one, m, n, k, ops, columns, rows
<1> DEFINE a == columns * m * k
           b == rows * n * k
           c == m * n
<1>4. a \in Nat /\ b \in Nat /\ c \in Nat /\ m * k \in Nat /\ n * k \in Nat
  BY <1>1
<1>5. Sum3(TrafficForTile(l, t)) = a * ops + b * ops + c * ops
  BY <1>2 DEF Sum3
<1>6. Sum3(TrafficForTile(one, t)) = a * 1 + b * 1 + c * 1
  BY <1>3 DEF Sum3
<1>7. m * k <= a /\ n * k <= b
  <2>1. \A x \in Nat : \A y \in Nat \ {0} : x <= y * x
    OBVIOUS
  <2>2. a = columns * (m * k) /\ b = rows * (n * k)
    BY <1>1
  <2> QED
    BY <1>1, <1>4, <2>1, <2>2
<1> DEFINE p == m * k q == n * k
<1>8. p \in Nat /\ q \in Nat /\ p <= a /\ q <= b
  BY <1>4, <1>7
<1> HIDE DEF a, b, c, p, q
<1>9. a * ops + b * ops + c * ops = ops * (a * 1 + b * 1 + c * 1)
  BY <1>1, <1>4
<1>10. a * ops + b * ops + c * ops >= ops * (p + q + c)
  <2>1. \A x, y \in Nat : x <= y => ops * x <= y * ops
    BY <1>1
  <2>2. p + q + c \in Nat /\ a + b + c \in Nat /\ p + q + c <= a + b + c
    BY <1>4, <1>8
  <2>3. ops * (p + q + c) <= (a + b + c) * ops
    BY <2>1, <2>2
  <2>4. (a + b + c) * ops = a * ops + b * ops + c * ops
    BY <1>1, <1>4
  <2>5. ops * (p + q + c) \in Int /\ (a + b + c) * ops \in Int
    BY <1>1, <2>2
  <2> QED
    BY <2>3, <2>4, <2>5
<1> QED
  BY <1>5, <1>6, <1>9, <1>10 DEF one, m, n, k, ops, p, q, c

LEMMA TilesOfSolid ==
    ASSUME NEW l, Solid(l)
    PROVE  /\ OptimalTile(l).l1 \in Tiles /\ OptimalTile(l).l2 \in Tiles
           /\ l.type \in {"FC", "MATMUL"} => TilesFit(l)
<1> DEFINE l1 == L1Tile(l)
           l2 == L2Tile(l, l1)
           one == [l EXCEPT !.ops = 1]
           inner == Sum3(TrafficForTile(one, l1))
           outer == Sum3(TrafficForTile(one, l2))
           ops == l.ops
<1>1. l1 \in (1..l.m) \X (1..l.n)
  BY FoundInL1
<1>2. l1 \in Tiles
  BY <1>1 DEF Tiles, Solid, Sizes
<1>3. OptimalTile(l) = [l1 |-> l1, l2 |-> l2]
  BY DEF OptimalTile
<1> HIDE DEF l1
<1>4. l2 \in Tiles /\ outer <= inner
  BY <1>1, FoundInL2
<1> HIDE DEF l2, inner, outer
<1>5. Sum3(TrafficForTile(l, l1)) = ops * inner /\ Sum3(TrafficForTile(l, l2)) = ops * outer
      /\ Sum3(TrafficForTile(l, l2)) >= ops * (l.m * l.k + l.n * l.k + l.m * l.n)
  BY <1>2, <1>4, TrafficOfOne DEF inner, outer
<1>6. ops * outer <= ops * inner
  <2>1. Solid(one)
    BY DEF Solid, Sizes
  <2> HIDE DEF one
  <2>2. inner \in Nat /\ outer \in Nat
    BY <1>2, <1>4, <2>1, TrafficIsSize DEF inner, outer, Sizes
  <2>3. ops \in Nat
    BY DEF Solid, Sizes
  <2> HIDE DEF ops
  <2> QED
    BY <1>4, <2>2, <2>3
<1>7. ASSUME l.type \in {"FC", "MATMUL"} PROVE TilesFit(l)
  <2>1. /\ Traffic(l, OptimalTile(l)).off = Sum3(TrafficForTile(l, l2))
        /\ Traffic(l, OptimalTile(l)).l2 = Sum3(TrafficForTile(l, l1))
    BY <1>3, <1>7 DEF Traffic
  <2> QED
    BY <1>5, <1>6, <2>1 DEF TilesFit
<1> QED
  BY <1>2, <1>3, <1>4, <1>7

(***************************************************************************)
(* What the formulas of the devices answer.                                *)
(***************************************************************************)

(* A layer of a run, and what it is by its name. *)
Priceable(l) ==
    /\ Solid(l) /\ {"name", "type", "pim"} \subseteq DOMAIN l
    /\ l.type \in LayerTypes /\ l.pim \in Nat
    /\ l.name = "norm2" => l.type = "NORM"

LEMMA ProductOfNaturals == \A a, b \in Nat : a * b \in Nat
OBVIOUS

LEMMA QuotientNatural == \A a \in Nat : \A b \in Nat \ {0} : a \div b \in Nat
OBVIOUS

LEMMA AmountsAreNumbers ==
    ASSUME NEW l, Priceable(l), NEW tile, tile.l1 \in Tiles, tile.l2 \in Tiles
    PROVE  /\ Flops(l) \in Nat /\ Flops(l) \div 2 \in Nat
           /\ Moved(l) \in Nat
           /\ Traffic(l, tile).off \in Nat /\ Traffic(l, tile).l2 \in Nat
           /\ Traffic(l, tile).l1 \in Nat /\ Traffic(l, tile).reg \in Nat
<1> DEFINE m == l.m n == l.n k == l.k ops == l.ops
<1>1. m \in Nat /\ n \in Nat /\ k \in Nat /\ ops \in Nat
  BY DEF Priceable, Solid, Sizes
<1>2. /\ m * n * ops \in Nat /\ ops * m * n \in Nat /\ m * n * k \in Nat
      /\ ops * m * k \in Nat /\ ops * n * k \in Nat
  <2> HIDE DEF m, n, k, ops
  <2>1. m * n \in Nat /\ ops * m \in Nat /\ ops * n \in Nat
    BY <1>1, ProductOfNaturals
  <2> QED
    BY <1>1, <2>1, ProductOfNaturals
<1>3. Flops(l) \in Nat
  <2> DEFINE elements == m * n * ops
  <2>1. elements \in Nat /\ k \in Nat
    BY <1>1, <1>2
  <2>2. Flops(l) = CASE l.type \in {"SOFTMAX", "NORM"}   -> 5 * elements
                     [] l.type \in {"FC", "MATMUL"}      -> 2 * elements * k
                     [] l.type \in {"G2G", "X2G"}        -> 0
                     [] l.type = "ACT" /\ l.name = "glu" -> 9 * elements
                     [] l.type = "ACT" /\ l.name \in {"relu", "vit_relu"} -> elements
                     [] OTHER -> 8 * elements
    BY Zenon DEF Flops
  <2> HIDE DEF elements, k
  <2>3. 5 * elements \in Nat /\ 2 * elements * k \in Nat /\ 9 * elements \in Nat
        /\ 8 * elements \in Nat
    BY <2>1
  <2>4. l.type \in LayerTypes
    BY DEF Priceable
  <2> QED
    BY <2>1, <2>2, <2>3, <2>4 DEF LayerTypes
<1>4. Flops(l) \div 2 \in Nat
  BY <1>3, QuotientNatural
<1>5. Moved(l) \in Nat
  BY <1>2 DEF Moved
<1>6. CASE l.type \in {"FC", "MATMUL"}
  <2>1. Solid(l) /\ <<16, 16>> \in Tiles
    BY DEF Priceable, Tiles, Sizes
  <2>2. /\ Sum3(TrafficForTile(l, tile.l2)) \in Nat /\ Sum3(TrafficForTile(l, tile.l1)) \in Nat
        /\ Sum3(TrafficForTile(l, <<16, 16>>)) \in Nat
    BY <2>1, TrafficIsSize DEF Sizes
  <2>3. 3 * l.m * l.n * l.k \in Nat
    <3>1. 3 * m * n * k = 3 * (m * n * k)
      <4> HIDE DEF m, n, k
      <4> QED
        BY <1>1
    <3> QED
      BY <1>2, <3>1
  <2> QED
    BY <1>3, <1>4, <1>5, <1>6, <2>2, <2>3 DEF Traffic
<1>7. CASE l.type \notin {"FC", "MATMUL"}
  <2>1. Sum3(Size(l)) \in Nat
    <3> DEFINE mn == ops * m * n a == ops * m * k b == ops * n * k
    <3>1. mn \in Nat /\ a \in Nat /\ b \in Nat
      BY <1>2
    <3>2. Size(l) = CASE l.type \in {"FC", "MATMUL"}       -> <<a, b, mn>>
                      [] l.type = "NORM" \/ l.name = "glu" -> <<mn, mn, mn>>
                      [] OTHER                             -> <<mn, 0, mn>>
      BY Zenon DEF Size
    <3> HIDE DEF mn, a, b
    <3>3. Size(l) \in Nat \X Nat \X Nat
      BY <1>7, <3>1, <3>2
    <3> QED
      BY <3>3 DEF Sum3
  <2> QED
    BY <1>3, <1>4, <1>5, <1>7, <2>1 DEF Traffic
<1> QED
  BY <1>6, <1>7

LEMMA RatesArePositive ==
    /\ PeakFlops \in Nat \ {0} /\ OffBandwidth \in Nat \ {0} /\ L2Bandwidth \in Nat \ {0}
    /\ LinkBandwidth \in Nat \ {0} /\ Unit \in Nat
    /\ Pj["mem"] \in Nat /\ Pj["l2"] \in Nat /\ Pj["l1"] \in Nat /\ Pj["reg"] \in Nat
    /\ Pj["alu"] \in Nat /\ Pj["comm"] \in Nat
<1>1. {PeakFlops, OffBandwidth, L2Bandwidth, LinkBandwidth, Unit} \subseteq Nat \ {0}
      /\ Pj \in [{"mem", "l2", "l1", "reg", "alu", "comm"} -> Nat]
  BY DevicesAssumption
<1> QED
  BY <1>1

LEMMA StretchedIsNumber ==
    ASSUME NEW device, NEW l, Solid(l), NEW tile, tile.l1 \in Tiles, NEW time0 \in Nat
    PROVE  Stretched(device, l, tile, time0) \in Nat
<1> DEFINE slots == Slots(l, tile.l1) blocks == ThreadBlocks(l, tile.l1)
<1>1. slots \in Nat /\ blocks \in Nat \ {0}
  BY BlocksAreSizes DEF Sizes
<1>2. Stretched(device, l, tile, time0)
        = IF device = "gpu" THEN (time0 * slots) \div blocks ELSE time0
  BY Zenon DEF Stretched
<1> HIDE DEF slots, blocks
<1>3. time0 * slots \in Nat
  BY <1>1
<1>4. (time0 * slots) \div blocks \in Nat
  BY <1>1, <1>3, QuotientNatural
<1> QED
  BY <1>2, <1>4

LEMMA TransferAnswers ==
    ASSUME NEW elements \in Nat, NEW rounds \in Nat, NEW e \in Nat
    PROVE  /\ Transfer(elements, rounds, e) \in Answers
           /\ \A unit \in 1..5 : Transfer(elements, rounds, e).energy[unit] = 0
<1> DEFINE unit0 == Unit link == LinkBandwidth
           trip == (2 * unit0 * elements) \div link
           spent == <<0, 0, 0, 0, 0, e>>
<1>1. unit0 \in Nat /\ link \in Nat \ {0}
  BY RatesArePositive
<1> HIDE DEF unit0, link
<1>2. 2 * unit0 * elements \in Nat
  BY <1>1
<1>3. trip \in Nat
  BY <1>1, <1>2, QuotientNatural
<1>4. spent \in [1..6 -> Nat] /\ \A u \in 1..5 : spent[u] = 0
  OBVIOUS
<1>5. Transfer(elements, rounds, e) = [time |-> trip * rounds, bound |-> "link", energy |-> spent]
  BY Zenon DEF Transfer, unit0, link
<1> HIDE DEF trip, spent
<1>6. trip * rounds \in Nat
  BY <1>3
<1> QED
  BY <1>4, <1>5, <1>6 DEF Answers

(* An answer in numbers, that of a transfer without energy but on the link. *)
InNumbers(l, answer) ==
    /\ answer \in Answers
    /\ l.type \in {"X2G", "G2G"} => \A unit \in 1..5 : answer.energy[unit] = 0

LEMMA XpuAnswers ==
    ASSUME NEW l, Priceable(l), NEW device \in {"gpu", "cpu"}, NEW num \in Nat \ {0},
           NEW tile, Memoised(l) => tile.l1 \in Tiles /\ tile.l2 \in Tiles,
           device = "gpu" \/ l.type # "G2G"
    PROVE  InNumbers(l, XpuTimeEnergy(device, l, num, tile))
<1>1. CASE l.type \in {"X2G", "G2G"}
  <2> DEFINE moved == Moved(l) comm == Pj["comm"]
  <2>1. moved \in Nat
    <3>1. l.m \in Sizes /\ l.n \in Sizes /\ l.ops \in Sizes
      BY DEF Priceable, Solid
    <3>2. l.m * l.n * l.ops \in Sizes
      <4>1. l.m * l.n \in Sizes
        BY <3>1, ProductOfSizes
      <4> QED
        BY <3>1, <4>1, ProductOfSizes
    <3> QED
      BY <3>2 DEF Moved, Sizes
  <2>2. comm \in Nat
    BY RatesArePositive
  <2>3. XpuTimeEnergy(device, l, num, tile) =
            CASE device = "cpu" -> Transfer(moved, 1, 0)
              [] device = "gpu" /\ l.type = "X2G" -> Transfer(moved, 1, num * moved * comm)
              [] device = "gpu" /\ l.type = "G2G" ->
                     Transfer(CeilDiv(moved, num), num - 1, num * moved * comm)
    BY <1>1, Zenon DEF XpuTimeEnergy, IoTimeEnergy
  <2> HIDE DEF moved, comm
  <2>4. num * moved * comm \in Nat
    BY <2>1, <2>2
  <2>5. CeilDiv(moved, num) \in Nat /\ num - 1 \in Nat
    <3>1. moved + num - 1 \in Nat /\ num - 1 \in Nat
      BY <2>1
    <3> QED
      BY <3>1, QuotientNatural DEF CeilDiv
  <2>6. \A x, r, e \in Nat : /\ Transfer(x, r, e) \in Answers
                             /\ \A unit \in 1..5 : Transfer(x, r, e).energy[unit] = 0
    BY TransferAnswers
  <2>7. \E x, r, e \in Nat : XpuTimeEnergy(device, l, num, tile) = Transfer(x, r, e)
    <3>1. CASE device = "cpu"
      BY <2>1, <2>3, <3>1
    <3>2. CASE device = "gpu" /\ l.type = "X2G"
      BY <2>1, <2>3, <2>4, <3>2
    <3>3. CASE device = "gpu" /\ l.type = "G2G"
      BY <2>3, <2>4, <2>5, <3>3
    <3> QED
      BY <1>1, <3>1, <3>2, <3>3
  <2>8. PICK x, r, e \in Nat : XpuTimeEnergy(device, l, num, tile) = Transfer(x, r, e)
    BY <2>7
  <2>9. /\ Transfer(x, r, e) \in Answers
        /\ \A unit \in 1..5 : Transfer(x, r, e).energy[unit] = 0
    BY <2>6
  <2> QED
    BY <2>8, <2>9, Zenon DEF InNumbers
<1>2. CASE l.type \notin {"X2G", "G2G"}
  <2> DEFINE data == Traffic(l, tile)
             flops == Flops(l)
             half == flops \div 2
             unit0 == Unit
             compute == ComputeTime(device, l, tile)
             memory == MemTime(device, l, tile)
             spent == XpuEnergy(device, l, tile)
  <2>1. Solid(l) /\ tile.l1 \in Tiles /\ tile.l2 \in Tiles
    BY <1>2 DEF Memoised, Priceable
  <2>2. /\ flops \in Nat /\ half \in Nat /\ data.off \in Nat /\ data.l2 \in Nat
        /\ data.l1 \in Nat /\ data.reg \in Nat
    BY <2>1, AmountsAreNumbers
  <2>3. XpuTimeEnergy(device, l, num, tile)
          = [time |-> Most(compute, memory),
             bound |-> IF compute > memory THEN "compute" ELSE "memory",
             energy |-> [e \in 1..6 |-> num * spent[e]]]
    BY <1>2, Zenon DEF XpuTimeEnergy
  <2> HIDE DEF data, flops
  <2>4. compute \in Nat
    <3>1. (unit0 * flops) \div PeakFlops \in Nat
      <4>1. unit0 \in Nat /\ PeakFlops \in Nat \ {0}
        BY RatesArePositive
      <4> HIDE DEF unit0
      <4>2. unit0 * flops \in Nat
        BY <2>2, <4>1
      <4> QED
        BY <4>1, <4>2, QuotientNatural
    <3> QED
      BY <2>1, <3>1, StretchedIsNumber DEF ComputeTime, flops
  <2>5. memory \in Nat
    <3> DEFINE off == (unit0 * data.off) \div OffBandwidth
               inner == (unit0 * data.l2) \div L2Bandwidth
    <3>1. off \in Nat /\ inner \in Nat /\ unit0 \in Nat
      <4>1. unit0 \in Nat /\ OffBandwidth \in Nat \ {0} /\ L2Bandwidth \in Nat \ {0}
        BY RatesArePositive
      <4> HIDE DEF unit0
      <4>2. unit0 * data.off \in Nat /\ unit0 * data.l2 \in Nat
        BY <2>2, <4>1
      <4> QED
        BY <4>1, <4>2, QuotientNatural
    <3>2. memory = IF device = "gpu" /\ l.type \in {"ACT", "NORM"} THEN off + unit0
                   ELSE Most(Stretched(device, l, tile, off), inner)
      BY Zenon DEF MemTime, data
    <3> HIDE DEF memory, off, inner, unit0
    <3>3. Stretched(device, l, tile, off) \in Nat
      BY <2>1, <3>1, StretchedIsNumber
    <3> QED
      BY <3>1, <3>2, <3>3 DEF Most
  <2>6. spent \in [1..6 -> Nat]
    <3> DEFINE a == data.off * Pj["mem"] b == data.l2 * Pj["l2"] c == data.l1 * Pj["l1"]
               d == data.reg * Pj["reg"] alu == half * Pj["alu"]
    <3>1. a \in Nat /\ b \in Nat /\ c \in Nat /\ d \in Nat /\ alu \in Nat
      BY <2>2, RatesArePositive, ProductOfNaturals
    <3>2. spent = IF device = "cpu" THEN << a, 0, 0, 0, alu, 0 >> ELSE << a, b, c, d, alu, 0 >>
      BY Zenon DEF XpuEnergy, data, flops
    <3> HIDE DEF spent, a, b, c, d, alu
    <3> QED
      BY <3>1, <3>2
  <2> HIDE DEF compute, memory, spent
  <2>7. Most(compute, memory) \in Nat /\ [e \in 1..6 |-> num * spent[e]] \in [1..6 -> Nat]
    <3>1. \A e \in 1..6 : num * spent[e] \in Nat
      BY <2>6
    <3> QED
      BY <2>4, <2>5, <3>1 DEF Most
  <2> QED
    BY <1>2, <2>3, <2>7 DEF Answers, InNumbers
<1> QED
  BY <1>1, <1>2

LEMMA PimAnswers ==
    ASSUME NEW l, Priceable(l), NEW num \in Nat \ {0}, l.type \in {"MATMUL", "SOFTMAX", "X2G"}
    PROVE  /\ PimTimeEnergy(l, num) \in Answers
           /\ l.type = "X2G" => \A unit \in 1..5 : PimTimeEnergy(l, num).energy[unit] = 0
<1> DEFINE moved == Moved(l) comm == Pj["comm"] mem == Pj["mem"] alu == Pj["alu"]
           n == l.n pim == l.pim half == Flops(l) \div 2 unit0 == Unit
           spent == << num * 2 * n * pim * mem, 0, 0, 0, num * half * alu, 0 >>
<1>1. moved \in Nat /\ half \in Nat
  <2>1. [l1 |-> <<1, 1>>, l2 |-> <<1, 1>>].l1 \in Tiles
        /\ [l1 |-> <<1, 1>>, l2 |-> <<1, 1>>].l2 \in Tiles
    BY DEF Tiles, Sizes
  <2> QED
    BY <2>1, AmountsAreNumbers
<1>2. /\ comm \in Nat /\ mem \in Nat /\ alu \in Nat /\ unit0 \in Nat /\ n \in Nat /\ pim \in Nat
  BY RatesArePositive DEF Priceable, Solid, Sizes
<1>3. PimTimeEnergy(l, num) =
          CASE l.type = "X2G" -> Transfer(moved, 1, num * moved * comm)
            [] l.type = "MATMUL" /\ l.name = "score" ->
                   [time |-> unit0 * n * pim, bound |-> "memory", energy |-> spent]
            [] l.type = "MATMUL" /\ l.name # "score" -> Nothing
            [] l.type = "SOFTMAX" -> Nothing
  BY Zenon DEF PimTimeEnergy
<1> HIDE DEF moved, comm, mem, alu, n, pim, half, unit0
<1>4. num * moved * comm \in Nat /\ unit0 * n * pim \in Nat
      /\ num * 2 * n * pim * mem \in Nat /\ num * half * alu \in Nat
  <2>1. num * moved \in Nat /\ unit0 * n \in Nat /\ num * 2 \in Nat /\ num * half \in Nat
    BY <1>1, <1>2, ProductOfNaturals
  <2>2. num * 2 * n \in Nat
    BY <1>2, <2>1, ProductOfNaturals
  <2>3. num * 2 * n * pim \in Nat
    BY <1>2, <2>2, ProductOfNaturals
  <2> QED
    BY <1>1, <1>2, <2>1, <2>3, ProductOfNaturals
<1>5. spent \in [1..6 -> Nat]
  BY <1>4
<1>6. Nothing \in Answers
  <2>1. <<0, 0, 0, 0, 0, 0>> \in [1..6 -> Nat]
    OBVIOUS
  <2> QED
    BY <2>1 DEF Nothing, Answers
<1> HIDE DEF spent
<1>7. CASE l.type = "X2G"
  <2> DEFINE e == num * moved * comm
  <2>1. e \in Nat /\ PimTimeEnergy(l, num) = Transfer(moved, 1, e)
    BY <1>3, <1>4, <1>7
  <2> HIDE DEF e
  <2>2. /\ Transfer(moved, 1, e) \in Answers
        /\ \A unit \in 1..5 : Transfer(moved, 1, e).energy[unit] = 0
    <3>1. \A x, r, w \in Nat : /\ Transfer(x, r, w) \in Answers
                               /\ \A unit \in 1..5 : Transfer(x, r, w).energy[unit] = 0
      BY TransferAnswers
    <3>2. 1 \in Nat
      OBVIOUS
    <3> QED
      BY <1>1, <2>1, <3>1, <3>2, Zenon
  <2> QED
    BY <2>1, <2>2, Zenon
<1>8. CASE l.type = "MATMUL" /\ l.name = "score"
  BY <1>3, <1>4, <1>5, <1>8 DEF Answers
<1>9. CASE l.type = "SOFTMAX" \/ (l.type = "MATMUL" /\ l.name # "score")
  BY <1>3, <1>6, <1>9
<1> QED
  BY <1>7, <1>8, <1>9

(* Layers that differ in their name have the same tiles. *)
LEMMA TilesOfRenamed ==
    ASSUME NEW l, Priceable(l), NEW name
    PROVE  LET renamed == [l EXCEPT !.name = name] IN
           /\ OptimalTile(renamed) = OptimalTile(l)
           /\ \A t : TrafficForTile(renamed, t) = TrafficForTile(l, t)
           /\ \A t : ThreadBlocks(renamed, t) = ThreadBlocks(l, t)
           /\ \A t : Slots(renamed, t) = Slots(l, t)
<1> DEFINE r == [l EXCEPT !.name = name]
           Clipped == {<<Least(a, l.m), Least(b, l.n)>> : a, b \in TileSizes}
           Within(t) == (t[1] + t[2]) * 32 + t[1] * t[2] <= L1Capacity
           T == {t \in Clipped : Within(t)}
           Best(x) == {a \in T : \A b \in T : ~L1Cheaper(x, b, a)}
<1>1. r.m = l.m /\ r.n = l.n /\ r.k = l.k /\ r.ops = l.ops /\ r.type = l.type
  BY DEF Priceable, Solid
<1>2. [r EXCEPT !.ops = 1] = [[l EXCEPT !.ops = 1] EXCEPT !.name = name]
  BY DEF Priceable, Solid
<1>3. \A t : TrafficForTile([r EXCEPT !.ops = 1], t) = TrafficForTile([l EXCEPT !.ops = 1], t)
  <2> DEFINE a == [r EXCEPT !.ops = 1] b == [l EXCEPT !.ops = 1]
  <2>1. a.m = b.m /\ a.n = b.n /\ a.k = b.k /\ a.ops = b.ops
    BY <1>1 DEF Priceable, Solid
  <2> HIDE DEF a, b
  <2>2. \A t : TrafficForTile(a, t) = TrafficForTile(b, t)
    BY <2>1, Zenon DEF TrafficForTile
  <2> QED
    BY <2>2 DEF a, b
<1> HIDE DEF r
<1>4. \A t : TrafficForTile(r, t) = TrafficForTile(l, t)
  BY <1>1, Zenon DEF TrafficForTile
<1>5. \A t : ThreadBlocks(r, t) = ThreadBlocks(l, t)
  BY <1>1, Zenon DEF ThreadBlocks
<1>6. \A t : Slots(r, t) = Slots(l, t)
  BY <1>5, Zenon DEF Slots
<1>7. \A a, b : L1Cheaper(r, a, b) = L1Cheaper(l, a, b)
  <2> SUFFICES ASSUME NEW a, NEW b PROVE L1Cheaper(r, a, b) = L1Cheaper(l, a, b)
    OBVIOUS
  <2>1. /\ TrafficForTile(r, a) = TrafficForTile(l, a) /\ TrafficForTile(r, b) = TrafficForTile(l, b)
        /\ ThreadBlocks(r, a) = ThreadBlocks(l, a) /\ ThreadBlocks(r, b) = ThreadBlocks(l, b)
        /\ Slots(r, a) = Slots(l, a) /\ Slots(r, b) = Slots(l, b)
    BY <1>4, <1>5, <1>6
  <2> QED
    BY <2>1, Zenon DEF L1Cheaper
<1>8. L1Tile(r) = L1Tile(l)
  <2>1. L1Tile(l) = FirstBest(T, LAMBDA a, b : L1Cheaper(l, a, b))
    BY DEF L1Tile
  <2>2. L1Tile(r) = FirstBest(T, LAMBDA a, b : L1Cheaper(r, a, b))
    BY <1>1 DEF L1Tile
  <2> HIDE DEF T
  <2>3. L1Tile(l) = CHOOSE a \in Best(l) : \A b \in Best(l) \ {a} : Lexicographic(a, b)
    BY <2>1, Zenon DEF FirstBest
  <2>4. L1Tile(r) = CHOOSE a \in Best(r) : \A b \in Best(r) \ {a} : Lexicographic(a, b)
    BY <2>2, Zenon DEF FirstBest
  <2>5. Best(r) = Best(l)
    BY <1>7
  <2> HIDE DEF Best
  <2> QED
    BY <2>3, <2>4, <2>5
<1>9. ASSUME NEW l1 PROVE L2Tile(r, l1) = L2Tile(l, l1)
  <2> DEFINE Multiples(size, step) == {step * i : i \in 1..(size \div step)} \cup {size}
             Inside(t) == (t[1] + t[2]) * l.k + 64 * t[1] * t[2] <= 64 * L2Capacity
             U == {t \in Multiples(l.m, l1[1]) \X Multiples(l.n, l1[2]) : t = l1 \/ Inside(t)}
             Access(x, t) == Sum3(TrafficForTile([x EXCEPT !.ops = 1], t))
             Cheap(x) == {a \in U : \A b \in U : ~(Access(x, b) < Access(x, a))}
  <2>1. L2Tile(l, l1) = FirstBest(U, LAMBDA a, b : Access(l, a) < Access(l, b))
    BY DEF L2Tile
  <2>2. L2Tile(r, l1) = FirstBest(U, LAMBDA a, b : Access(r, a) < Access(r, b))
    BY <1>1 DEF L2Tile
  <2> HIDE DEF U
  <2>3. L2Tile(l, l1) = CHOOSE a \in Cheap(l) : \A b \in Cheap(l) \ {a} : Lexicographic(a, b)
    BY <2>1, Zenon DEF FirstBest
  <2>4. L2Tile(r, l1) = CHOOSE a \in Cheap(r) : \A b \in Cheap(r) \ {a} : Lexicographic(a, b)
    BY <2>2, Zenon DEF FirstBest
  <2>5. \A t : Access(r, t) = Access(l, t)
    BY <1>3, Zenon
  <2> HIDE DEF Access
  <2>6. Cheap(r) = Cheap(l)
    BY <2>5
  <2> HIDE DEF Cheap
  <2> QED
    BY <2>3, <2>4, <2>6
<1>10. OptimalTile(r) = OptimalTile(l)
  BY <1>8, <1>9, Zenon DEF OptimalTile
<1> QED
  BY <1>4, <1>5, <1>6, <1>10, Zenon DEF r

LEMMA NormsCostTheSame ==
    ASSUME NEW l, Priceable(l), l.type = "NORM", NEW num \in Nat \ {0}
    PROVE  Answer("gpu", num, [l EXCEPT !.name = "norm1"]) = Answer("gpu", num, l)
<1> DEFINE r == [l EXCEPT !.name = "norm1"]
           t == OptimalTile(l)
<1>1. /\ OptimalTile(r) = t
      /\ \A u : Slots(r, u) = Slots(l, u) /\ ThreadBlocks(r, u) = ThreadBlocks(l, u)
  BY TilesOfRenamed, Zenon
<1>2. r.m = l.m /\ r.n = l.n /\ r.k = l.k /\ r.ops = l.ops /\ r.type = l.type
  BY DEF Priceable, Solid
<1> HIDE DEF r, t
<1>3. Flops(r) = Flops(l) /\ Size(r) = Size(l)
  <2>1. Flops(l) = 5 * (l.m * l.n * l.ops) /\ Flops(r) = 5 * (r.m * r.n * r.ops)
    BY <1>2 DEF Flops
  <2>2. /\ Size(l) = <<l.ops * l.m * l.n, l.ops * l.m * l.n, l.ops * l.m * l.n>>
        /\ Size(r) = <<r.ops * r.m * r.n, r.ops * r.m * r.n, r.ops * r.m * r.n>>
    BY <1>2 DEF Size
  <2> QED
    BY <1>2, <2>1, <2>2, Zenon
<1>4. Traffic(r, t) = Traffic(l, t)
  BY <1>2, <1>3 DEF Traffic
<1>5. \A time0 : Stretched("gpu", r, t, time0) = Stretched("gpu", l, t, time0)
  BY <1>1, Zenon DEF Stretched
<1>6. ComputeTime("gpu", r, t) = ComputeTime("gpu", l, t)
  BY <1>3, <1>5, Zenon DEF ComputeTime
<1>7. MemTime("gpu", r, t) = MemTime("gpu", l, t)
  BY <1>2, <1>4, <1>5, Zenon DEF MemTime
<1>8. XpuEnergy("gpu", r, t) = XpuEnergy("gpu", l, t)
  BY <1>3, <1>4, Zenon DEF XpuEnergy
<1>9. XpuTimeEnergy("gpu", r, num, t) = XpuTimeEnergy("gpu", l, num, t)
  <2>1. l.type \notin {"X2G", "G2G"} /\ r.type \notin {"X2G", "G2G"}
    BY <1>2
  <2> QED
    BY <1>6, <1>7, <1>8, <2>1, Zenon DEF XpuTimeEnergy
<1>10. Answer("gpu", num, l) = XpuTimeEnergy("gpu", l, num, t)
  BY DEF Answer, Memoised, t
<1>11. Answer("gpu", num, r) = XpuTimeEnergy("gpu", r, num, t)
  BY <1>1, <1>2 DEF Answer, Memoised
<1> QED
  BY <1>9, <1>10, <1>11 DEF r

(* A device answers well for the layers it is asked. *)
LEMMA DeviceAnswersWell ==
    ASSUME NEW l, Priceable(l), NEW device \in {"gpu", "cpu", "pim"}, NEW num \in Nat \ {0},
           device = "gpu" \/ l.type \in {"MATMUL", "SOFTMAX", "X2G"}
    PROVE  WellAnswered(l, Answer(device, num, l), Answer(device, num, [l EXCEPT !.name = "norm1"]))
<1>1. l.name = "norm2" =>
        Answer(device, num, l) = Answer(device, num, [l EXCEPT !.name = "norm1"])
  <2> SUFFICES ASSUME l.name = "norm2"
               PROVE  Answer(device, num, l) = Answer(device, num, [l EXCEPT !.name = "norm1"])
    OBVIOUS
  <2>1. l.type = "NORM" /\ device = "gpu"
    BY DEF Priceable
  <2>2. Answer("gpu", num, [l EXCEPT !.name = "norm1"]) = Answer("gpu", num, l)
    BY <2>1, NormsCostTheSame
  <2> QED
    BY <2>1, <2>2, Zenon
<1>2. CASE device = "pim"
  <2>1. /\ PimTimeEnergy(l, num) \in Answers
        /\ l.type = "X2G" => \A unit \in 1..5 : PimTimeEnergy(l, num).energy[unit] = 0
    BY <1>2, PimAnswers
  <2>2. Answer(device, num, l) = PimTimeEnergy(l, num) /\ l.type # "G2G"
    BY <1>2 DEF Answer
  <2>3. l.type \in {"X2G", "G2G"} => l.type = "X2G"
    BY <2>2
  <2> QED
    BY <1>1, <2>1, <2>2, <2>3, Zenon DEF WellAnswered
<1>3. CASE device # "pim"
  <2> DEFINE tile == IF Memoised(l) THEN OptimalTile(l) ELSE [l1 |-> <<1, 1>>, l2 |-> <<1, 1>>]
  <2>1. Memoised(l) => tile.l1 \in Tiles /\ tile.l2 \in Tiles
    BY TilesOfSolid DEF Priceable
  <2>2. Answer(device, num, l) = XpuTimeEnergy(device, l, num, tile)
    BY <1>3 DEF Answer
  <2>3. device \in {"gpu", "cpu"} /\ (device = "gpu" \/ l.type # "G2G")
    BY <1>3
  <2> HIDE DEF tile
  <2>4. InNumbers(l, XpuTimeEnergy(device, l, num, tile))
    BY <2>1, <2>3, XpuAnswers
  <2> QED
    BY <1>1, <2>2, <2>4, Zenon DEF WellAnswered, InNumbers
<1> QED
  BY <1>2, <1>3

(***************************************************************************)
(* The layers of a run.                                                    *)
(***************************************************************************)
VisionNames == {"vit_qkv", "vit_score", "vit_softmax", "vit_context", "vit_proj", "vit_norm1",
                "vit_ff1", "vit_gelu", "vit_silu", "vit_relu", "vit_ff2", "vit_norm2",
                "proj_fc1", "proj_act", "proj_fc2", "vit_broadcast"}
Records == [name : Names \cup VisionNames, type : LayerTypes, m : Sizes, n : Sizes, k : Sizes, ops : Sizes,
            pim : Sizes]
PricedLayers == {l \in Records : l.name = "norm2" => l.type = "NORM"}

LEMMA PricedArePriceable ==
    ASSUME NEW l \in PricedLayers
    PROVE  Priceable(l)
<1>1. l \in Records /\ (l.name = "norm2" => l.type = "NORM")
  BY DEF PricedLayers
<1>2. DOMAIN l = {"name", "type", "m", "n", "k", "ops", "pim"}
      /\ l.type \in LayerTypes /\ l.pim \in Sizes
      /\ l.m \in Sizes /\ l.n \in Sizes /\ l.k \in Sizes /\ l.ops \in Sizes
  BY <1>1 DEF Records
<1> QED
  BY <1>1, <1>2 DEF Priceable, Solid, Sizes

Known(name, type) ==
    /\ name \in Names \cup VisionNames /\ type \in LayerTypes
    /\ name = "norm2" => type = "NORM"

LEMMA LayerIsPriced ==
    ASSUME NEW name, NEW type, Known(name, type), NEW m \in Sizes, NEW n \in Sizes, NEW k \in Sizes, NEW ops \in Sizes
    PROVE  /\ Layer(name, type, m, n, k, ops) \in PricedLayers
           /\ \A pim \in Sizes : [Layer(name, type, m, n, k, ops) EXCEPT !.pim = pim] \in PricedLayers
BY DEF PricedLayers, Records, Layer, Known

LEMMA ShareIsSize ==
    ASSUME NEW a \in Nat \ {0}, NEW d \in Nat \ {0}, a % d = 0
    PROVE  a \div d \in Sizes
<1> DEFINE q == a \div d
<1>1. q \in Nat /\ a = (d * q) + (a % d)
  OBVIOUS
<1> HIDE DEF q
<1>2. q = 0 => a = 0
  BY <1>1
<1> QED
  BY <1>1, <1>2 DEF Sizes, q

(* The sizes of a model of which every shard has some. *)
LEMMA SharesAreSizes ==
    ASSUME NEW t, Sized(t), Splits(t)
    PROVE  /\ {QkvOut(t) \div t.fc_tp, QOut(t) \div t.fc_tp, KvOut(t) \div t.fc_tp,
               t.info.hdim \div t.fc_tp, t.info.ff \div t.fc_tp} \subseteq Sizes
           /\ {t.info.q \div t.attn_tp, t.info.kv \div t.attn_tp, QOut(t) \div t.attn_tp}
                \subseteq Sizes
           /\ {t.info.hdim, t.info.dhead} \subseteq Sizes
<1>1. /\ {t.fc_tp, t.attn_tp, t.info.hdim, t.info.dhead, t.info.ff, t.info.q, t.info.kv}
           \subseteq Nat \ {0}
      /\ {QOut(t), KvOut(t), QkvOut(t)} \subseteq Nat \ {0}
  BY SizesAreNumbers DEF Sized
<1>2. \A a \in {QkvOut(t), QOut(t), KvOut(t), t.info.hdim, t.info.ff} : a \div t.fc_tp \in Sizes
  <2> TAKE a \in {QkvOut(t), QOut(t), KvOut(t), t.info.hdim, t.info.ff}
  <2>1. a % t.fc_tp = 0 /\ a \in Nat \ {0} /\ t.fc_tp \in Nat \ {0}
    BY <1>1 DEF Splits
  <2> QED
    BY <2>1, ShareIsSize
<1>3. \A a \in {t.info.q, t.info.kv, QOut(t)} : a \div t.attn_tp \in Sizes
  <2> TAKE a \in {t.info.q, t.info.kv, QOut(t)}
  <2>1. a % t.attn_tp = 0 /\ a \in Nat \ {0} /\ t.attn_tp \in Nat \ {0}
    BY <1>1 DEF Splits
  <2> QED
    BY <2>1, ShareIsSize
<1> QED
  BY <1>1, <1>2, <1>3 DEF Sizes

(* The parts of a decoder layer are of a set P of layers, and so is the layer. *)
PartsOf(P, t, tokens, batch, queries, keys) ==
    /\ Qkv(t, tokens) \in P
    /\ Attention(t, batch, queries, keys) \in Seq(P)
    /\ AfterAttention(t, tokens) \in Seq(P)
    /\ Return(t, tokens) \in P
    /\ Move("comm_x2g_kv", tokens, 2 * (KvOut(t) \div t.fc_tp)) \in P
    /\ Move("comm_x2g_q", tokens, QOut(t) \div t.fc_tp) \in P
    /\ Move("comm_x2g_qkv", tokens, QkvOut(t) \div t.fc_tp) \in P
    /\ Layer("deepstack_add", "ACT", tokens, t.info.hdim, 1, 1) \in P

LEMMA DecoderIsPriced ==
    ASSUME NEW t, Sized(t), Splits(t), NEW batch \in Sizes, NEW queries \in Sizes,
           NEW keys \in Sizes, NEW tokens \in Sizes
    PROVE  PartsOf(PricedLayers, t, tokens, batch, queries, keys)
<1> DEFINE hdim == t.info.hdim dhead == t.info.dhead
           qkv == QkvOut(t) \div t.fc_tp qOut == QOut(t) \div t.fc_tp
           kvOut == KvOut(t) \div t.fc_tp width == hdim \div t.fc_tp
           ff == t.info.ff \div t.fc_tp back == QOut(t) \div t.attn_tp
           q == t.info.q \div t.attn_tp kv == t.info.kv \div t.attn_tp
           heads == batch * q onPim == batch * kv
<1>1. /\ hdim \in Sizes /\ dhead \in Sizes /\ qkv \in Sizes /\ qOut \in Sizes /\ kvOut \in Sizes
      /\ width \in Sizes /\ ff \in Sizes /\ back \in Sizes /\ q \in Sizes /\ kv \in Sizes
  BY SharesAreSizes
<1>2. heads \in Sizes /\ onPim \in Sizes /\ 2 * kvOut \in Sizes /\ 1 \in Sizes
  <2> HIDE DEF q, kv, kvOut
  <2>1. 2 \in Sizes /\ 1 \in Sizes
    BY DEF Sizes
  <2> QED
    BY <1>1, <2>1, ProductOfSizes
<1>3. \A m, n, k, ops \in Sizes : \A name, type :
          Known(name, type) =>
            /\ Layer(name, type, m, n, k, ops) \in PricedLayers
            /\ \A pim \in Sizes :
                   [Layer(name, type, m, n, k, ops) EXCEPT !.pim = pim] \in PricedLayers
  BY LayerIsPriced
<1>4. /\ Known("qkv", "FC") /\ Known("proj", "FC") /\ Known("ff1", "FC") /\ Known("ff2", "FC")
      /\ Known("ff3", "FC") /\ Known("score", "MATMUL") /\ Known("softmax", "SOFTMAX")
      /\ Known("context", "MATMUL") /\ Known("glu", "ACT") /\ Known("gelu", "ACT")
      /\ Known("deepstack_add", "ACT") /\ Known("norm1", "NORM") /\ Known("norm2", "NORM")
      /\ Known("comm_g2g", "G2G") /\ Known("comm_x2g_kv", "X2G") /\ Known("comm_x2g_q", "X2G")
      /\ Known("comm_x2g_qkv", "X2G") /\ Known("comm_x2g_return", "X2G")
  BY DEF Known, Names, LayerTypes
<1>5. Attention(t, batch, queries, keys) =
        << [Layer("score", "MATMUL", queries, keys, dhead, heads) EXCEPT !.pim = onPim],
           [Layer("softmax", "SOFTMAX", queries, keys, 1, heads) EXCEPT !.pim = onPim],
           [Layer("context", "MATMUL", queries, dhead, keys, heads) EXCEPT !.pim = onPim] >>
  BY Zenon DEF Attention
<1>6. AfterAttention(t, tokens) =
        << Layer("proj", "FC", tokens, hdim, width, 1), Layer("comm_g2g", "G2G", tokens, hdim, 1, 1),
           Layer("norm1", "NORM", tokens, hdim, 1, 1) >>
          \o FeedForwardLayers(t, tokens)
          \o << Layer("comm_g2g", "G2G", tokens, hdim, 1, 1),
                Layer("norm2", "NORM", tokens, hdim, 1, 1) >>
  BY Zenon DEF AfterAttention
<1>7. FeedForwardLayers(t, tokens) =
        IF t.info.gated
        THEN << Layer("ff1", "FC", tokens, ff, hdim, 1), Layer("ff2", "FC", tokens, ff, hdim, 1),
                Layer("glu", "ACT", tokens, ff, 1, 1), Layer("ff3", "FC", tokens, hdim, ff, 1) >>
        ELSE << Layer("ff1", "FC", tokens, ff, hdim, 1), Layer("gelu", "ACT", tokens, ff, 1, 1),
                Layer("ff2", "FC", tokens, hdim, ff, 1) >>
  BY Zenon DEF FeedForwardLayers
<1> HIDE DEF hdim, dhead, qkv, qOut, kvOut, width, ff, back, q, kv, heads, onPim
<1>8. Attention(t, batch, queries, keys) \in Seq(PricedLayers)
  <2>1. /\ [Layer("score", "MATMUL", queries, keys, dhead, heads) EXCEPT !.pim = onPim]
               \in PricedLayers
        /\ [Layer("softmax", "SOFTMAX", queries, keys, 1, heads) EXCEPT !.pim = onPim]
               \in PricedLayers
        /\ [Layer("context", "MATMUL", queries, dhead, keys, heads) EXCEPT !.pim = onPim]
               \in PricedLayers
    BY <1>1, <1>2, <1>3, <1>4
  <2> QED
    BY <1>5, <2>1
<1>9. FeedForwardLayers(t, tokens) \in Seq(PricedLayers)
  <2>1. /\ Layer("ff1", "FC", tokens, ff, hdim, 1) \in PricedLayers
        /\ Layer("ff2", "FC", tokens, ff, hdim, 1) \in PricedLayers
        /\ Layer("glu", "ACT", tokens, ff, 1, 1) \in PricedLayers
        /\ Layer("gelu", "ACT", tokens, ff, 1, 1) \in PricedLayers
    BY <1>1, <1>2, <1>3, <1>4
  <2>2. /\ Layer("ff3", "FC", tokens, hdim, ff, 1) \in PricedLayers
        /\ Layer("ff2", "FC", tokens, hdim, ff, 1) \in PricedLayers
    BY <1>1, <1>2, <1>3, <1>4
  <2> QED
    BY <1>7, <2>1, <2>2
<1>10. AfterAttention(t, tokens) \in Seq(PricedLayers)
  <2>1. /\ Layer("proj", "FC", tokens, hdim, width, 1) \in PricedLayers
        /\ Layer("comm_g2g", "G2G", tokens, hdim, 1, 1) \in PricedLayers
    BY <1>1, <1>2, <1>3, <1>4
  <2>2. /\ Layer("norm1", "NORM", tokens, hdim, 1, 1) \in PricedLayers
        /\ Layer("norm2", "NORM", tokens, hdim, 1, 1) \in PricedLayers
    BY <1>1, <1>2, <1>3, <1>4
  <2>3. << Layer("proj", "FC", tokens, hdim, width, 1),
           Layer("comm_g2g", "G2G", tokens, hdim, 1, 1),
           Layer("norm1", "NORM", tokens, hdim, 1, 1) >> \in Seq(PricedLayers)
    BY <2>1, <2>2
  <2>4. << Layer("comm_g2g", "G2G", tokens, hdim, 1, 1),
           Layer("norm2", "NORM", tokens, hdim, 1, 1) >> \in Seq(PricedLayers)
    BY <2>1, <2>2
  <2> QED
    BY <1>6, <1>9, <2>3, <2>4
<1>11. /\ Qkv(t, tokens) \in PricedLayers /\ Return(t, tokens) \in PricedLayers
       /\ Layer("deepstack_add", "ACT", tokens, t.info.hdim, 1, 1) \in PricedLayers
  <2>1. /\ Layer("qkv", "FC", tokens, qkv, hdim, 1) \in PricedLayers
        /\ Layer("comm_x2g_return", "X2G", tokens, back, 1, 1) \in PricedLayers
        /\ Layer("deepstack_add", "ACT", tokens, hdim, 1, 1) \in PricedLayers
    BY <1>1, <1>2, <1>3, <1>4
  <2> QED
    BY <2>1, Zenon DEF Qkv, Return, Move, qkv, hdim, back
<1>12. /\ Move("comm_x2g_kv", tokens, 2 * (KvOut(t) \div t.fc_tp)) \in PricedLayers
       /\ Move("comm_x2g_q", tokens, QOut(t) \div t.fc_tp) \in PricedLayers
       /\ Move("comm_x2g_qkv", tokens, QkvOut(t) \div t.fc_tp) \in PricedLayers
  <2>1. /\ Layer("comm_x2g_kv", "X2G", tokens, 2 * kvOut, 1, 1) \in PricedLayers
        /\ Layer("comm_x2g_q", "X2G", tokens, qOut, 1, 1) \in PricedLayers
        /\ Layer("comm_x2g_qkv", "X2G", tokens, qkv, 1, 1) \in PricedLayers
    BY <1>1, <1>2, <1>3, <1>4
  <2> QED
    BY <2>1, Zenon DEF Move, qkv, qOut, kvOut
<1> QED
  BY <1>8, <1>10, <1>11, <1>12 DEF PartsOf

LEMMA BlocksOfParts ==
    ASSUME NEW P, NEW t, NEW batch, NEW lin, NEW hetero \in BOOLEAN,
           PartsOf(P, t, batch * lin, batch, lin, lin),
           \A s \in Nat : PartsOf(P, t, batch, batch, 1, lin + s)
    PROVE  /\ \A idx : BuildSum(t, batch, lin, hetero, idx) \in Seq(P)
           /\ \A s \in Nat : BuildGenStage(t, batch, lin, s, hetero) \in Seq(P)
<1>1. \A x \in P : <<x>> \in Seq(P) /\ When(hetero, <<x>>) \in Seq(P)
  BY DEF When
<1>2. \A a, b \in Seq(P) : a \o b \in Seq(P)
  OBVIOUS
<1>3. ASSUME NEW idx PROVE BuildSum(t, batch, lin, hetero, idx) \in Seq(P)
  <2> DEFINE tokens == batch * lin
             a == << Qkv(t, tokens) >>
             kv == Move("comm_x2g_kv", tokens, 2 * (KvOut(t) \div t.fc_tp))
             q == Move("comm_x2g_q", tokens, QOut(t) \div t.fc_tp)
             b == When(hetero, << kv, q >>)
             c == Attention(t, batch, lin, lin)
             add == Layer("deepstack_add", "ACT", tokens, t.info.hdim, 1, 1)
             d == When(idx \cap t.info.deepstack # {}, << add >>)
             e == When(hetero, << Return(t, tokens) >>)
             f == AfterAttention(t, tokens)
  <2>2. BuildSum(t, batch, lin, hetero, idx) = a \o b \o c \o d \o e \o f
    BY Zenon DEF BuildSum
  <2>3. /\ Qkv(t, tokens) \in P /\ c \in Seq(P) /\ f \in Seq(P) /\ Return(t, tokens) \in P
        /\ kv \in P /\ q \in P /\ add \in P
    BY DEF PartsOf
  <2> HIDE DEF kv, q, add, c, f
  <2>4. a \in Seq(P) /\ e \in Seq(P)
    BY <1>1, <2>3
  <2>5. b \in Seq(P)
    BY <2>3, WhenTyped
  <2>6. d \in Seq(P)
    BY <2>3 DEF When
  <2> HIDE DEF a, b, d, e
  <2>7. a \o b \in Seq(P)
    BY <1>2, <2>4, <2>5
  <2>8. a \o b \o c \in Seq(P)
    BY <1>2, <2>3, <2>7
  <2>9. a \o b \o c \o d \in Seq(P)
    BY <1>2, <2>6, <2>8
  <2>10. a \o b \o c \o d \o e \in Seq(P)
    BY <1>2, <2>4, <2>9
  <2>11. a \o b \o c \o d \o e \o f \in Seq(P)
    BY <1>2, <2>3, <2>10
  <2> QED
    BY <2>2, <2>11
<1>4. ASSUME NEW s \in Nat PROVE BuildGenStage(t, batch, lin, s, hetero) \in Seq(P)
  <2> DEFINE keys == lin + s
             a == << Qkv(t, batch) >>
             qkv == Move("comm_x2g_qkv", batch, QkvOut(t) \div t.fc_tp)
             b == When(hetero, << qkv >>)
             c == Attention(t, batch, 1, keys)
             d == When(hetero, << Return(t, batch) >>)
             e == AfterAttention(t, batch)
  <2>2. BuildGenStage(t, batch, lin, s, hetero) = a \o b \o c \o d \o e
    BY Zenon DEF BuildGenStage
  <2>3. /\ Qkv(t, batch) \in P /\ c \in Seq(P) /\ e \in Seq(P) /\ Return(t, batch) \in P
        /\ qkv \in P
    BY DEF PartsOf
  <2> HIDE DEF qkv, c, e
  <2>4. a \in Seq(P) /\ b \in Seq(P) /\ d \in Seq(P)
    BY <1>1, <2>3
  <2> HIDE DEF a, b, d
  <2>5. a \o b \in Seq(P)
    BY <1>2, <2>4
  <2>6. a \o b \o c \in Seq(P)
    BY <1>2, <2>3, <2>5
  <2>7. a \o b \o c \o d \in Seq(P)
    BY <1>2, <2>4, <2>6
  <2>8. a \o b \o c \o d \o e \in Seq(P)
    BY <1>2, <2>3, <2>7
  <2> QED
    BY <2>2, <2>8
<1> QED
  BY <1>3, <1>4

LEMMA BlocksArePriced ==
    ASSUME NEW t, Sized(t), Splits(t), NEW batch \in Sizes, NEW lin \in Sizes,
           NEW hetero \in BOOLEAN
    PROVE  /\ \A idx : BuildSum(t, batch, lin, hetero, idx) \in Seq(PricedLayers)
           /\ \A s \in Nat : BuildGenStage(t, batch, lin, s, hetero) \in Seq(PricedLayers)
<1>1. PartsOf(PricedLayers, t, batch * lin, batch, lin, lin)
  BY ProductOfSizes, DecoderIsPriced
<1>2. \A s \in Nat : PartsOf(PricedLayers, t, batch, batch, 1, lin + s)
  BY DecoderIsPriced DEF Sizes
<1> QED
  BY <1>1, <1>2, BlocksOfParts

(***************************************************************************)
(* The vision tower and its projector.                                     *)
(***************************************************************************)
LEMMA PatchesAreNumbers ==
    ASSUME NEW image, image.patch \in Sizes, NEW size \in Sizes \X Sizes
    PROVE  Patches(image, size) \in Nat
<1> DEFINE across == size[1] \div image.patch down == size[2] \div image.patch
<1>1. size[1] \in Nat /\ size[2] \in Nat /\ image.patch \in Nat \ {0}
  BY DEF Sizes
<1>2. across \in Nat /\ down \in Nat
  BY <1>1, QuotientNatural
<1> HIDE DEF across, down
<1>3. across * down \in Nat
  BY <1>2
<1> QED
  BY <1>3 DEF Patches, across, down

LEMMA EffectiveIsNumber ==
    ASSUME NEW size \in Sizes \X Sizes, NEW resolution \in Sizes \X Sizes
    PROVE  Effective(size, resolution) \in 0..(size[1] * size[2])
<1> DEFINE w == size[1] h == size[2] x == resolution[1] y == resolution[2]
           byWidth == x * h <= y * w
           width == IF byWidth THEN x ELSE (w * y) \div h
           height == IF byWidth THEN (h * x) \div w ELSE y
<1>1. w \in Nat \ {0} /\ h \in Nat \ {0} /\ x \in Nat /\ y \in Nat
  BY DEF Sizes
<1>2. Effective(size, resolution) = Least(width * height, w * h)
  BY Zenon DEF Effective
<1> HIDE DEF w, h, x, y
<1>3. width \in Nat /\ height \in Nat
  <2>1. w * y \in Nat /\ h * x \in Nat
    BY <1>1
  <2>2. (w * y) \div h \in Nat /\ (h * x) \div w \in Nat
    BY <1>1, <2>1, QuotientNatural
  <2> QED
    BY <1>1, <2>2
<1> HIDE DEF width, height
<1>4. width * height \in Nat /\ w * h \in Nat
  BY <1>1, <1>3
<1>5. Least(width * height, w * h) \in 0..(w * h)
  BY <1>4 DEF Least
<1> QED
  BY <1>2, <1>5 DEF w, h

(* The search for a pinpoint ends with one. *)
LEMMA BestIsPinpoint ==
    ASSUME NEW size \in Sizes \X Sizes, NEW pinpoints \in Seq(Sizes \X Sizes), pinpoints # <<>>
    PROVE  BestResolution(size, pinpoints) \in Sizes \X Sizes
<1> DEFINE D == DOMAIN pinpoints
           all == size[1] * size[2]
           Area(i) == pinpoints[i][1] * pinpoints[i][2]
           Kept0(i) == Effective(size, pinpoints[i])
           Beats(i, j) == \/ Kept0(i) > Kept0(j)
                          \/ Kept0(i) = Kept0(j) /\ Area(i) < Area(j)
           Best(i) == \A j \in D : ~Beats(j, i) /\ (j < i => Beats(i, j))
<1>1. /\ D \in SUBSET Nat /\ D # {}
      /\ \A i \in D : pinpoints[i] \in Sizes \X Sizes
  <2>1. D = 1..Len(pinpoints) /\ Len(pinpoints) \in Nat /\ Len(pinpoints) # 0
    OBVIOUS
  <2>2. 1 \in D
    BY <2>1
  <2>3. ASSUME NEW i \in D PROVE pinpoints[i] \in Sizes \X Sizes
    BY <2>1
  <2> QED
    BY <2>1, <2>2, <2>3
<1>2. all \in Nat /\ \A i \in D : Area(i) \in Nat /\ Kept0(i) \in 0..all
  <2>1. all \in Nat
    <3>1. size[1] \in Sizes /\ size[2] \in Sizes
      OBVIOUS
    <3>2. size[1] * size[2] \in Sizes
      BY <3>1, ProductOfSizes
    <3> QED
      BY <3>2 DEF Sizes
  <2>2. ASSUME NEW i \in D PROVE Area(i) \in Nat /\ Kept0(i) \in 0..all
    <3> DEFINE p == pinpoints[i]
    <3>1. p \in Sizes \X Sizes
      BY <1>1
    <3> HIDE DEF p
    <3>2. p[1] \in Sizes /\ p[2] \in Sizes
      BY <3>1
    <3>3. p[1] * p[2] \in Sizes
      BY <3>2, ProductOfSizes
    <3>4. Effective(size, p) \in 0..(size[1] * size[2])
      BY <3>1, EffectiveIsNumber
    <3> QED
      BY <3>3, <3>4 DEF p, Sizes
  <2> QED
    BY <2>1, <2>2
<1>3. BestResolution(size, pinpoints) = pinpoints[CHOOSE i \in D : Best(i)]
  BY Zenon DEF BestResolution
<1> HIDE DEF all, Area, Kept0, D
<1> DEFINE lost == {all - Kept0(i) : i \in D}
<1>4. PICK a \in D : \A i \in D : Kept0(i) <= Kept0(a)
  <2>1. lost \in SUBSET Nat /\ lost # {}
    <3>1. \A i \in D : all - Kept0(i) \in Nat
      BY <1>2
    <3> QED
      BY <1>1, <3>1
  <2>2. PICK x \in lost : \A k \in lost : x <= k
    <3> HIDE DEF lost
    <3> QED
      BY <2>1, LeastNatural
  <2>3. PICK a \in D : x = all - Kept0(a)
    BY <2>2
  <2>4. \A i \in D : all - Kept0(a) <= all - Kept0(i)
    BY <2>2, <2>3
  <2>5. \A i \in D : Kept0(i) <= Kept0(a)
    BY <1>2, <2>4
  <2> QED
    BY <2>5
<1> DEFINE E == {i \in D : Kept0(i) = Kept0(a)}
           areas == {Area(i) : i \in E}
<1>5. PICK b \in E : \A i \in E : Area(b) <= Area(i)
  <2>1. areas \in SUBSET Nat /\ areas # {}
    BY <1>2
  <2>2. PICK x \in areas : \A k \in areas : x <= k
    <3> HIDE DEF areas
    <3> QED
      BY <2>1, LeastNatural
  <2> QED
    BY <1>2, <2>2
<1> DEFINE F == {i \in E : Area(i) = Area(b)}
<1>6. PICK c \in F : \A i \in F : c <= i
  <2>1. F \in SUBSET Nat /\ F # {}
    BY <1>1, <1>5
  <2> HIDE DEF F
  <2> QED
    BY <2>1, LeastNatural
<1>7. Best(c)
  <2> SUFFICES ASSUME NEW j \in D PROVE ~Beats(j, c) /\ (j < c => Beats(c, j))
    OBVIOUS
  <2>1. /\ c \in D /\ Kept0(c) = Kept0(a) /\ Area(c) = Area(b) /\ Kept0(j) <= Kept0(a)
        /\ c \in Nat /\ j \in Nat /\ Kept0(c) \in Nat /\ Kept0(j) \in Nat
        /\ Area(c) \in Nat /\ Area(j) \in Nat
    BY <1>1, <1>2, <1>4, <1>5
  <2>2. Kept0(j) = Kept0(c) => Area(c) <= Area(j)
    BY <1>5, <2>1
  <2>3. Kept0(j) = Kept0(c) /\ Area(j) = Area(c) => c <= j
    BY <1>6, <2>1
  <2> QED
    BY <2>1, <2>2, <2>3
<1>8. c \in D
  OBVIOUS
<1> HIDE DEF Best
<1>9. (CHOOSE i \in D : Best(i)) \in D
  BY <1>7, <1>8
<1> QED
  BY <1>1, <1>3, <1>9

LEMMA TokensAreNumbers ==
    ASSUME NEW model, NEW size, VisionSized(model, size)
    PROVE  /\ VitTokens(model.image, size) \in Nat /\ VisualTokens(model.image, size) \in Nat
           /\ VitImages(model.image, size) \in Nat
<1> DEFINE image == model.image
           tokens == image.tokens merge == image.merge
           actual == SizeOf(image, size)
           square == Square(image.size)
           grid == BestResolution(actual, image.pinpoints)
           ofGrid == Patches(image, grid)
           ofSquare == Patches(image, square)
           row == grid[2] \div image.patch
<1>1. CASE tokens = 0
  BY <1>1 DEF VitTokens, VisualTokens, VitImages
<1>2. CASE tokens # 0
  <2>1. /\ tokens \in Nat /\ image.patch \in Sizes /\ image.size \in Sizes /\ merge \in Sizes
        /\ image.pinpoints \in Seq(Sizes \X Sizes)
        /\ size = <<>> \/ size \in Sizes \X Sizes
    BY <1>2 DEF VisionSized
  <2>2. square \in Sizes \X Sizes /\ actual \in Sizes \X Sizes
    BY <2>1 DEF Square, SizeOf
  <2>3. AnyRes(image) => grid \in Sizes \X Sizes
    <3> HIDE DEF actual
    <3> QED
      BY <2>1, <2>2, BestIsPinpoint DEF AnyRes
  <2>4. Patches(image, actual) \in Nat /\ ofSquare \in Nat
    <3> HIDE DEF actual, square
    <3> QED
      BY <2>1, <2>2, PatchesAreNumbers
  <2>5. AnyRes(image) => ofGrid \in Nat /\ row \in Nat
    <3> SUFFICES ASSUME AnyRes(image) PROVE ofGrid \in Nat /\ row \in Nat
      OBVIOUS
    <3>1. grid \in Sizes \X Sizes
      BY <2>3
    <3> HIDE DEF grid
    <3>2. ofGrid \in Nat
      BY <2>1, <3>1, PatchesAreNumbers
    <3>3. grid[2] \in Nat /\ image.patch \in Nat \ {0}
      BY <2>1, <3>1 DEF Sizes
    <3> QED
      BY <3>2, <3>3, QuotientNatural
  <2>6. VitTokens(image, size) = IF AnyRes(image) THEN ofSquare
                                 ELSE IF size = <<>> /\ merge > 1 THEN tokens * merge * merge
                                 ELSE Patches(image, actual)
    BY <1>2, Zenon DEF VitTokens
  <2>7. VisualTokens(image, size) = IF AnyRes(image) THEN ofGrid + row + ofSquare
                                    ELSE IF size = <<>> THEN tokens
                                    ELSE Most(1, Patches(image, size) \div (merge * merge))
    BY <1>2, Zenon DEF VisualTokens
  <2>8. VitImages(image, size) = IF AnyRes(image) THEN 1 + CeilDiv(ofGrid, Most(1, ofSquare)) ELSE 1
    BY <1>2, Zenon DEF VitImages
  <2>9. tokens * merge * merge \in Nat
    <3>1. merge \in Nat
      BY <2>1 DEF Sizes
    <3> HIDE DEF tokens, merge
    <3>2. tokens * merge \in Nat
      BY <2>1, <3>1
    <3> QED
      BY <3>1, <3>2
  <2>10. size # <<>> => Most(1, Patches(image, size) \div (merge * merge)) \in Nat
    <3> SUFFICES ASSUME size # <<>>
                 PROVE  Most(1, Patches(image, size) \div (merge * merge)) \in Nat
      OBVIOUS
    <3>1. Patches(image, size) \in Nat
      BY <2>1, PatchesAreNumbers
    <3>2. merge * merge \in Sizes
      BY <2>1, ProductOfSizes
    <3>3. Patches(image, size) \div (merge * merge) \in Nat
      BY <3>1, <3>2, QuotientNatural DEF Sizes
    <3> QED
      BY <3>3 DEF Most
  <2>11. AnyRes(image) => CeilDiv(ofGrid, Most(1, ofSquare)) \in Nat
    <3> SUFFICES ASSUME AnyRes(image) PROVE CeilDiv(ofGrid, Most(1, ofSquare)) \in Nat
      OBVIOUS
    <3> DEFINE most == Most(1, ofSquare)
    <3>1. most \in Nat \ {0} /\ ofGrid \in Nat
      BY <2>4, <2>5 DEF Most
    <3> HIDE DEF most, ofGrid
    <3>2. ofGrid + most - 1 \in Nat
      BY <3>1
    <3>3. (ofGrid + most - 1) \div most \in Nat
      BY <3>1, <3>2, QuotientNatural
    <3> QED
      BY <3>3 DEF CeilDiv, most
  <2> HIDE DEF ofGrid, ofSquare, row, actual
  <2>12. VitTokens(image, size) \in Nat
    BY <2>4, <2>6, <2>9, Zenon
  <2>13. VisualTokens(image, size) \in Nat
    <3>1. AnyRes(image) => ofGrid + row + ofSquare \in Nat
      BY <2>4, <2>5
    <3> QED
      BY <2>1, <2>7, <2>10, <3>1, Zenon
  <2>14. VitImages(image, size) \in Nat
    <3>1. AnyRes(image) => 1 + CeilDiv(ofGrid, Most(1, ofSquare)) \in Nat
      BY <2>11
    <3> QED
      BY <2>8, <3>1
  <2> QED
    BY <2>12, <2>13, <2>14
<1> QED
  BY <1>1, <1>2

LEMMA MostIsSize == \A a \in Nat : Most(1, a) \in Sizes
BY DEF Most, Sizes

LEMMA WithoutVision ==
    ASSUME NEW t, NEW batch \in Nat, NEW size, t.info.image.tokens = 0
    PROVE  BuildVision(t, batch, size) = <<>>
<1>1. VitTokens(t.info.image, size) = 0 /\ VisualTokens(t.info.image, size) = 0
  BY DEF VitTokens, VisualTokens
<1>2. BuildVit(t, batch, size) = <<>>
  BY <1>1 DEF BuildVit, When
<1>3. BuildProjector(t, batch, size) = <<>>
  BY <1>1 DEF BuildProjector, When
<1> QED
  BY <1>2, <1>3 DEF BuildVision

LEMMA VisionIsPriced ==
    ASSUME NEW t, t.fc_tp \in Sizes, t.info.hdim \in Sizes, NEW batch \in Sizes, NEW size,
           VisionSized(t.info, size)
    PROVE  BuildVision(t, batch, size) \in Seq(PricedLayers)
<1> DEFINE P == PricedLayers
           v == t.info.vit
           image == t.info.image
           hdim == t.info.hdim
           tokens == VitTokens(image, size)
           visual == VisualTokens(image, size)
           images == VitImages(image, size)
<1>1. tokens \in Nat /\ visual \in Nat /\ images \in Nat
  BY TokensAreNumbers
<1>2. CASE image.tokens = 0
  <2>1. BuildVision(t, batch, size) = <<>>
    BY <1>2, WithoutVision DEF Sizes
  <2> QED
    BY <2>1
<1>3. CASE image.tokens # 0
  <2>1. /\ v.layers \in Sizes /\ v.hidden \in Sizes /\ v.heads \in Sizes /\ v.ff \in Sizes
        /\ v.heads <= v.hidden /\ v.act \in {"vit_gelu", "vit_silu", "vit_relu"}
        /\ image.merge \in Sizes
    BY <1>3 DEF VisionSized
  <2>2. 1 \in Sizes /\ 3 \in Sizes
    BY DEF Sizes
  <2>3. \A m, n, k, ops \in Sizes : \A name, type :
            Known(name, type) => Layer(name, type, m, n, k, ops) \in P
    BY LayerIsPriced
  <2>4. /\ Known("vit_qkv", "FC") /\ Known("vit_score", "MATMUL") /\ Known("vit_softmax", "SOFTMAX")
        /\ Known("vit_context", "MATMUL") /\ Known("vit_proj", "FC") /\ Known("vit_norm1", "NORM")
        /\ Known("vit_ff1", "FC") /\ Known(v.act, "ACT") /\ Known("vit_ff2", "FC")
        /\ Known("vit_norm2", "NORM") /\ Known("proj_fc1", "FC") /\ Known("proj_act", "ACT")
        /\ Known("proj_fc2", "FC") /\ Known("vit_broadcast", "G2G")
    BY <2>1 DEF Known, VisionNames, Names, LayerTypes
  <2>5. BuildVit(t, batch, size) \in Seq(P)
    <3> DEFINE rows == batch * tokens
               blocks == v.layers * Most(1, images)
               heads == v.heads * batch * blocks
               dhead == v.hidden \div v.heads
               hidden == v.hidden ff == v.ff triple == 3 * hidden
               qkv == Layer("vit_qkv", "FC", rows, triple, hidden, blocks)
               score == Layer("vit_score", "MATMUL", tokens, tokens, dhead, heads)
               softmax == Layer("vit_softmax", "SOFTMAX", tokens, tokens, 1, heads)
               context == Layer("vit_context", "MATMUL", tokens, dhead, tokens, heads)
               proj == Layer("vit_proj", "FC", rows, hidden, hidden, blocks)
               norm1 == Layer("vit_norm1", "NORM", rows, hidden, 1, blocks)
               ff1 == Layer("vit_ff1", "FC", rows, ff, hidden, blocks)
               act == Layer(v.act, "ACT", rows, ff, 1, blocks)
               ff2 == Layer("vit_ff2", "FC", rows, hidden, ff, blocks)
               norm2 == Layer("vit_norm2", "NORM", rows, hidden, 1, blocks)
               tower == <<qkv, score, softmax, context, proj, norm1, ff1, act, ff2, norm2>>
    <3>1. BuildVit(t, batch, size) = When(tokens # 0 /\ v.layers # 0, tower)
      BY Zenon DEF BuildVit
    <3>2. ASSUME tokens # 0 PROVE tower \in Seq(P)
      <4>1. tokens \in Sizes
        BY <1>1, <3>2 DEF Sizes
      <4>2. Most(1, images) \in Sizes
        BY <1>1, MostIsSize
      <4>3. rows \in Sizes /\ blocks \in Sizes /\ v.heads * batch \in Sizes /\ triple \in Sizes
        <5> HIDE DEF tokens, images
        <5> QED
          BY <2>1, <2>2, <4>1, <4>2, ProductOfSizes
      <4>4. heads \in Sizes
        <5> HIDE DEF blocks
        <5> QED
          BY <4>3, ProductOfSizes
      <4>5. dhead \in Sizes
        <5>1. v.hidden \in Int /\ v.heads \in Nat \ {0} /\ 1 * v.heads <= v.hidden /\ 1 \in Int
          BY <2>1 DEF Sizes
        <5>2. 1 <= v.hidden \div v.heads /\ v.hidden \div v.heads \in Int
          BY <5>1, QuotientAtLeast, QuotientTyped
        <5> QED
          BY <5>2 DEF Sizes
      <4>6. hidden \in Sizes /\ ff \in Sizes
        BY <2>1
      <4> HIDE DEF rows, blocks, heads, dhead, hidden, ff, triple, tokens, v, P
      <4>7. qkv \in P /\ score \in P /\ softmax \in P /\ context \in P /\ proj \in P
        BY <2>2, <2>3, <2>4, <4>1, <4>3, <4>4, <4>5, <4>6
      <4>8. norm1 \in P /\ ff1 \in P /\ act \in P /\ ff2 \in P /\ norm2 \in P
        BY <2>2, <2>3, <2>4, <4>1, <4>3, <4>4, <4>5, <4>6
      <4> HIDE DEF qkv, score, softmax, context, proj, norm1, ff1, act, ff2, norm2
      <4> QED
        BY <4>7, <4>8
    <3> HIDE DEF tower, tokens
    <3> QED
      BY <3>1, <3>2 DEF When
  <2>6. BuildProjector(t, batch, size) \in Seq(P)
    <3> DEFINE merge == IF image.projector = "mlp" THEN 1 ELSE image.merge
               rows == batch * visual
               wide == v.hidden * merge * merge
               fc1 == Layer("proj_fc1", "FC", rows, hdim, wide, 1)
               act == Layer("proj_act", "ACT", rows, hdim, 1, 1)
               fc2 == Layer("proj_fc2", "FC", rows, hdim, hdim, 1)
               cast == Layer("vit_broadcast", "G2G", rows, hdim, 1, 1)
               layers == <<fc1, act, fc2>> \o When(t.fc_tp > 1, <<cast>>)
    <3>1. BuildProjector(t, batch, size) = When(rows # 0 /\ image.projector # "none", layers)
      BY Zenon DEF BuildProjector
    <3>2. ASSUME rows # 0 PROVE layers \in Seq(P)
      <4>1. rows \in Sizes
        <5>1. batch \in Nat
          BY DEF Sizes
        <5>2. rows \in Nat
          <6> HIDE DEF visual
          <6> QED
            BY <1>1, <5>1
        <5> QED
          BY <3>2, <5>2 DEF Sizes
      <4>2. wide \in Sizes
        <5>1. merge \in Sizes
          BY <2>1, <2>2
        <5> HIDE DEF merge
        <5>2. v.hidden * merge \in Sizes
          BY <2>1, <5>1, ProductOfSizes
        <5> QED
          BY <5>1, <5>2, ProductOfSizes
      <4>3. hdim \in Sizes
        OBVIOUS
      <4> HIDE DEF rows, wide, hdim, P
      <4>4. fc1 \in P /\ act \in P /\ fc2 \in P /\ cast \in P
        BY <2>2, <2>3, <2>4, <4>1, <4>2, <4>3
      <4> HIDE DEF fc1, act, fc2, cast
      <4>5. <<fc1, act, fc2>> \in Seq(P) /\ When(t.fc_tp > 1, <<cast>>) \in Seq(P)
        BY <4>4 DEF When
      <4> QED
        BY <4>5
    <3> HIDE DEF layers, rows
    <3> QED
      BY <3>1, <3>2 DEF When
  <2> QED
    BY <2>5, <2>6 DEF BuildVision
<1> QED
  BY <1>2, <1>3

(***************************************************************************)
(* The layers a run asks its devices for.                                  *)
(***************************************************************************)
LEMMA ElementsArePriced ==
    ASSUME NEW block \in Seq(PricedLayers)
    PROVE  Elements(block) \subseteq PricedLayers
BY DEF Elements

LEMMA LayersArePriced ==
    ASSUME NEW c \in Calls, Splits(Transformer(c.model, c.ngpu))
    PROVE  LayersOfRun(c) \subseteq PricedLayers /\ ChunksOfRun(c) \subseteq PricedLayers
<1> DEFINE t == Transformer(c.model, c.ngpu)
<1>1. Sized(t) /\ t.info = c.model /\ t.fc_tp \in Sizes /\ t.info.hdim \in Sizes
  <2>1. Sized(t)
    BY TransformerSized
  <2> QED
    BY <2>1 DEF Sized, Transformer, Sizes
<1>2. c.batch \in Sizes /\ c.lin \in Sizes /\ c.lout \in Nat
  BY CallsAssumption DEF Sizes
<1>3. VisionSized(c.model, c.image)
  BY VisionAssumption
<1>4. \A block \in BlocksOfRun(c) :
        \/ block = BuildVision(t, c.batch, c.image)
        \/ \E hetero \in BOOLEAN, idx \in {{}, c.model.deepstack} :
              block = BuildSum(t, c.batch, c.lin, hetero, idx)
        \/ \E s \in 1..(c.lout - 1), hetero \in BOOLEAN :
              block = BuildGenStage(t, c.batch, c.lin, s, hetero)
  <2> TAKE block \in BlocksOfRun(c)
  <2> QED
    BY DEF BlocksOfRun
<1>5. Splits(t)
  OBVIOUS
<1> HIDE DEF t
<1>6. BuildVision(t, c.batch, c.image) \in Seq(PricedLayers)
  BY <1>1, <1>2, <1>3, VisionIsPriced
<1>7. \A hetero \in BOOLEAN :
        /\ \A idx : BuildSum(t, c.batch, c.lin, hetero, idx) \in Seq(PricedLayers)
        /\ \A s \in Nat : BuildGenStage(t, c.batch, c.lin, s, hetero) \in Seq(PricedLayers)
  BY <1>1, <1>2, <1>5, BlocksArePriced
<1>8. \A block \in BlocksOfRun(c) : block \in Seq(PricedLayers)
  <2>1. \A s \in 1..(c.lout - 1) : s \in Nat
    BY <1>2
  <2> QED
    BY <1>4, <1>6, <1>7, <2>1
<1>9. LayersOfRun(c) \subseteq PricedLayers
  <2>1. \A block \in BlocksOfRun(c) : Elements(block) \subseteq PricedLayers
    BY <1>8, ElementsArePriced
  <2> QED
    BY <2>1 DEF LayersOfRun
<1>10. ChunksOfRun(c) \subseteq PricedLayers
  <2>1. ASSUME NEW l \in PricedLayers, NEW keys \in 1..c.lin PROVE OneQuery(l, keys) \in PricedLayers
    <3>1. 1 \in Sizes /\ keys \in Sizes
      BY DEF Sizes
    <3> QED
      BY <3>1 DEF OneQuery, PricedLayers, Records
  <2> QED
    BY <1>9, <2>1 DEF ChunksOfRun
<1> QED
  BY <1>9, <1>10

(* Whatever the capacities, rates and energies of the devices, their       *)
(* formulas answer every layer a run asks for as the proofs about a run    *)
(* assume of a cost: in natural numbers, transfers with energy on the link *)
(* alone, and the two norms of a decoder layer alike.                      *)
THEOREM FormulasAnswerWell ==
    \A c \in {c \in Calls : Splits(Transformer(c.model, c.ngpu))} :
        \A l \in LayersOfRun(c) \cup ChunksOfRun(c), device \in {"gpu", "cpu", "pim"},
           number \in {2, c.ngpu, DefaultGpus} :
              device = "gpu" \/ l.type \in {"MATMUL", "SOFTMAX", "X2G"}
                => WellAnswered(l, Answer(device, number, l),
                                Answer(device, number, [l EXCEPT !.name = "norm1"]))
<1> SUFFICES ASSUME NEW c \in Calls, Splits(Transformer(c.model, c.ngpu)),
                    NEW l \in LayersOfRun(c) \cup ChunksOfRun(c),
                    NEW device \in {"gpu", "cpu", "pim"},
                    NEW number \in {2, c.ngpu, DefaultGpus},
                    device = "gpu" \/ l.type \in {"MATMUL", "SOFTMAX", "X2G"}
             PROVE  WellAnswered(l, Answer(device, number, l),
                                 Answer(device, number, [l EXCEPT !.name = "norm1"]))
  OBVIOUS
<1>1. Priceable(l)
  <2>1. l \in PricedLayers
    BY LayersArePriced
  <2> QED
    BY <2>1, PricedArePriceable
<1>2. number \in Nat \ {0}
  BY CallsAssumption DEF DefaultGpus
<1> QED
  BY <1>1, <1>2, DeviceAnswersWell

(* The layer that is priced next is one of the run. *)
LEMMA LayerPricedNext ==
    ASSUME IInv, pc \in Pricing, Len(ran) < Len(graph)
    PROVE  graph[Len(ran) + 1] \in LayersOfRun(call) /\ Splits(Transformer(call.model, call.ngpu))
<1>1. Inv /\ Deployed /\ Splits(shard) /\ ran \in Seq(Answers)
  BY DEF IInv, Inv, Placed, Late, Running, PricedWell
<1>2. graph \in Seq(Elements(graph)) /\ Elements(graph) \subseteq LayersOfRun(call)
  BY <1>1, BlockOfInv
<1>3. Len(ran) + 1 \in DOMAIN graph
  <2>1. Len(ran) \in Nat /\ Len(graph) \in Nat /\ DOMAIN graph = 1..Len(graph)
    BY <1>1, <1>2
  <2> QED
    BY <2>1
<1> QED
  BY <1>1, <1>2, <1>3 DEF Elements, Deployed

(* Whatever the model, the deployment and the devices: the tiles found for *)
(* the matrix product that is priced next fit together.                    *)
NextTilesFit ==
    (pc \in Pricing /\ Len(ran) < Len(graph)) =>
      LET l == graph[Len(ran) + 1] IN l.type \in {"FC", "MATMUL"} => TilesFit(l)
THEOREM TilesFitTogether == Spec => [](NextTilesFit /\ OffChipWithinL2)
<1>1. IInv => NextTilesFit /\ OffChipWithinL2
  <2> SUFFICES ASSUME IInv PROVE NextTilesFit /\ OffChipWithinL2
    OBVIOUS
  <2>1. ASSUME pc \in Pricing, Len(ran) < Len(graph), NEW l, l = graph[Len(ran) + 1],
               l.type \in {"FC", "MATMUL"}
        PROVE  TilesFit(l)
    <3>1. l \in LayersOfRun(call) /\ Splits(Transformer(call.model, call.ngpu))
      BY <2>1, LayerPricedNext
    <3>2. LayersOfRun(call) \subseteq PricedLayers
      BY <3>1, LayersArePriced DEF IInv, Inv, Deployed
    <3>3. Solid(l)
      BY <3>1, <3>2, PricedArePriceable DEF Priceable
    <3> QED
      BY <2>1, <3>3, TilesOfSolid
  <2>2. NextTilesFit
    BY <2>1 DEF NextTilesFit
  <2>3. OffChipWithinL2
    BY <2>2, Zenon DEF NextTilesFit, OffChipWithinL2, Pricing
  <2> QED
    BY <2>2, <2>3
<1> QED
  BY <1>1, IInvHolds, PTL

(***************************************************************************)
(* The memo of tiles.  Its key leaves the type of a layer out; what else   *)
(* tells a linear layer of a run from the others: one operation, or one    *)
(* for each block of the tower, against one for each head.                 *)
(***************************************************************************)
Blocks(c) == c.model.vit.layers * Most(1, VitImages(c.model.image, c.image))
LikeLinear(c, l) ==
    /\ l.k > 1
    /\ \/ l.ops = 1
       \/ /\ c.model.image.tokens # 0 /\ l.ops = Blocks(c)
          /\ l.k \in {c.model.vit.hidden, c.model.vit.ff}
          /\ l.n \in {3 * c.model.vit.hidden, c.model.vit.hidden, c.model.vit.ff}
LikeOther(c, l) ==
    \/ l.k = 1
    \/ l.ops > 1 /\ c.model.dhead \in {l.n, l.k}
    \/ c.model.image.tokens # 0 /\ l.ops > Blocks(c)
Told(c, l) == Memoised(l) => IF l.type = "FC" THEN LikeLinear(c, l) ELSE LikeOther(c, l)
ToldLayers(c) == {l \in PricedLayers : Told(c, l)}

LEMMA BlocksOfTower ==
    ASSUME NEW c \in Calls, c.model.image.tokens # 0
    PROVE  Blocks(c) \in Sizes
<1>1. VisionSized(c.model, c.image)
  BY VisionAssumption
<1>2. VitImages(c.model.image, c.image) \in Nat /\ c.model.vit.layers \in Sizes
  <2>1. VitImages(c.model.image, c.image) \in Nat
    BY <1>1, TokensAreNumbers
  <2> QED
    BY <1>1, <2>1 DEF VisionSized
<1> DEFINE images == VitImages(c.model.image, c.image)
<1>3. Most(1, images) \in Sizes
  BY <1>2, MostIsSize
<1> HIDE DEF images
<1> QED
  BY <1>2, <1>3, ProductOfSizes DEF Blocks, images

(* Two layers with one key are of one kind. *)
LEMMA KeysTell ==
    ASSUME NEW c \in Calls, HeadsTell(c), NEW a \in ToldLayers(c), NEW b \in ToldLayers(c),
           Memoised(a), Memoised(b), TileKeyOf(a) = TileKeyOf(b), a.type = "FC"
    PROVE  b.type = "FC"
<1> SUFFICES ASSUME b.type # "FC" PROVE FALSE
  OBVIOUS
<1>1. a.n = b.n /\ a.k = b.k /\ a.ops = b.ops
  BY DEF TileKeyOf
<1>2. LikeLinear(c, a) /\ LikeOther(c, b)
  BY DEF ToldLayers, Told
<1>3. c.model.image.tokens # 0 => Blocks(c) \in Sizes
  BY BlocksOfTower
<1>4. a.k > 1 /\ b.k # 1
  BY <1>1, <1>2 DEF LikeLinear
<1>5. c.model.image.tokens # 0 => c.model.dhead \notin {c.model.vit.hidden, 3 * c.model.vit.hidden, c.model.vit.ff}
  BY DEF HeadsTell
<1>6. CASE a.ops = 1
  BY <1>1, <1>2, <1>3, <1>4, <1>6 DEF LikeOther, Sizes
<1>7. CASE /\ c.model.image.tokens # 0 /\ a.ops = Blocks(c)
           /\ a.k \in {c.model.vit.hidden, c.model.vit.ff}
           /\ a.n \in {3 * c.model.vit.hidden, c.model.vit.hidden, c.model.vit.ff}
  BY <1>1, <1>2, <1>3, <1>4, <1>5, <1>7 DEF LikeOther, Sizes
<1> QED
  BY <1>2, <1>6, <1>7 DEF LikeLinear

(* Layers of the shapes that a decoder and a tower consist of.             *)
LEMMA LayerIsTold ==
    ASSUME NEW c \in Calls, NEW name, NEW type, Known(name, type),
           NEW m \in Sizes, NEW n \in Sizes, NEW k \in Sizes, NEW ops \in Sizes,
           NEW pim \in Sizes
    PROVE  LET l == Layer(name, type, m, n, k, ops)
               onPim == [l EXCEPT !.pim = pim]
           IN  /\ type \in {"X2G", "G2G"} => l \in ToldLayers(c)
               /\ type = "FC" /\ LikeLinear(c, l) => l \in ToldLayers(c)
               /\ type # "FC" /\ LikeOther(c, l) => l \in ToldLayers(c) /\ onPim \in ToldLayers(c)
<1> DEFINE l == Layer(name, type, m, n, k, ops)
           onPim == [l EXCEPT !.pim = pim]
<1>1. l \in PricedLayers /\ onPim \in PricedLayers
  BY LayerIsPriced
<1>2. /\ l.type = type /\ onPim.type = type /\ onPim.n = l.n /\ onPim.k = l.k /\ onPim.ops = l.ops
  BY DEF Layer
<1> HIDE DEF l, onPim
<1>3. LikeOther(c, l) => LikeOther(c, onPim)
  BY <1>2 DEF LikeOther
<1>4. type \in {"X2G", "G2G"} => l \in ToldLayers(c)
  BY <1>1, <1>2 DEF ToldLayers, Told, Memoised
<1>5. type = "FC" /\ LikeLinear(c, l) => l \in ToldLayers(c)
  BY <1>1, <1>2 DEF ToldLayers, Told
<1>6. type # "FC" /\ LikeOther(c, l) => l \in ToldLayers(c) /\ onPim \in ToldLayers(c)
  BY <1>1, <1>2, <1>3 DEF ToldLayers, Told
<1> QED
  BY <1>4, <1>5, <1>6 DEF l, onPim

LEMMA DecoderIsTold ==
    ASSUME NEW c \in Calls, HeadsTell(c), Splits(Transformer(c.model, c.ngpu)),
           NEW tokens \in Sizes, NEW queries \in Sizes, NEW keys \in Sizes
    PROVE  PartsOf(ToldLayers(c), Transformer(c.model, c.ngpu), tokens, c.batch, queries, keys)
<1> DEFINE t == Transformer(c.model, c.ngpu)
           T == ToldLayers(c)
           hdim == t.info.hdim dhead == t.info.dhead
           qkv == QkvOut(t) \div t.fc_tp qOut == QOut(t) \div t.fc_tp
           kvOut == KvOut(t) \div t.fc_tp width == hdim \div t.fc_tp
           ff == t.info.ff \div t.fc_tp back == QOut(t) \div t.attn_tp
           q == t.info.q \div t.attn_tp kv == t.info.kv \div t.attn_tp
           heads == c.batch * q onPim == c.batch * kv
<1>1. Sized(t) /\ Splits(t) /\ t.info = c.model /\ c.batch \in Sizes
  BY TransformerSized, CallsAssumption DEF Transformer, Sizes
<1>2. /\ hdim \in Sizes /\ dhead \in Sizes /\ qkv \in Sizes /\ qOut \in Sizes /\ kvOut \in Sizes
      /\ width \in Sizes /\ ff \in Sizes /\ back \in Sizes /\ q \in Sizes /\ kv \in Sizes
  BY <1>1, SharesAreSizes
<1>3. heads > 1 /\ width > 1 /\ ff > 1 /\ dhead = c.model.dhead
  BY <1>1 DEF HeadsTell
<1>4. hdim > 1
  <2>1. hdim \in Nat \ {0} /\ t.fc_tp \in Nat \ {0}
    BY <1>1 DEF Sized
  <2> HIDE DEF hdim, t
  <2>2. hdim <= hdim * t.fc_tp
    BY <2>1
  <2>3. width <= hdim /\ width \in Int
    BY <2>1, <2>2, QuotientAtMost, QuotientTyped
  <2> QED
    BY <1>3, <2>1, <2>3
<1>5. heads \in Sizes /\ onPim \in Sizes /\ 2 * kvOut \in Sizes /\ 1 \in Sizes
  <2> HIDE DEF q, kv, kvOut
  <2>1. 2 \in Sizes /\ 1 \in Sizes
    BY DEF Sizes
  <2> QED
    BY <1>1, <1>2, <2>1, ProductOfSizes
<1>6. /\ Known("qkv", "FC") /\ Known("proj", "FC") /\ Known("ff1", "FC") /\ Known("ff2", "FC")
      /\ Known("ff3", "FC") /\ Known("score", "MATMUL") /\ Known("softmax", "SOFTMAX")
      /\ Known("context", "MATMUL") /\ Known("glu", "ACT") /\ Known("gelu", "ACT")
      /\ Known("deepstack_add", "ACT") /\ Known("norm1", "NORM") /\ Known("norm2", "NORM")
      /\ Known("comm_g2g", "G2G") /\ Known("comm_x2g_kv", "X2G") /\ Known("comm_x2g_q", "X2G")
      /\ Known("comm_x2g_qkv", "X2G") /\ Known("comm_x2g_return", "X2G")
  BY DEF Known, Names, LayerTypes
<1>7. Attention(t, c.batch, queries, keys) =
        << [Layer("score", "MATMUL", queries, keys, dhead, heads) EXCEPT !.pim = onPim],
           [Layer("softmax", "SOFTMAX", queries, keys, 1, heads) EXCEPT !.pim = onPim],
           [Layer("context", "MATMUL", queries, dhead, keys, heads) EXCEPT !.pim = onPim] >>
  BY Zenon DEF Attention
<1>8. AfterAttention(t, tokens) =
        << Layer("proj", "FC", tokens, hdim, width, 1), Layer("comm_g2g", "G2G", tokens, hdim, 1, 1),
           Layer("norm1", "NORM", tokens, hdim, 1, 1) >>
          \o FeedForwardLayers(t, tokens)
          \o << Layer("comm_g2g", "G2G", tokens, hdim, 1, 1),
                Layer("norm2", "NORM", tokens, hdim, 1, 1) >>
  BY Zenon DEF AfterAttention
<1>9. FeedForwardLayers(t, tokens) =
        IF t.info.gated
        THEN << Layer("ff1", "FC", tokens, ff, hdim, 1), Layer("ff2", "FC", tokens, ff, hdim, 1),
                Layer("glu", "ACT", tokens, ff, 1, 1), Layer("ff3", "FC", tokens, hdim, ff, 1) >>
        ELSE << Layer("ff1", "FC", tokens, ff, hdim, 1), Layer("gelu", "ACT", tokens, ff, 1, 1),
                Layer("ff2", "FC", tokens, hdim, ff, 1) >>
  BY Zenon DEF FeedForwardLayers
<1>10. t.info.hdim = hdim
  OBVIOUS
<1> HIDE DEF t, hdim, dhead, qkv, qOut, kvOut, width, ff, back, q, kv, heads, onPim, T
<1>11. \A name, type : Known(name, type) => \A m, n \in Sizes :
         /\ type \in {"X2G", "G2G"} => Layer(name, type, m, n, 1, 1) \in T
         /\ \A k \in Sizes : type = "FC" /\ k > 1 => Layer(name, type, m, n, k, 1) \in T
         /\ type # "FC" => Layer(name, type, m, n, 1, 1) \in T
  <2> SUFFICES ASSUME NEW name, NEW type, Known(name, type), NEW m \in Sizes, NEW n \in Sizes
               PROVE  /\ type \in {"X2G", "G2G"} => Layer(name, type, m, n, 1, 1) \in T
                      /\ \A k \in Sizes : type = "FC" /\ k > 1 => Layer(name, type, m, n, k, 1) \in T
                      /\ type # "FC" => Layer(name, type, m, n, 1, 1) \in T
    OBVIOUS
  <2>1. \A k : /\ k > 1 => LikeLinear(c, Layer(name, type, m, n, k, 1))
               /\ LikeOther(c, Layer(name, type, m, n, 1, 1))
    BY DEF Layer, LikeLinear, LikeOther
  <2> QED
    BY <1>5, <2>1, LayerIsTold DEF T
<1>12. Attention(t, c.batch, queries, keys) \in Seq(T)
  <2>1. /\ LikeOther(c, Layer("score", "MATMUL", queries, keys, dhead, heads))
        /\ LikeOther(c, Layer("softmax", "SOFTMAX", queries, keys, 1, heads))
        /\ LikeOther(c, Layer("context", "MATMUL", queries, dhead, keys, heads))
    BY <1>3 DEF Layer, LikeOther
  <2>2. [Layer("score", "MATMUL", queries, keys, dhead, heads) EXCEPT !.pim = onPim] \in T
    BY <1>2, <1>5, <1>6, <2>1, LayerIsTold DEF T
  <2>3. [Layer("softmax", "SOFTMAX", queries, keys, 1, heads) EXCEPT !.pim = onPim] \in T
    BY <1>2, <1>5, <1>6, <2>1, LayerIsTold DEF T
  <2>4. [Layer("context", "MATMUL", queries, dhead, keys, heads) EXCEPT !.pim = onPim] \in T
    BY <1>2, <1>5, <1>6, <2>1, LayerIsTold DEF T
  <2> QED
    BY <1>7, <2>2, <2>3, <2>4
<1>13. FeedForwardLayers(t, tokens) \in Seq(T)
  <2>1. /\ Layer("ff1", "FC", tokens, ff, hdim, 1) \in T
        /\ Layer("ff2", "FC", tokens, ff, hdim, 1) \in T
        /\ Layer("ff3", "FC", tokens, hdim, ff, 1) \in T
        /\ Layer("ff2", "FC", tokens, hdim, ff, 1) \in T
    BY <1>2, <1>3, <1>4, <1>6, <1>11
  <2>2. Layer("glu", "ACT", tokens, ff, 1, 1) \in T /\ Layer("gelu", "ACT", tokens, ff, 1, 1) \in T
    BY <1>2, <1>6, <1>11
  <2> QED
    BY <1>9, <2>1, <2>2
<1>14. AfterAttention(t, tokens) \in Seq(T)
  <2>1. Layer("proj", "FC", tokens, hdim, width, 1) \in T
    BY <1>2, <1>3, <1>6, <1>11
  <2>2. /\ Layer("comm_g2g", "G2G", tokens, hdim, 1, 1) \in T
        /\ Layer("norm1", "NORM", tokens, hdim, 1, 1) \in T
        /\ Layer("norm2", "NORM", tokens, hdim, 1, 1) \in T
    BY <1>2, <1>6, <1>11
  <2>3. << Layer("proj", "FC", tokens, hdim, width, 1),
           Layer("comm_g2g", "G2G", tokens, hdim, 1, 1),
           Layer("norm1", "NORM", tokens, hdim, 1, 1) >> \in Seq(T)
    BY <2>1, <2>2
  <2>4. << Layer("comm_g2g", "G2G", tokens, hdim, 1, 1),
           Layer("norm2", "NORM", tokens, hdim, 1, 1) >> \in Seq(T)
    BY <2>2
  <2> QED
    BY <1>8, <1>13, <2>3, <2>4
<1>15. /\ Qkv(t, tokens) \in T /\ Return(t, tokens) \in T
       /\ Layer("deepstack_add", "ACT", tokens, t.info.hdim, 1, 1) \in T
  <2>1. Layer("qkv", "FC", tokens, qkv, hdim, 1) \in T
    BY <1>2, <1>4, <1>6, <1>11
  <2>2. /\ Layer("comm_x2g_return", "X2G", tokens, back, 1, 1) \in T
        /\ Layer("deepstack_add", "ACT", tokens, hdim, 1, 1) \in T
    BY <1>2, <1>6, <1>11
  <2> QED
    BY <2>1, <2>2, Zenon DEF Qkv, Return, Move, qkv, hdim, back
<1>16. /\ Move("comm_x2g_kv", tokens, 2 * (KvOut(t) \div t.fc_tp)) \in T
       /\ Move("comm_x2g_q", tokens, QOut(t) \div t.fc_tp) \in T
       /\ Move("comm_x2g_qkv", tokens, QkvOut(t) \div t.fc_tp) \in T
  <2>1. /\ Layer("comm_x2g_kv", "X2G", tokens, 2 * kvOut, 1, 1) \in T
        /\ Layer("comm_x2g_q", "X2G", tokens, qOut, 1, 1) \in T
        /\ Layer("comm_x2g_qkv", "X2G", tokens, qkv, 1, 1) \in T
    BY <1>2, <1>5, <1>6, <1>11
  <2> QED
    BY <2>1, Zenon DEF Move, qkv, qOut, kvOut
<1> QED
  BY <1>12, <1>14, <1>15, <1>16, Zenon DEF PartsOf, t, T

LEMMA VisionIsTold ==
    ASSUME NEW c \in Calls, HeadsTell(c), NEW t, t.info = c.model, t.info.hdim \in Sizes,
           t.info.hdim > 1
    PROVE  BuildVision(t, c.batch, c.image) \in Seq(ToldLayers(c))
<1> DEFINE T == ToldLayers(c)
           v == c.model.vit
           image == c.model.image
           hdim == t.info.hdim
           batch == c.batch
           tokens == VitTokens(image, c.image)
           visual == VisualTokens(image, c.image)
           images == VitImages(image, c.image)
<1>1. VisionSized(c.model, c.image) /\ batch \in Sizes
  BY VisionAssumption, CallsAssumption DEF Sizes
<1>2. tokens \in Nat /\ visual \in Nat /\ images \in Nat
  BY <1>1, TokensAreNumbers
<1>3. CASE image.tokens = 0
  <2>1. BuildVision(t, c.batch, c.image) = <<>>
    BY <1>1, <1>3, WithoutVision DEF Sizes
  <2> QED
    BY <2>1
<1>4. CASE image.tokens # 0
  <2>1. /\ v.layers \in Sizes /\ v.hidden \in Sizes /\ v.heads \in Sizes /\ v.ff \in Sizes
        /\ v.heads <= v.hidden /\ v.act \in {"vit_gelu", "vit_silu", "vit_relu"}
        /\ image.merge \in Sizes
        /\ v.heads > 1 /\ v.hidden > 1 /\ v.ff > 1
    BY <1>1, <1>4 DEF VisionSized, HeadsTell
  <2>2. 1 \in Sizes /\ 3 \in Sizes
    BY DEF Sizes
  <2>3. /\ Known("vit_qkv", "FC") /\ Known("vit_score", "MATMUL") /\ Known("vit_softmax", "SOFTMAX")
        /\ Known("vit_context", "MATMUL") /\ Known("vit_proj", "FC") /\ Known("vit_norm1", "NORM")
        /\ Known("vit_ff1", "FC") /\ Known(v.act, "ACT") /\ Known("vit_ff2", "FC")
        /\ Known("vit_norm2", "NORM") /\ Known("proj_fc1", "FC") /\ Known("proj_act", "ACT")
        /\ Known("proj_fc2", "FC") /\ Known("vit_broadcast", "G2G")
    BY <2>1 DEF Known, VisionNames, Names, LayerTypes
  <2>4. \A name, type : Known(name, type) => \A m, n, k, ops \in Sizes :
          LET l == Layer(name, type, m, n, k, ops) IN
          /\ type \in {"X2G", "G2G"} => l \in T
          /\ type = "FC" /\ LikeLinear(c, l) => l \in T
          /\ type # "FC" /\ LikeOther(c, l) => l \in T
    <3> SUFFICES ASSUME NEW name, NEW type, Known(name, type),
                        NEW m \in Sizes, NEW n \in Sizes, NEW k \in Sizes, NEW ops \in Sizes
                 PROVE  LET l == Layer(name, type, m, n, k, ops) IN
                        /\ type \in {"X2G", "G2G"} => l \in T
                        /\ type = "FC" /\ LikeLinear(c, l) => l \in T
                        /\ type # "FC" /\ LikeOther(c, l) => l \in T
      OBVIOUS
    <3> QED
      BY <2>2, LayerIsTold
  <2>5. BuildVit(t, c.batch, c.image) \in Seq(T)
    <3> DEFINE rows == batch * tokens
               blocks == v.layers * Most(1, images)
               heads == v.heads * batch * blocks
               dhead == v.hidden \div v.heads
               hidden == v.hidden ff == v.ff triple == 3 * hidden
               qkv == Layer("vit_qkv", "FC", rows, triple, hidden, blocks)
               score == Layer("vit_score", "MATMUL", tokens, tokens, dhead, heads)
               softmax == Layer("vit_softmax", "SOFTMAX", tokens, tokens, 1, heads)
               context == Layer("vit_context", "MATMUL", tokens, dhead, tokens, heads)
               proj == Layer("vit_proj", "FC", rows, hidden, hidden, blocks)
               norm1 == Layer("vit_norm1", "NORM", rows, hidden, 1, blocks)
               ff1 == Layer("vit_ff1", "FC", rows, ff, hidden, blocks)
               act == Layer(v.act, "ACT", rows, ff, 1, blocks)
               ff2 == Layer("vit_ff2", "FC", rows, hidden, ff, blocks)
               norm2 == Layer("vit_norm2", "NORM", rows, hidden, 1, blocks)
               tower == <<qkv, score, softmax, context, proj, norm1, ff1, act, ff2, norm2>>
    <3>1. BuildVit(t, c.batch, c.image) = When(tokens # 0 /\ v.layers # 0, tower)
      BY Zenon DEF BuildVit
    <3>2. ASSUME tokens # 0 PROVE tower \in Seq(T)
      <4>1. tokens \in Sizes
        BY <1>2, <3>2 DEF Sizes
      <4>2. Most(1, images) \in Sizes
        BY <1>2, MostIsSize
      <4>3. rows \in Sizes /\ blocks \in Sizes /\ v.heads * batch \in Sizes /\ triple \in Sizes
        <5> HIDE DEF tokens, images, batch
        <5> QED
          BY <1>1, <2>1, <2>2, <4>1, <4>2, ProductOfSizes
      <4>4. heads \in Sizes /\ heads > blocks
        <5> DEFINE x == v.heads * batch
        <5> HIDE DEF blocks, batch
        <5>1. x > 1
          <6>1. v.heads \in Nat /\ batch \in Nat /\ batch >= 1 /\ v.heads > 1
            BY <1>1, <2>1 DEF Sizes
          <6>2. v.heads * 1 <= v.heads * batch
            BY <6>1
          <6> QED
            BY <4>3, <6>1, <6>2 DEF Sizes
        <5>2. x \in Sizes /\ heads = x * blocks
          BY <4>3
        <5> HIDE DEF x, heads
        <5>3. x \in Nat /\ blocks \in Nat /\ blocks >= 1
          BY <4>3, <5>2 DEF Sizes
        <5>4. 2 * blocks <= x * blocks
          BY <5>1, <5>3
        <5> QED
          BY <4>3, <5>2, <5>3, <5>4, ProductOfSizes DEF Sizes
      <4>5. dhead \in Sizes
        <5>1. v.hidden \in Int /\ v.heads \in Nat \ {0} /\ 1 * v.heads <= v.hidden /\ 1 \in Int
          BY <2>1 DEF Sizes
        <5>2. 1 <= v.hidden \div v.heads /\ v.hidden \div v.heads \in Int
          BY <5>1, QuotientAtLeast, QuotientTyped
        <5> QED
          BY <5>2 DEF Sizes
      <4>6. hidden \in Sizes /\ ff \in Sizes /\ blocks = Blocks(c)
        BY <2>1 DEF Blocks
      <4>7. hidden > 1 /\ ff > 1 /\ c.model.image.tokens # 0
            /\ hidden = c.model.vit.hidden /\ ff = c.model.vit.ff /\ triple = 3 * c.model.vit.hidden
        BY <1>4, <2>1
      <4> HIDE DEF rows, blocks, heads, dhead, hidden, ff, triple, tokens, v, T
      <4>8. /\ LikeLinear(c, qkv) /\ LikeLinear(c, proj) /\ LikeLinear(c, ff1) /\ LikeLinear(c, ff2)
        BY <4>6, <4>7 DEF Layer, LikeLinear
      <4>9. /\ LikeOther(c, score) /\ LikeOther(c, softmax) /\ LikeOther(c, context)
            /\ LikeOther(c, norm1) /\ LikeOther(c, act) /\ LikeOther(c, norm2)
        BY <4>4, <4>6, <4>7 DEF Layer, LikeOther
      <4>10. qkv \in T /\ proj \in T /\ ff1 \in T /\ ff2 \in T
        BY <2>3, <2>4, <4>3, <4>6, <4>8
      <4>11. score \in T /\ softmax \in T /\ context \in T
        BY <2>2, <2>3, <2>4, <4>1, <4>4, <4>5, <4>9
      <4>12. norm1 \in T /\ act \in T /\ norm2 \in T
        BY <2>2, <2>3, <2>4, <4>3, <4>6, <4>9
      <4> HIDE DEF qkv, score, softmax, context, proj, norm1, ff1, act, ff2, norm2
      <4> QED
        BY <4>10, <4>11, <4>12
    <3> HIDE DEF tower, tokens
    <3> QED
      BY <3>1, <3>2 DEF When
  <2>6. BuildProjector(t, c.batch, c.image) \in Seq(T)
    <3> DEFINE merge == IF image.projector = "mlp" THEN 1 ELSE image.merge
               rows == batch * visual
               wide == v.hidden * merge * merge
               fc1 == Layer("proj_fc1", "FC", rows, hdim, wide, 1)
               act == Layer("proj_act", "ACT", rows, hdim, 1, 1)
               fc2 == Layer("proj_fc2", "FC", rows, hdim, hdim, 1)
               cast == Layer("vit_broadcast", "G2G", rows, hdim, 1, 1)
               layers == <<fc1, act, fc2>> \o When(t.fc_tp > 1, <<cast>>)
    <3>1. BuildProjector(t, c.batch, c.image) = When(rows # 0 /\ image.projector # "none", layers)
      BY Zenon DEF BuildProjector
    <3>2. ASSUME rows # 0 PROVE layers \in Seq(T)
      <4>1. rows \in Sizes
        <5>1. batch \in Nat
          BY <1>1 DEF Sizes
        <5>2. rows \in Nat
          <6> HIDE DEF visual, batch
          <6> QED
            BY <1>2, <5>1
        <5> QED
          BY <3>2, <5>2 DEF Sizes
      <4>2. wide \in Sizes /\ wide > 1
        <5>1. merge \in Sizes
          BY <2>1, <2>2
        <5> DEFINE x == merge * merge
                   h == v.hidden
        <5>2. x \in Sizes /\ wide = h * x /\ h \in Nat /\ h > 1
          <6> HIDE DEF merge
          <6>1. x \in Sizes
            BY <5>1, ProductOfSizes
          <6>2. h \in Nat /\ h > 1 /\ merge \in Nat
            BY <2>1, <5>1 DEF Sizes
          <6>3. wide = h * x
            BY <6>2
          <6> HIDE DEF h, x, wide
          <6> QED
            BY <6>1, <6>2, <6>3
        <5> HIDE DEF x, wide, h
        <5>3. x \in Nat /\ x >= 1
          BY <5>2 DEF Sizes
        <5>4. h * 1 <= h * x /\ h * x \in Nat
          BY <5>2, <5>3
        <5> QED
          BY <5>2, <5>3, <5>4 DEF Sizes
      <4>3. hdim \in Sizes /\ hdim > 1
        OBVIOUS
      <4> HIDE DEF rows, wide, hdim, T
      <4>4. LikeLinear(c, fc1) /\ LikeLinear(c, fc2) /\ LikeOther(c, act)
        BY <4>2, <4>3 DEF Layer, LikeLinear, LikeOther
      <4>5. fc1 \in T /\ fc2 \in T
        BY <2>2, <2>3, <2>4, <4>1, <4>2, <4>3, <4>4
      <4>6. act \in T /\ cast \in T
        BY <2>2, <2>3, <2>4, <4>1, <4>3, <4>4
      <4> HIDE DEF fc1, act, fc2, cast
      <4>7. <<fc1, act, fc2>> \in Seq(T) /\ When(t.fc_tp > 1, <<cast>>) \in Seq(T)
        BY <4>5, <4>6 DEF When
      <4> QED
        BY <4>7
    <3> HIDE DEF layers, rows
    <3> QED
      BY <3>1, <3>2 DEF When
  <2> QED
    BY <2>5, <2>6 DEF BuildVision
<1> QED
  BY <1>3, <1>4

LEMMA LayersAreTold ==
    ASSUME NEW c \in Calls, Splits(Transformer(c.model, c.ngpu)), HeadsTell(c)
    PROVE  LayersOfRun(c) \subseteq ToldLayers(c)
<1> DEFINE t == Transformer(c.model, c.ngpu)
           T == ToldLayers(c)
<1>1. /\ c.batch \in Sizes /\ c.lin \in Sizes /\ c.lout \in Nat
      /\ c.batch * c.lin \in Sizes /\ 1 \in Sizes
  <2>1. c.batch \in Sizes /\ c.lin \in Sizes /\ c.lout \in Nat /\ 1 \in Sizes
    BY CallsAssumption DEF Sizes
  <2> QED
    BY <2>1, ProductOfSizes
<1>2. Qkv(t, 1).k > 1 /\ t.info = c.model /\ t.info.hdim \in Sizes
  <2>1. Qkv(t, 1) \in T
    BY <1>1, DecoderIsTold DEF PartsOf
  <2>2. Memoised(Qkv(t, 1)) /\ Qkv(t, 1).type = "FC"
    BY DEF Qkv, Layer, Memoised
  <2>3. LikeLinear(c, Qkv(t, 1))
    BY <2>1, <2>2 DEF ToldLayers, Told
  <2> QED
    BY <2>3, CallsAssumption DEF LikeLinear, Transformer, Sizes
<1>3. t.info.hdim > 1
  BY <1>2 DEF Qkv, Layer
<1>4. \A block \in BlocksOfRun(c) :
        \/ block = BuildVision(t, c.batch, c.image)
        \/ \E hetero \in BOOLEAN, idx \in {{}, c.model.deepstack} :
              block = BuildSum(t, c.batch, c.lin, hetero, idx)
        \/ \E s \in 1..(c.lout - 1), hetero \in BOOLEAN :
              block = BuildGenStage(t, c.batch, c.lin, s, hetero)
  <2> TAKE block \in BlocksOfRun(c)
  <2> QED
    BY DEF BlocksOfRun
<1>5. PartsOf(T, t, c.batch * c.lin, c.batch, c.lin, c.lin)
  BY <1>1, DecoderIsTold
<1>6. \A s \in Nat : PartsOf(T, t, c.batch, c.batch, 1, c.lin + s)
  BY <1>1, DecoderIsTold DEF Sizes
<1> HIDE DEF t, T
<1>7. \A hetero \in BOOLEAN :
        /\ \A idx : BuildSum(t, c.batch, c.lin, hetero, idx) \in Seq(T)
        /\ \A s \in Nat : BuildGenStage(t, c.batch, c.lin, s, hetero) \in Seq(T)
  BY <1>5, <1>6, BlocksOfParts
<1>8. BuildVision(t, c.batch, c.image) \in Seq(T)
  BY <1>2, <1>3, VisionIsTold DEF T
<1>9. \A block \in BlocksOfRun(c) : block \in Seq(T)
  <2>1. \A s \in 1..(c.lout - 1) : s \in Nat
    BY <1>1
  <2> QED
    BY <1>4, <1>7, <1>8, <2>1
<1>10. \A block \in BlocksOfRun(c) : Elements(block) \subseteq T
  BY <1>9 DEF Elements
<1> QED
  BY <1>10 DEF LayersOfRun, T

(* What is in the memo was put there for a layer of the run.               *)
MemoOfRun ==
    \A x \in tiles : \E l \in LayersOfRun(call) :
        Memoised(l) /\ x.key = TileKeyOf(l) /\ x.fc = (l.type = "FC")

LEMMA MemoNext ==
    ASSUME IInv, MemoOfRun, [Next]_vars
    PROVE  MemoOfRun'
<1>1. ASSUME UNCHANGED <<call, tiles>> PROVE MemoOfRun'
  BY <1>1 DEF MemoOfRun
<1>2. CASE SumLayer \/ GenLayer
  <2> DEFINE l == graph[Len(ran) + 1]
  <2>1. /\ pc \in Pricing /\ Len(ran) < Len(graph) /\ call' = call
        /\ tiles' = RememberTile(SelectDevice(l), l)
    BY <1>2 DEF SumLayer, GenLayer, Kept, Run, Pricing
  <2>2. l \in LayersOfRun(call)
    BY <2>1, LayerPricedNext
  <2> HIDE DEF l
  <2>3. ASSUME NEW x \in tiles', x \notin tiles
        PROVE  Memoised(l) /\ x.key = TileKeyOf(l) /\ x.fc = (l.type = "FC")
    BY <2>1, <2>3 DEF RememberTile
  <2> QED
    BY <2>1, <2>2, <2>3 DEF MemoOfRun
<1>3. CASE StartBySimRunner \/ Main \/ SetXpu \/ SetAccelerator \/ Build \/ EndVision
           \/ EndSum \/ EndStage \/ NoThroughput \/ WriteRow
  BY <1>1, <1>3 DEF StartBySimRunner, Main, SetXpu, SetAccelerator, Build, EndVision, EndSum,
     EndStage, NoThroughput, WriteRow, Simulated, Priced, Run
<1>4. CASE Finished \/ UNCHANGED vars
  BY <1>1, <1>4 DEF Finished, vars
<1> QED
  BY <1>2, <1>3, <1>4 DEF Next

(* The memo of optimal tiles leaves the type of a layer out of its key.    *)
(* For a model and a deployment whose sizes tell linear layers from the    *)
(* others (HeadsTell), no layer of a run, in whatever block and stage, is  *)
(* served a tile that was searched for a layer of the other kind.          *)
THEOREM MemoTellsTypes == Spec => [](HeadsTell(call) => TileMemoAgrees)
<1>1. IInv /\ MemoOfRun => (HeadsTell(call) => TileMemoAgrees)
  <2> SUFFICES ASSUME IInv, MemoOfRun, HeadsTell(call), pc \in Pricing, Len(ran) < Len(graph),
                      Memoised(graph[Len(ran) + 1]), NEW x \in tiles,
                      x.key = TileKeyOf(graph[Len(ran) + 1])
               PROVE  x.fc = (graph[Len(ran) + 1].type = "FC")
    BY DEF TileMemoAgrees, Pricing
  <2> DEFINE a == graph[Len(ran) + 1]
  <2>1. a \in LayersOfRun(call) /\ Splits(Transformer(call.model, call.ngpu))
    BY LayerPricedNext
  <2>2. PICK b \in LayersOfRun(call) :
           Memoised(b) /\ x.key = TileKeyOf(b) /\ x.fc = (b.type = "FC")
    BY DEF MemoOfRun
  <2>3. call \in Calls
    BY DEF IInv, Inv, Deployed
  <2> HIDE DEF a
  <2>4. a \in ToldLayers(call) /\ b \in ToldLayers(call)
    BY <2>1, <2>2, <2>3, LayersAreTold
  <2>5. Memoised(a) /\ TileKeyOf(a) = TileKeyOf(b)
    BY <2>2 DEF a
  <2>6. a.type = "FC" <=> b.type = "FC"
    BY <2>2, <2>3, <2>4, <2>5, KeysTell
  <2> QED
    BY <2>2, <2>6 DEF a
<1>2. Init => MemoOfRun
  BY DEF Init, MemoOfRun
<1>3. IInv /\ MemoOfRun /\ [Next]_vars => MemoOfRun'
  BY MemoNext
<1> QED
  BY <1>1, <1>2, <1>3, IInvHolds, PTL DEF Spec
=============================================================================
