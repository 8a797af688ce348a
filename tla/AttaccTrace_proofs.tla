------------------------- MODULE AttaccTrace_proofs -------------------------
(***************************************************************************)
(* Proofs about the trace generators, for any organisation of the memory,  *)
(* any size of a group and any lengths, head sizes and numbers of heads:   *)
(* the overlapping of two heads keeps the dataflow, covers the scores of   *)
(* every head once, and writes vectors in order, and the MACs of a head    *)
(* read every column of its matrices once.                                 *)
(*                                                                         *)
(* The argument follows the numbers: Reach(op, h) says, for every section  *)
(* and beat, how many blocks of a kind have been written for a head, and   *)
(* Progress that those written are the first ones.  For the addresses, an  *)
(* index is a number in a mixed radix: the cell that a MAC reads tells in  *)
(* which bank it is and how deep, and these two give the index back.       *)
(***************************************************************************)
EXTENDS AttaccTrace, InductionLemmas, SequenceTheorems, FiniteSetTheorems, TLAPS

(* What each section holds of the pair of iterations it writes.            *)
Pair == {"write", "score", "softmax", "context", "context1"}
Single == {"tail-write", "tail-score", "tail-softmax", "tail-context"}
Where ==
    /\ p \in Params /\ i \in Nat /\ j \in Nat /\ i % 2 = 0
    /\ section \in Pair \cup Single \cup {"done"}
    /\ section \in Pair => i + 1 < NumItr
    /\ section \in Single => i + 1 = NumItr
    /\ section = "done" => i \in {NumItr - 1, NumItr}
    /\ section \in {"write", "tail-write", "tail-softmax", "done"} => j = 0
    /\ section \in {"score", "softmax", "tail-score"} => j <= Rounds
    /\ section \in {"context", "context1", "tail-context"} => j <= Columns

Least(a, b) == IF a < b THEN a ELSE b
Before(n) == IF n = 0 THEN 0 ELSE n - 1

(* How far the slices of a vector are written: those of the first input    *)
(* vector of Head1, and those written in the late beats of a loop.         *)
Part(size, n) == n * (size \div Rounds)
Late(size, length, n) ==
    IF n < length \div 2 THEN 0 ELSE (n - length \div 2) * (size \div CeilDiv(length, 2))

(* How many blocks of a kind a head has when it is finished ...            *)
Whole(op, h) ==
    CASE op = "score-wrgb" -> IF h % 2 = 0 THEN Words(h) ELSE Part(Words(h), Rounds)
      [] op = "score-mac" -> Outputs
      [] op = "score-mvsb" -> Rounds
      [] op = "sfm" -> 1
      [] op = "context-mvgb" -> IF h % 2 = 1 THEN Late(Moves(h), Columns, Columns)
                                ELSE IF h + 1 = NumItr THEN Moves(h)
                                ELSE Late(Moves(h), Rounds, Rounds)
      [] OTHER -> IF h % 2 = 0 THEN Columns ELSE 0

(* ... when its scores are being written, when they are complete, and when *)
(* its context is being written, in beat n of the loop; the beat after the *)
(* last is the first of the next loop.                                     *)
Scoring(op, h, n) ==
    CASE op = "score-wrgb" -> Whole(op, h)
      [] op = "score-mac" -> Least(n * Group, Outputs)
      [] op = "score-mvsb" -> Before(n)
      [] OTHER -> 0
Scored(op, h) ==
    IF op \in {"score-wrgb", "score-mac", "score-mvsb"} THEN Whole(op, h) ELSE 0
Softened(op, h, length, n) ==
    CASE op = "sfm" -> IF n = 0 THEN 0 ELSE 1
      [] op = "context-mvgb" -> Late(Moves(h), length, Least(n, length))
      [] OTHER -> Scored(op, h)
Contexting(op, h, n) ==
    CASE op = "context-mac" -> Least(n, Columns)
      [] op = "context-mvsb" -> Before(n)
      [] OTHER -> Whole(op, h)

(* What there is of the first head of the pair, and of the second, in beat *)
(* n of section s.                                                         *)
OfHead0(s, h, n, op) ==
    CASE s \in {"write", "tail-write"} -> 0
      [] s \in {"score", "tail-score"} -> Scoring(op, h, n)
      [] s = "softmax" -> Softened(op, h, Rounds, n)
      [] s = "tail-softmax" -> Scored(op, h)
      [] s \in {"context", "tail-context"} -> Contexting(op, h, n)
      [] OTHER -> Whole(op, h)
OfHead1(s, h, n, op) ==
    CASE s = "score" -> IF op = "score-wrgb" THEN Part(Words(h), Least(n, Rounds)) ELSE 0
      [] s = "softmax" -> Scoring(op, h, n)
      [] s = "context" -> Softened(op, h, Columns, n)
      [] s = "context1" -> Whole(op, h)
      [] OTHER -> 0
ReachAt(s, itr, n, op, h) ==
    IF h < itr \/ s = "done" THEN Whole(op, h)
    ELSE IF h = itr THEN OfHead0(s, h, n, op)
    ELSE IF h = itr + 1 THEN OfHead1(s, h, n, op) ELSE 0
Reach(op, h) == ReachAt(section, i, j, op, h)

(* The kinds of block whose order and number matter; the contexts of Head0 *)
(* are written twice.                                                      *)
OnceKinds == {"score-wrgb", "score-mac", "score-mvsb", "sfm", "context-mvgb"}
Kinds == OnceKinds \cup {"context-mac", "context-mvsb"}
Feeders == {"score-wrgb", "score-mac", "context-mvgb", "context-mac"}

Blocks == [op : Ops, head : 0..NumItr - 1, n : Nat]
Nums(s, op, h) == {s[k].n : k \in {l \in DOMAIN s : s[l].op = op /\ s[l].head = h}}

Progress ==
    \A op \in Kinds, h \in 0..NumItr - 1 :
        Nums(total_cmd, op, h) = 0..Reach(op, h) - 1

(* Blocks of one kind and head come in the order of their numbers.         *)
Rising(s) ==
    \A k, l \in DOMAIN s :
        k < l /\ s[k].op = s[l].op /\ s[k].head = s[l].head /\ s[k].op \in OnceKinds
        => s[k].n < s[l].n

(* A barrier follows every block that another takes input from.            *)
Sealed(s) ==
    \A k \in DOMAIN s : s[k].op \in Feeders => \E l \in k + 1..Len(s) : s[l] = Barrier[1]

IInv ==
    /\ Where
    /\ total_cmd \in Seq(Blocks)
    /\ Progress
    /\ Rising(total_cmd)
    /\ Sealed(total_cmd)
    /\ DataflowKept

----------------------------------------------------------------------------
(* Sizes. *)

LEMMA DivBounds ==
    ASSUME NEW a \in Nat, NEW b \in Nat \ {0}
    PROVE  /\ a \div b \in Nat
           /\ (a \div b) * b <= a
           /\ a < (a \div b + 1) * b
  BY Z3

LEMMA CeilDivBounds ==
    ASSUME NEW a \in Nat, NEW b \in Nat \ {0}
    PROVE  /\ CeilDiv(a, b) \in Nat
           /\ CeilDiv(a, b) * b >= a
           /\ a > 0 => CeilDiv(a, b) > 0 /\ (CeilDiv(a, b) - 1) * b < a
<1> DEFINE q == (a + b - 1) \div b
<1>1. /\ q \in Nat
      /\ q * b <= a + b - 1
      /\ a + b - 1 < (q + 1) * b
  BY DivBounds
<1>2. CeilDiv(a, b) = q
  BY DEF CeilDiv
<1> HIDE DEF q
<1>3. (q + 1) * b = q * b + b /\ (q - 1) * b = q * b - b /\ q * b \in Nat
  BY <1>1
<1>4. q = 0 => q * b = 0
  BY <1>1
<1> QED
  BY <1>1, <1>2, <1>3, <1>4

(* Rounding up by two numbers in turn is rounding up by their product.     *)
LEMMA CeilDivTwice ==
    ASSUME NEW a \in Nat \ {0}, NEW b \in Nat \ {0}, NEW c \in Nat \ {0}
    PROVE  /\ CeilDiv(a, b) <= CeilDiv(a, b * c) * c
           /\ (CeilDiv(a, b * c) - 1) * c < CeilDiv(a, b)
<1> DEFINE o == CeilDiv(a, b)
           r == CeilDiv(a, b * c)
<1>1. b * c \in Nat \ {0}
  OBVIOUS
<1>2. o \in Nat /\ o * b >= a /\ (o - 1) * b < a
  BY CeilDivBounds
<1>3. r \in Nat /\ r * (b * c) >= a /\ (r - 1) * (b * c) < a
  BY <1>1, CeilDivBounds
<1> HIDE DEF o, r
<1> DEFINE u == r * c
           v == (r - 1) * c
<1>4. u \in Int /\ v \in Int /\ r * (b * c) = u * b /\ (r - 1) * (b * c) = v * b
  BY <1>3
<1>5. u * b >= a /\ v * b < a
  BY <1>3, <1>4
<1> HIDE DEF u, v
<1>6. ~(o > u)
  <2> SUFFICES ASSUME o - 1 >= u PROVE FALSE
    BY <1>2, <1>4
  <2>1. (o - 1) * b >= u * b
    BY <1>2, <1>4
  <2> QED
    BY <1>2, <1>4, <1>5, <2>1
<1>7. ~(v >= o)
  <2> SUFFICES ASSUME v >= o PROVE FALSE
    OBVIOUS
  <2>1. v * b >= o * b
    BY <1>2, <1>4
  <2> QED
    BY <1>2, <1>4, <1>5, <2>1
<1> QED
  BY <1>2, <1>4, <1>6, <1>7 DEF o, r, u, v

(* A vector of a given size cut over a number of beats, rounded down.      *)
LEMMA SliceBounds ==
    ASSUME NEW size \in Nat, NEW beats \in Nat \ {0}, NEW n \in Nat, n <= beats
    PROVE  LET one == size \div beats IN
           /\ one \in Nat /\ n * one \in Nat
           /\ n * one <= size /\ (n + 1) * one = n * one + one
           /\ beats * one + beats > size
<1> DEFINE one == size \div beats
<1>1. one \in Nat /\ one * beats <= size /\ size < (one + 1) * beats
  BY DivBounds
<1> HIDE DEF one
<1>2. n * one <= beats * one /\ n * one \in Nat
  BY <1>1
<1>3. beats * one = one * beats /\ (one + 1) * beats = one * beats + beats
      /\ (n + 1) * one = n * one + one
  BY <1>1
<1> QED
  BY <1>1, <1>2, <1>3 DEF one

(* What the arguments of a run come to.                                    *)
LEMMA Sizes ==
    ASSUME p \in Params
    PROVE  /\ NumItr \in Nat \ {0} /\ Outputs \in Nat \ {0} /\ Columns \in Nat \ {0}
           /\ Rounds \in Nat \ {0}
           /\ Outputs <= Rounds * Group /\ (Rounds - 1) * Group < Outputs
           /\ \A h \in Nat : Words(h) \in Nat /\ Moves(h) \in Nat
<1>1. /\ p.L \in Nat \ {0} /\ p.dhead \in Nat \ {0} /\ p.heads \in Nat \ {0}
      /\ Group \in Nat \ {0}
  BY TraceAssumption
<1>2. /\ Channels \in Nat \ {0} /\ Pchs \in Nat \ {0} /\ Banks \in Nat \ {0}
      /\ Macs \in Nat \ {0} /\ Ranks \in Nat \ {0} /\ Bgs \in Nat \ {0}
  BY AddressAssumption
<1>3. Partitions \in Nat \ {0} /\ Units \in Nat \ {0} /\ Banks * Macs \in Nat \ {0}
  <2>1. \A a, b \in Nat \ {0} : a * b \in Nat \ {0}
    OBVIOUS
  <2>2. Partitions \in Nat \ {0}
    BY <1>2, <2>1 DEF Partitions
  <2> QED
    BY <1>2, <2>1, <2>2 DEF Units
<1>4. \A a, b \in Nat \ {0} : CeilDiv(a, b) \in Nat \ {0}
  BY CeilDivBounds
<1>5. NumItr \in Nat \ {0} /\ Outputs \in Nat \ {0}
  BY <1>1, <1>2, <1>3, <1>4 DEF NumItr, Outputs
<1>6. Columns \in Nat \ {0}
  BY <1>1, <1>2, <1>3, <1>4 DEF Columns
<1>7. Rounds \in Nat \ {0} /\ Outputs <= Rounds * Group /\ (Rounds - 1) * Group < Outputs
  <2>1. Units * Group \in Nat \ {0}
    BY <1>1, <1>3
  <2> QED
    BY <1>1, <1>3, <1>4, <2>1, CeilDivTwice DEF Rounds, Outputs
<1>8. ASSUME NEW h \in Nat PROVE Words(h) \in Nat /\ Moves(h) \in Nat
  <2>1. ValidChannels(h) \in Nat
    BY <1>1, <1>2 DEF ValidChannels
  <2>2. \A a, b \in Nat : a * b \in Nat
    OBVIOUS
  <2>3. CeilDiv(p.L, Units * Macs) \in Nat
    BY <1>1, <1>2, <1>3, <1>4
  <2> QED
    BY <1>2, <1>3, <1>6, <2>1, <2>2, <2>3 DEF Words, Moves
<1> QED
  BY <1>5, <1>6, <1>7, <1>8

----------------------------------------------------------------------------
(***************************************************************************)
(* What is written at a time: runs of blocks of one kind and head, with    *)
(* consecutive numbers from a up to and without b, one after the other.    *)
(***************************************************************************)
IsRun(s, op, h, a, b) ==
    /\ s \in Seq(Blocks) /\ Len(s) = (IF a < b THEN b - a ELSE 0)
    /\ \A k \in DOMAIN s : s[k] = Block(op, h, a + k - 1)

(* Rising, and no softmax after what it has computed was moved.            *)
InOrder(s) ==
    /\ Rising(s)
    /\ \A k, l \in DOMAIN s : k < l /\ s[k].op = "context-mvgb" => s[l].op # "sfm"

Apart(s, t) ==
    \A k \in DOMAIN s, l \in DOMAIN t :
        /\ s[k].op \in OnceKinds => s[k].op # t[l].op \/ s[k].head # t[l].head
        /\ ~(s[k].op = "context-mvgb" /\ t[l].op = "sfm")

LEMMA PlacesInConcat ==
    ASSUME NEW S, NEW s \in Seq(S), NEW t \in Seq(S)
    PROVE  /\ s \o t \in Seq(S) /\ Len(s \o t) = Len(s) + Len(t)
           /\ Len(s) \in Nat /\ Len(t) \in Nat
           /\ DOMAIN s = 1..Len(s) /\ DOMAIN t = 1..Len(t)
           /\ DOMAIN (s \o t) = 1..Len(s) + Len(t)
           /\ \A k \in DOMAIN s : k \in DOMAIN (s \o t) /\ (s \o t)[k] = s[k]
           /\ \A k \in DOMAIN t : /\ Len(s) + k \in DOMAIN (s \o t)
                                  /\ (s \o t)[Len(s) + k] = t[k]
           /\ \A k \in DOMAIN (s \o t) :
                 \/ k \in DOMAIN s /\ (s \o t)[k] = s[k]
                 \/ /\ k > Len(s) /\ k - Len(s) \in DOMAIN t
                    /\ (s \o t)[k] = t[k - Len(s)]
  OBVIOUS

LEMMA ConcatNums ==
    ASSUME NEW S, NEW s \in Seq(S), NEW t \in Seq(S), NEW op, NEW h
    PROVE  Nums(s \o t, op, h) = Nums(s, op, h) \cup Nums(t, op, h)
<1> DEFINE u == s \o t
<1>1. /\ \A k \in DOMAIN s : k \in DOMAIN u /\ u[k] = s[k]
      /\ \A k \in DOMAIN t : Len(s) + k \in DOMAIN u /\ u[Len(s) + k] = t[k]
      /\ \A k \in DOMAIN u : \/ k \in DOMAIN s /\ u[k] = s[k]
                             \/ k - Len(s) \in DOMAIN t /\ u[k] = t[k - Len(s)]
  BY PlacesInConcat
<1> HIDE DEF u
<1>2. Nums(s, op, h) \subseteq Nums(u, op, h)
  BY <1>1 DEF Nums
<1>3. Nums(t, op, h) \subseteq Nums(u, op, h)
  BY <1>1 DEF Nums
<1>4. Nums(u, op, h) \subseteq Nums(s, op, h) \cup Nums(t, op, h)
  BY <1>1 DEF Nums
<1> QED
  BY <1>2, <1>3, <1>4 DEF u

LEMMA ConcatInOrder ==
    ASSUME NEW S, NEW s \in Seq(S), NEW t \in Seq(S),
           InOrder(s), InOrder(t), Apart(s, t)
    PROVE  InOrder(s \o t)
<1> DEFINE u == s \o t
           m == Len(s)
<1>1. /\ m \in Nat /\ DOMAIN s = 1..m /\ DOMAIN t = 1..Len(t) /\ Len(t) \in Nat
      /\ DOMAIN u = 1..m + Len(t)
      /\ \A k \in DOMAIN u : \/ k \in DOMAIN s /\ u[k] = s[k]
                             \/ k > m /\ k - m \in DOMAIN t /\ u[k] = t[k - m]
  BY PlacesInConcat
<1> HIDE DEF u, m
<1> SUFFICES ASSUME NEW k \in DOMAIN u, NEW l \in DOMAIN u, k < l
             PROVE  /\ u[k].op = u[l].op /\ u[k].head = u[l].head /\ u[k].op \in OnceKinds
                       => u[k].n < u[l].n
                    /\ u[k].op = "context-mvgb" => u[l].op # "sfm"
  BY DEF InOrder, Rising, u
<1>2. CASE k \in DOMAIN s /\ u[k] = s[k]
  <2>1. CASE l \in DOMAIN s /\ u[l] = s[l]
    BY <1>2, <2>1 DEF InOrder, Rising
  <2>2. CASE l > m /\ l - m \in DOMAIN t /\ u[l] = t[l - m]
    BY <1>2, <2>2 DEF Apart
  <2> QED
    BY <1>1, <2>1, <2>2
<1>3. CASE k > m /\ k - m \in DOMAIN t /\ u[k] = t[k - m]
  <2>1. l > m /\ l - m \in DOMAIN t /\ u[l] = t[l - m] /\ k - m < l - m
    BY <1>1, <1>3
  <2> QED
    BY <1>3, <2>1 DEF InOrder, Rising
<1> QED
  BY <1>1, <1>2, <1>3

LEMMA RunProperties ==
    ASSUME NEW s, NEW o, NEW g, NEW a \in Nat, NEW b \in Nat, IsRun(s, o, g, a, b)
    PROVE  /\ s \in Seq(Blocks) /\ InOrder(s)
           /\ \A k \in DOMAIN s : s[k].op = o /\ s[k].head = g
           /\ \A op, h : Nums(s, op, h) = IF op = o /\ h = g THEN a..b - 1 ELSE {}
<1>1. /\ s \in Seq(Blocks) /\ DOMAIN s = 1..Len(s)
      /\ \A k \in DOMAIN s : s[k].op = o /\ s[k].head = g /\ s[k].n = a + k - 1
  BY DEF IsRun, Block
<1>2. InOrder(s)
  BY <1>1 DEF InOrder, Rising
<1>3. Nums(s, o, g) = a..b - 1
  <2>1. Nums(s, o, g) = {a + k - 1 : k \in 1..Len(s)}
    BY <1>1 DEF Nums
  <2>2. Len(s) = (IF a < b THEN b - a ELSE 0)
    BY DEF IsRun
  <2>3. {a + k - 1 : k \in 1..Len(s)} \subseteq a..b - 1
    BY <2>2
  <2>4. ASSUME NEW n \in a..b - 1
        PROVE  n \in {a + k - 1 : k \in 1..Len(s)}
    <3>1. n - a + 1 \in 1..Len(s) /\ n = a + (n - a + 1) - 1
      BY <2>2
    <3> QED
      BY <3>1
  <2> QED
    BY <2>1, <2>3, <2>4
<1>4. ASSUME NEW op, NEW h, ~(op = o /\ h = g)
      PROVE  Nums(s, op, h) = {}
  BY <1>1, <1>4 DEF Nums
<1> QED
  BY <1>1, <1>2, <1>3, <1>4

(* The runs the commands are written in. *)
LEMMA NoRun ==
    ASSUME NEW op, NEW h, NEW a \in Nat
    PROVE  IsRun(<<>>, op, h, a, a)
  BY DEF IsRun

LEMMA OneRun ==
    ASSUME NEW op \in Ops, NEW h \in 0..NumItr - 1, NEW n \in Nat
    PROVE  IsRun(<<Block(op, h, n)>>, op, h, n, n + 1)
<1>1. Block(op, h, n) \in Blocks
  BY DEF Block, Blocks
<1> QED
  BY <1>1 DEF IsRun

LEMMA ListRun ==
    ASSUME NEW op \in Ops, NEW h \in 0..NumItr - 1, NEW size \in Nat
    PROVE  /\ IsRun(List(op, h, size), op, h, 0, size)
           /\ Len(List(op, h, size)) = size
<1> DEFINE s == List(op, h, size)
<1>1. \A k \in 1..size : s[k] = Block(op, h, k - 1) /\ s[k] \in Blocks
  BY DEF List, Block, Blocks
<1>2. s \in Seq(Blocks) /\ Len(s) = size /\ DOMAIN s = 1..size
  BY <1>1 DEF List
<1> QED
  BY <1>1, <1>2 DEF IsRun

LEMMA SliceRun ==
    ASSUME NEW op \in Ops, NEW h \in 0..NumItr - 1, NEW size \in Nat,
           NEW n \in Nat, NEW one \in Nat, n * one <= size
    PROVE  IsRun(Slice(List(op, h, size), n, one), op, h, n * one,
                 Least((n + 1) * one, size))
<1> DEFINE s == List(op, h, size)
           a == n * one
           b == (n + 1) * one
           e == Least(b, size)
           t == SubSeq(s, a + 1, e)
<1>1. s \in Seq(Blocks) /\ Len(s) = size /\ \A k \in 1..size : s[k] = Block(op, h, k - 1)
  <2>1. IsRun(s, op, h, 0, size) /\ Len(s) = size
    BY ListRun
  <2> QED
    BY <2>1 DEF IsRun
<1>2. Slice(s, n, one) = t
  BY <1>1 DEF Slice, Least
<1>3. a \in Nat /\ b \in Nat /\ b = a + one /\ e \in Nat /\ a <= e /\ e <= size
  BY DEF Least
<1> HIDE DEF s, a, b, e
<1>4. /\ t \in Seq(Blocks) /\ Len(t) = (IF a < e THEN e - a ELSE 0)
      /\ \A k \in DOMAIN t : t[k] = s[a + k] /\ a + k \in 1..size
  <2>1. a + 1 \in 1..size + 1 /\ e \in a..size
    BY <1>3
  <2>2. t \in Seq(Blocks) /\ Len(t) = (IF a < e THEN e - a ELSE 0)
    BY <1>1, <1>3, <2>1
  <2>3. DOMAIN t = 1..e - a
    BY <1>1, <1>3, <2>1
  <2>4. \A k \in 1..e - a : t[k] = s[a + k]
    <3>1. a + 1 \in 1..Len(s) + 1 /\ e \in a + 1 - 1..Len(s)
      BY <1>1, <1>3, <2>1
    <3>2. \A k \in 1..e - (a + 1) + 1 : t[k] = s[a + 1 + k - 1]
      BY <1>1, <3>1, SubSeqProperties
    <3>3. e - (a + 1) + 1 = e - a /\ \A k \in 1..e - a : a + 1 + k - 1 = a + k
      BY <1>3
    <3> QED
      BY <3>2, <3>3
  <2> QED
    BY <1>3, <2>2, <2>3, <2>4
<1>5. \A k \in DOMAIN t : t[k] = Block(op, h, a + k - 1)
  <2>1. \A k \in DOMAIN t : k \in Nat
    BY <1>4
  <2> QED
    BY <1>1, <1>3, <1>4, <2>1
<1>6. IsRun(t, op, h, a, e)
  BY <1>4, <1>5 DEF IsRun
<1> QED
  BY <1>2, <1>6 DEF s, a, b, e

(* Pieces of one beat are apart if their kinds or their heads are.         *)
LEMMA ApartConcat ==
    ASSUME NEW S, NEW s \in Seq(S), NEW t \in Seq(S), NEW u, Apart(s, u), Apart(t, u)
    PROVE  Apart(s \o t, u)
<1>1. \A k \in DOMAIN (s \o t) :
          \/ k \in DOMAIN s /\ (s \o t)[k] = s[k]
          \/ k - Len(s) \in DOMAIN t /\ (s \o t)[k] = t[k - Len(s)]
  BY PlacesInConcat
<1> DEFINE v == s \o t
<1> HIDE DEF v
<1>2. ASSUME NEW k \in DOMAIN v, NEW l \in DOMAIN u
      PROVE  /\ v[k].op \in OnceKinds => v[k].op # u[l].op \/ v[k].head # u[l].head
             /\ ~(v[k].op = "context-mvgb" /\ u[l].op = "sfm")
  BY <1>1 DEF Apart, v
<1> QED
  BY <1>2 DEF Apart, v

LEMMA BarrierProperties ==
    ASSUME p \in Params, NEW s, s = Barrier \/ s = <<>>
    PROVE  /\ s \in Seq(Blocks) /\ InOrder(s)
           /\ \A op \in Kinds : \A h : Nums(s, op, h) = {}
           /\ \A k \in DOMAIN s : s[k].op = "barrier"
<1>1. Block("barrier", 0, 0) \in Blocks
  BY Sizes DEF Block, Blocks, Ops
<1>2. s \in Seq(Blocks) /\ \A k \in DOMAIN s : s[k].op = "barrier"
  <2> DEFINE x == Block("barrier", 0, 0)
  <2>1. x.op = "barrier"
    BY DEF Block
  <2> HIDE DEF x
  <2>2. <<x>> \in Seq(Blocks) /\ \A k \in DOMAIN <<x>> : <<x>>[k].op = "barrier"
    BY <1>1, <2>1 DEF x
  <2>3. Barrier = <<x>>
    BY DEF Barrier, x
  <2>4. <<>> \in Seq(Blocks) /\ DOMAIN <<>> = {}
    OBVIOUS
  <2>5. CASE s = Barrier
    BY <2>2, <2>3, <2>5
  <2>6. CASE s = <<>>
    BY <2>4, <2>6
  <2> QED
    BY <2>5, <2>6
<1> QED
  BY <1>2 DEF InOrder, Rising, Nums, Kinds, OnceKinds

(* A beat: runs that are apart, and a barrier or none.                     *)
LEMMA BeatProperties ==
    ASSUME p \in Params,
           NEW m \in Seq(Blocks), NEW v \in Seq(Blocks), NEW e \in Seq(Blocks), NEW b,
           InOrder(m), InOrder(v), InOrder(e), Apart(m, v), Apart(m, e), Apart(v, e),
           b = Barrier \/ b = <<>>
    PROVE  LET s == m \o v \o e \o b IN
           /\ s \in Seq(Blocks) /\ InOrder(s)
           /\ \A op \in Kinds : \A h :
                 Nums(s, op, h) = Nums(m, op, h) \cup Nums(v, op, h) \cup Nums(e, op, h)
           /\ b = Barrier => Sealed(s)
           /\ b = <<>> /\ (\A op \in Feeders : \A h : Nums(m \o v \o e, op, h) = {}) => Sealed(s)
<1> DEFINE mv == m \o v
           mve == mv \o e
           s == mve \o b
<1>1. /\ b \in Seq(Blocks) /\ InOrder(b)
      /\ \A op \in Kinds : \A h : Nums(b, op, h) = {}
      /\ \A k \in DOMAIN b : b[k].op = "barrier"
  BY BarrierProperties
<1>2. mv \in Seq(Blocks) /\ InOrder(mv)
  BY ConcatInOrder
<1>3. mve \in Seq(Blocks) /\ InOrder(mve)
  <2>1. Apart(mv, e)
    BY ApartConcat
  <2> HIDE DEF mv
  <2> QED
    BY <1>2, <2>1, ConcatInOrder
<1>4. s \in Seq(Blocks) /\ InOrder(s)
  <2>1. Apart(mve, b)
    BY <1>1 DEF Apart, OnceKinds
  <2> HIDE DEF mve
  <2> QED
    BY <1>1, <1>3, <2>1, ConcatInOrder
<1>5. ASSUME NEW op \in Kinds, NEW h
      PROVE  Nums(s, op, h) = Nums(m, op, h) \cup Nums(v, op, h) \cup Nums(e, op, h)
  <2>1. Nums(mv, op, h) = Nums(m, op, h) \cup Nums(v, op, h)
    BY ConcatNums
  <2>2. Nums(mve, op, h) = Nums(mv, op, h) \cup Nums(e, op, h)
    <3> HIDE DEF mv
    <3> QED
      BY <1>2, ConcatNums
  <2>3. Nums(s, op, h) = Nums(mve, op, h) \cup Nums(b, op, h)
    <3> HIDE DEF mve
    <3> QED
      BY <1>1, <1>3, ConcatNums
  <2> QED
    BY <1>1, <2>1, <2>2, <2>3
<1>6. ASSUME b = Barrier PROVE Sealed(s)
  <2> HIDE DEF mve, s
  <2>1. Len(b) = 1 /\ b[1] = Barrier[1] /\ b \in Seq(Blocks)
    BY <1>1, <1>6 DEF Barrier
  <2>2. /\ Len(s) = Len(mve) + 1 /\ Len(mve) \in Nat /\ DOMAIN mve = 1..Len(mve)
        /\ s[Len(mve) + 1] = Barrier[1]
        /\ \A k \in DOMAIN s : k \in 1..Len(mve) + 1
    <3>1. /\ Len(mve) \in Nat /\ DOMAIN mve = 1..Len(mve) /\ DOMAIN b = 1..Len(b)
          /\ Len(mve \o b) = Len(mve) + Len(b)
          /\ DOMAIN (mve \o b) = 1..Len(mve) + Len(b)
          /\ \A k \in DOMAIN b : (mve \o b)[Len(mve) + k] = b[k]
      <4>1. mve \in Seq(Blocks) /\ b \in Seq(Blocks)
        BY <1>3, <2>1
      <4> QED
        BY ONLY <4>1, PlacesInConcat, SMTT(30)
    <3> QED
      BY <2>1, <3>1 DEF s
  <2>3. Barrier[1].op = "barrier"
    BY DEF Barrier, Block
  <2> QED
    BY <2>2, <2>3 DEF Sealed, Feeders
<1>7. ASSUME b = <<>>, \A op \in Feeders : \A h : Nums(mve, op, h) = {}
      PROVE  Sealed(s)
  <2>1. s = mve
    BY <1>3, <1>7
  <2>2. ASSUME NEW k \in DOMAIN mve PROVE mve[k].op \notin Feeders
    <3>1. mve[k].n \in Nums(mve, mve[k].op, mve[k].head)
      BY DEF Nums
    <3> QED
      BY <1>7, <3>1
  <2> QED
    BY <2>1, <2>2 DEF Sealed
<1> QED
  BY <1>4, <1>5, <1>6, <1>7

----------------------------------------------------------------------------
(* The numbers reached are numbers.                                        *)
LEMMA LateType ==
    ASSUME NEW size \in Nat, NEW length \in Nat \ {0}, NEW n \in Nat
    PROVE  Late(size, length, n) \in Nat
<1>1. length \div 2 \in Nat /\ CeilDiv(length, 2) \in Nat \ {0}
  BY DivBounds, CeilDivBounds
<1> DEFINE half == length \div 2
           one == size \div CeilDiv(length, 2)
<1>2. one \in Nat
  BY <1>1, DivBounds
<1> HIDE DEF half, one
<1>3. n >= half => n - half \in Nat /\ (n - half) * one \in Nat
  BY <1>1, <1>2 DEF half
<1> QED
  BY <1>1, <1>3 DEF Late, half, one

LEMMA PartType ==
    ASSUME p \in Params, NEW size \in Nat, NEW n \in Nat
    PROVE  Part(size, n) \in Nat
<1>1. size \div Rounds \in Nat
  BY Sizes, DivBounds
<1> QED
  BY <1>1 DEF Part

LEMMA WholeType ==
    ASSUME p \in Params, NEW op, NEW h \in Nat
    PROVE  Whole(op, h) \in Nat
  BY Sizes, PartType, LateType DEF Whole

LEMMA ReachAtType ==
    ASSUME p \in Params, NEW s, NEW g, NEW n \in Nat, NEW op, NEW h \in Nat
    PROVE  ReachAt(s, g, n, op, h) \in Nat
<1>1. /\ Rounds \in Nat \ {0} /\ Columns \in Nat \ {0} /\ Outputs \in Nat
      /\ Words(h) \in Nat /\ Moves(h) \in Nat
  BY Sizes
<1>2. /\ Before(n) \in Nat /\ Least(n, Rounds) \in Nat /\ Least(n, Columns) \in Nat
      /\ Least(n * Group, Outputs) \in Nat
  BY <1>1, TraceAssumption DEF Before, Least
<1>3. Whole(op, h) \in Nat /\ Scored(op, h) \in Nat
  BY WholeType DEF Scored
<1>4. Scoring(op, h, n) \in Nat
  BY <1>2, <1>3 DEF Scoring
<1>5. Softened(op, h, Rounds, n) \in Nat /\ Softened(op, h, Columns, n) \in Nat
  <2>1. /\ Late(Moves(h), Rounds, Least(n, Rounds)) \in Nat
        /\ Late(Moves(h), Columns, Least(n, Columns)) \in Nat
    BY <1>1, <1>2, LateType
  <2> QED
    BY <1>3, <2>1 DEF Softened
<1>6. Contexting(op, h, n) \in Nat
  BY <1>2, <1>3 DEF Contexting
<1>7. Part(Words(h), Least(n, Rounds)) \in Nat
  BY <1>1, <1>2, PartType
<1> QED
  BY <1>3, <1>4, <1>5, <1>6, <1>7 DEF ReachAt, OfHead0, OfHead1

LEMMA ReachType == Where => \A op : \A h \in Nat : Reach(op, h) \in Nat
  BY ReachAtType DEF Where, Reach

(* After a step of the same run. *)
LEMMA ReachNext ==
    ASSUME p' = p
    PROVE  \A op, h : Reach(op, h)' = ReachAt(section', i', j', op, h)
<1>1. /\ NumItr' = NumItr /\ Units' = Units /\ Outputs' = Outputs
      /\ Columns' = Columns /\ Rounds' = Rounds
      /\ \A h : ValidChannels(h)' = ValidChannels(h)
  BY DEF NumItr, Outputs, Columns, Rounds, ValidChannels, Units
<1>2. \A h : Words(h)' = Words(h) /\ Moves(h)' = Moves(h)
  <2> SUFFICES ASSUME NEW h PROVE Words(h)' = Words(h) /\ Moves(h)' = Moves(h)
    OBVIOUS
  <2> DEFINE n == ValidChannels(h)
  <2>1. n' = n
    BY <1>1
  <2> HIDE DEF n
  <2>2. Words(h)' = Words(h)
    BY <1>1, <2>1, Zenon DEF Words, n
  <2>3. Moves(h)' = Moves(h)
    BY <1>1, <2>1, Zenon DEF Moves, n
  <2> QED
    BY <2>2, <2>3
<1>3. \A op, h : Whole(op, h)' = Whole(op, h)
  BY <1>1, <1>2 DEF Whole, Part
<1> QED
  BY <1>1, <1>2, <1>3
     DEF Reach, ReachAt, OfHead0, OfHead1, Scoring, Scored, Softened, Contexting, Part

(***************************************************************************)
(* What a step may write: blocks that go on where those before have ended  *)
(* (or the contexts of Head0 again), none of them too late for a block     *)
(* that takes input from it.                                               *)
(***************************************************************************)
Advances(s, op, h) ==
    \/ Reach(op, h) <= Reach(op, h)' /\ Nums(s, op, h) = Reach(op, h)..Reach(op, h)' - 1
    \/ /\ op \notin OnceKinds /\ Reach(op, h)' = Reach(op, h)
       /\ Nums(s, op, h) \subseteq 0..Reach(op, h) - 1

InTime(s, h) ==
    /\ Nums(s, "score-wrgb", h) # {} => Reach("score-mac", h)' = 0
    /\ \A n \in Nums(s, "score-mac", h) : Reach("score-mvsb", h)' <= n \div Group
    /\ Nums(s, "context-mvgb", h) # {} => Reach("context-mac", h)' = 0
    /\ \A n \in Nums(s, "context-mac", h) :
          Reach("context-mvsb", h)' <= n \/ n < Reach("context-mac", h)
    /\ Nums(s, "score-mvsb", h) # {} => Reach("sfm", h)' = 0
    /\ Nums(s, "sfm", h) # {} => Reach("context-mvgb", h) = 0

Writes(s) ==
    /\ p' = p /\ total_cmd' = total_cmd \o s
    /\ s \in Seq(Blocks) /\ InOrder(s) /\ Sealed(s)
    /\ \A h \in 0..NumItr - 1 : InTime(s, h) /\ \A op \in Kinds : Advances(s, op, h)

LEMMA ProgressStep ==
    ASSUME IInv, Where', NEW s, Writes(s)
    PROVE  Progress' /\ Rising(total_cmd')
<1>1. /\ total_cmd \in Seq(Blocks) /\ s \in Seq(Blocks) /\ InOrder(s)
      /\ total_cmd' = total_cmd \o s
  BY DEF IInv, Writes
<1>2. \A op, h : Nums(total_cmd', op, h) = Nums(total_cmd, op, h) \cup Nums(s, op, h)
  BY <1>1, ConcatNums
<1>3. NumItr' = NumItr /\ NumItr \in Nat
  BY Sizes DEF Writes, NumItr, IInv, Where
<1>4. \A op : \A h \in Nat : Reach(op, h) \in Nat /\ Reach(op, h)' \in Nat
  <2>1. (Where => \A op : \A h \in Nat : Reach(op, h) \in Nat)'
    BY ReachType, PTL
  <2> QED
    BY <2>1, ReachType DEF IInv
<1>5. ASSUME NEW op \in Kinds, NEW h \in 0..NumItr - 1
      PROVE  /\ Nums(total_cmd, op, h) = 0..Reach(op, h) - 1
             /\ Nums(total_cmd', op, h) = 0..Reach(op, h)' - 1
             /\ op \in OnceKinds =>
                   Nums(s, op, h) = Reach(op, h)..Reach(op, h)' - 1
  <2> DEFINE a == Reach(op, h)
             b == Reach(op, h)'
  <2>1. Nums(total_cmd, op, h) = 0..a - 1
    BY DEF IInv, Progress
  <2>2. a \in Nat /\ b \in Nat
    BY <1>3, <1>4
  <2>3. \/ a <= b /\ Nums(s, op, h) = a..b - 1
        \/ op \notin OnceKinds /\ b = a /\ Nums(s, op, h) \subseteq 0..a - 1
    BY DEF Writes, Advances
  <2>4. Nums(total_cmd', op, h) = Nums(total_cmd, op, h) \cup Nums(s, op, h)
    BY <1>2
  <2> HIDE DEF a, b
  <2>5. Nums(total_cmd', op, h) = 0..b - 1
    BY <2>1, <2>2, <2>3, <2>4
  <2> QED
    BY <2>1, <2>3, <2>5 DEF a, b
<1>6. Progress'
  <2>1. \A op \in Kinds, h \in 0..NumItr' - 1 :
            Nums(total_cmd', op, h) = 0..Reach(op, h)' - 1
    BY <1>3, <1>5
  <2> QED
    BY <2>1 DEF Progress
<1>7. Rising(total_cmd')
  <2> DEFINE t == total_cmd
             u == total_cmd'
             m == Len(t)
  <2>1. /\ m \in Nat /\ DOMAIN t = 1..m /\ DOMAIN s = 1..Len(s) /\ Len(s) \in Nat
        /\ DOMAIN u = 1..m + Len(s)
        /\ \A k \in DOMAIN u : \/ k \in DOMAIN t /\ u[k] = t[k]
                               \/ k > m /\ k - m \in DOMAIN s /\ u[k] = s[k - m]
    BY ONLY <1>1, PlacesInConcat
  <2>2. \A k \in DOMAIN t : t[k].head \in 0..NumItr - 1
    <3>1. \A k \in DOMAIN t : t[k] \in Blocks
      BY <1>1
    <3> QED
      BY <3>1 DEF Blocks
  <2>3. Rising(t) /\ Rising(s)
    BY DEF IInv, Writes, InOrder
  <2>4. ASSUME NEW k \in DOMAIN t, NEW l \in DOMAIN s, t[k].op = s[l].op,
               t[k].head = s[l].head, t[k].op \in OnceKinds
        PROVE  t[k].n < s[l].n
    <3> SUFFICES ASSUME NEW o \in OnceKinds, NEW h \in 0..NumItr - 1,
                        o = t[k].op, h = t[k].head
                 PROVE  t[k].n < s[l].n
      BY <2>2, <2>4
    <3>1. t[k].n \in Nums(t, o, h) /\ s[l].n \in Nums(s, o, h)
      BY <2>4 DEF Nums
    <3>2. Nums(t, o, h) = 0..Reach(o, h) - 1 /\ Nums(s, o, h) = Reach(o, h)..Reach(o, h)' - 1
      BY <1>5 DEF Kinds
    <3>3. Reach(o, h) \in Nat /\ Reach(o, h)' \in Nat
      BY <1>3, <1>4
    <3> QED
      BY <3>1, <3>2, <3>3
  <2> HIDE DEF t, u, m
  <2> SUFFICES ASSUME NEW k \in DOMAIN u, NEW l \in DOMAIN u, k < l,
                      u[k].op = u[l].op, u[k].head = u[l].head, u[k].op \in OnceKinds
               PROVE  u[k].n < u[l].n
    BY DEF Rising, u
  <2>5. CASE k \in DOMAIN t /\ u[k] = t[k]
    <3>1. CASE l \in DOMAIN t /\ u[l] = t[l]
      BY <2>3, <2>5, <3>1 DEF Rising
    <3>2. CASE l > m /\ l - m \in DOMAIN s /\ u[l] = s[l - m]
      BY <2>4, <2>5, <3>2
    <3> QED
      BY <2>1, <3>1, <3>2
  <2>6. CASE k > m /\ k - m \in DOMAIN s /\ u[k] = s[k - m]
    <3>1. l > m /\ l - m \in DOMAIN s /\ u[l] = s[l - m] /\ k - m < l - m
      BY <2>1, <2>6
    <3> QED
      BY <2>3, <2>6, <3>1 DEF Rising
  <2> QED
    BY <2>1, <2>5, <2>6
<1> QED
  BY <1>6, <1>7

(* What DataflowKept says of two blocks that are there. *)
LEMMA FlowOfTwo ==
    ASSUME DataflowKept, NEW e \in DOMAIN total_cmd, NEW b \in DOMAIN total_cmd
    PROVE  /\ Feeds(total_cmd[e], total_cmd[b]) =>
                 \E a \in 1..b - 1 : /\ total_cmd[a] = total_cmd[e]
                                     /\ \E k \in a + 1..b - 1 : total_cmd[k] = Barrier[1]
           /\ ComesFirst(total_cmd[e], total_cmd[b]) =>
                 \E a \in 1..b - 1 : total_cmd[a] = total_cmd[e]
<1>1. total_cmd[e] \in Emitted
  BY DEF Emitted, ToSet
<1> QED
  BY <1>1 DEF DataflowKept, BarrierBetween

(* An element of what is written, by its number.                           *)
LEMMA NumOf ==
    ASSUME NEW s, NEW k \in DOMAIN s, NEW op, NEW h, s[k].op = op, s[k].head = h
    PROVE  s[k].n \in Nums(s, op, h)
  BY DEF Nums

LEMMA FlowStep ==
    ASSUME IInv, Where', NEW s, Writes(s), Progress'
    PROVE  DataflowKept' /\ Sealed(total_cmd')
<1> DEFINE t == total_cmd
           u == total_cmd'
           m == Len(t)
<1>1. /\ t \in Seq(Blocks) /\ s \in Seq(Blocks) /\ u = t \o s
      /\ Sealed(t) /\ Sealed(s) /\ InOrder(s) /\ DataflowKept
  BY DEF IInv, Writes
<1>2. /\ m \in Nat /\ DOMAIN t = 1..m /\ DOMAIN s = 1..Len(s) /\ Len(s) \in Nat
      /\ DOMAIN u = 1..m + Len(s) /\ Len(u) = m + Len(s)
      /\ \A k \in DOMAIN t : u[k] = t[k]
      /\ \A k \in DOMAIN s : m + k \in DOMAIN u /\ u[m + k] = s[k]
      /\ \A k \in DOMAIN u : \/ k \in DOMAIN t /\ u[k] = t[k]
                             \/ k > m /\ k - m \in DOMAIN s /\ u[k] = s[k - m]
  BY ONLY <1>1, PlacesInConcat
<1>3. \A k \in DOMAIN u : u[k] \in Blocks
  <2> HIDE DEF u, t
  <2>1. \A k \in DOMAIN t : t[k] \in Blocks
    BY <1>1
  <2>2. \A k \in DOMAIN s : s[k] \in Blocks
    BY <1>1
  <2> QED
    BY <1>2, <2>1, <2>2
<1>4. NumItr' = NumItr /\ NumItr \in Nat
  BY Sizes DEF Writes, NumItr, IInv, Where
<1>5. \A op : \A h \in Nat : Reach(op, h) \in Nat /\ Reach(op, h)' \in Nat
  <2>1. (Where => \A op : \A h \in Nat : Reach(op, h) \in Nat)'
    BY ReachType, PTL
  <2> QED
    BY <2>1, ReachType DEF IInv
(* What has been written is below Reach. *)
<1>6. ASSUME NEW op \in Kinds, NEW h \in 0..NumItr - 1
      PROVE  /\ Nums(t, op, h) = 0..Reach(op, h) - 1
             /\ Nums(u, op, h) = 0..Reach(op, h)' - 1
             /\ Reach(op, h) \in Nat /\ Reach(op, h)' \in Nat
  BY <1>4, <1>5 DEF IInv, Progress
<1>7. \A h \in 0..NumItr - 1 : InTime(s, h)
  BY DEF Writes
<1> HIDE DEF t, u, m
<1>below. ASSUME NEW op \in Kinds, NEW h \in 0..NumItr - 1, NEW n \in Nums(u, op, h)
      PROVE  n \in Nat /\ n < Reach(op, h)' /\ Reach(op, h)' \in Nat
  <2> DEFINE b == Reach(op, h)'
  <2>1. Nums(u, op, h) = 0..b - 1 /\ b \in Nat
    BY <1>6
  <2> HIDE DEF b
  <2> QED
    BY <2>1 DEF b
<1>there. ASSUME NEW op \in Kinds, NEW h \in 0..NumItr - 1, NEW n \in Nat, n < Reach(op, h)
      PROVE  n \in Nums(t, op, h)
  <2> DEFINE b == Reach(op, h)
  <2>1. Nums(t, op, h) = 0..b - 1 /\ b \in Nat
    BY <1>6
  <2> HIDE DEF b
  <2> QED
    BY <1>there, <2>1 DEF b
<1>none. ASSUME NEW op \in Kinds, NEW h \in 0..NumItr - 1, Reach(op, h) = 0
      PROVE  Nums(t, op, h) = {}
  BY <1>6, <1>none
<1>kinds. {"score-mac", "score-mvsb", "sfm", "context-mvgb", "context-mac", "context-mvsb"}
         \subseteq Kinds
  BY DEF Kinds, OnceKinds
<1>8. Sealed(u)
  <2> SUFFICES ASSUME NEW k \in DOMAIN u, u[k].op \in Feeders
               PROVE  \E l \in k + 1..Len(u) : u[l] = Barrier[1]
    BY DEF Sealed
  <2>1. CASE k \in DOMAIN t /\ u[k] = t[k]
    <3>1. PICK l \in k + 1..m : t[l] = Barrier[1]
      BY <1>1, <2>1 DEF Sealed, m
    <3>2. l \in DOMAIN t /\ l \in k + 1..Len(u)
      BY <1>2, <2>1
    <3> QED
      BY <1>2, <3>1, <3>2
  <2>2. CASE k > m /\ k - m \in DOMAIN s /\ u[k] = s[k - m]
    <3>1. PICK l \in k - m + 1..Len(s) : s[l] = Barrier[1]
      BY <1>1, <2>2 DEF Sealed
    <3>2. l \in DOMAIN s /\ m + l \in k + 1..Len(u) /\ u[m + l] = s[l]
      <4>1. l \in Nat /\ k \in Nat /\ k - m >= 1 /\ l >= k - m + 1 /\ l <= Len(s)
        BY <1>2, <2>2
      <4>2. l \in DOMAIN s
        BY <1>2, <4>1
      <4> QED
        BY <1>2, <4>1, <4>2
    <3> QED
      BY <3>1, <3>2
  <2> QED
    BY <1>2, <2>1, <2>2
(* A block that is written now feeds none that is there, unless it was     *)
(* there before.                                                           *)
<1>9. ASSUME NEW k \in DOMAIN s, NEW b \in DOMAIN u, Feeds(s[k], u[b])
      PROVE  \E a \in DOMAIN t : a < b /\ t[a] = s[k]
  <2> DEFINE x == s[k]
             y == u[b]
  <2>1. /\ x \in Blocks /\ y \in Blocks /\ x.head = y.head
    BY <1>1, <1>3, <1>9 DEF Feeds
  <2> SUFFICES ASSUME NEW h \in 0..NumItr - 1, x.head = h, y.head = h
               PROVE  \E a \in DOMAIN t : a < b /\ t[a] = x
    BY <2>1 DEF Blocks
  <2>2. x.n \in Nat /\ y.n \in Nat
    BY <2>1 DEF Blocks
  <2> HIDE DEF x, y
  <2>3. \A op : (x.op = op => x.n \in Nums(s, op, h)) /\ (y.op = op => y.n \in Nums(u, op, h))
    BY NumOf DEF x, y
  <2>4. InTime(s, h)
    BY <1>7
  <2>5. CASE x.op = "score-wrgb" /\ y.op = "score-mac"
    <3>1. Reach("score-mac", h)' = 0 /\ y.n \in Nums(u, "score-mac", h)
      BY <2>3, <2>4, <2>5 DEF InTime
    <3> QED
      BY <1>kinds, <1>below, <3>1
  <2>6. CASE x.op = "score-mac" /\ y.op = "score-mvsb" /\ x.n \div Group = y.n
    <3>1. Reach("score-mvsb", h)' <= y.n /\ y.n \in Nums(u, "score-mvsb", h)
      BY <2>3, <2>4, <2>6 DEF InTime
    <3>2. y.n < Reach("score-mvsb", h)' /\ Reach("score-mvsb", h)' \in Nat
      BY <1>kinds, <1>below, <3>1
    <3> QED
      BY <2>2, <3>1, <3>2
  <2>7. CASE x.op = "context-mvgb" /\ y.op = "context-mac"
    <3>1. Reach("context-mac", h)' = 0 /\ y.n \in Nums(u, "context-mac", h)
      BY <2>3, <2>4, <2>7 DEF InTime
    <3> QED
      BY <1>kinds, <1>below, <3>1
  <2>8. CASE x.op = "context-mac" /\ y.op = "context-mvsb" /\ x.n = y.n
    <3>1. y.n < Reach("context-mvsb", h)' /\ Reach("context-mvsb", h)' \in Nat
      BY <1>kinds, <1>below, <2>3, <2>8
    <3>2. Reach("context-mvsb", h)' <= x.n \/ x.n < Reach("context-mac", h)
      BY <2>3, <2>4, <2>8 DEF InTime
    <3>9. x.n < Reach("context-mac", h)
      BY <2>2, <2>8, <3>1, <3>2
    <3>3. x.n \in Nums(t, "context-mac", h)
      BY <1>kinds, <1>there, <2>2, <3>9
    <3>4. PICK a \in DOMAIN t : t[a].op = "context-mac" /\ t[a].head = h /\ t[a].n = x.n
      BY <3>3 DEF Nums
    <3>5. t[a] = x
      <4>1. t[a] \in Blocks
        BY <1>1
      <4> QED
        BY <2>1, <2>8, <3>4, <4>1 DEF Blocks
    <3>6. CASE b \in DOMAIN t /\ u[b] = t[b]
      <4>1. Feeds(t[a], t[b])
        BY <1>9, <3>5, <3>6 DEF x
      <4>2. PICK c \in 1..b - 1 : t[c] = t[a]
        BY <1>1, <3>6, <4>1 DEF DataflowKept, Emitted, ToSet, t
      <4>3. c \in DOMAIN t /\ c < b
        <5>1. m \in Nat /\ DOMAIN t = 1..m
          BY <1>2
        <5> QED
          BY <3>6, <4>2, <5>1
      <4> QED
        BY <3>5, <4>2, <4>3
    <3>7. CASE b > m
      BY <1>2, <3>5, <3>7
    <3> QED
      BY <1>2, <3>6, <3>7
  <2> QED
    BY <1>9, <2>5, <2>6, <2>7, <2>8 DEF Feeds, x, y
(* Softmax comes after what is moved to it, and before what it moves.      *)
<1>10. ASSUME NEW k \in DOMAIN s, NEW b \in DOMAIN u, ComesFirst(s[k], u[b])
       PROVE  m + k < b
  <2> DEFINE x == s[k]
             y == u[b]
  <2>1. x \in Blocks /\ y \in Blocks /\ x.head = y.head
    BY <1>1, <1>3, <1>10 DEF ComesFirst
  <2> SUFFICES ASSUME NEW h \in 0..NumItr - 1, x.head = h, y.head = h
               PROVE  m + k < b
    BY <2>1 DEF Blocks
  <2>2. x.n \in Nat /\ y.n \in Nat
    BY <2>1 DEF Blocks
  <2> HIDE DEF x, y
  <2>3. \A op : /\ x.op = op => x.n \in Nums(s, op, h)
                /\ y.op = op => y.n \in Nums(u, op, h)
    BY NumOf DEF x, y
  <2>4. InTime(s, h)
    BY <1>7
  <2>5. CASE x.op = "score-mvsb" /\ y.op = "sfm"
    <3>1. Reach("sfm", h)' = 0 /\ y.n \in Nums(u, "sfm", h)
      BY <2>3, <2>4, <2>5 DEF InTime
    <3> QED
      BY <1>kinds, <1>below, <3>1
  <2>6. CASE x.op = "sfm" /\ y.op = "context-mvgb"
    <3>1. Nums(t, "context-mvgb", h) = {}
      <4>1. Reach("context-mvgb", h) = 0
        BY <2>3, <2>4, <2>6 DEF InTime
      <4> QED
        BY <1>none, <1>kinds, <4>1
    <3>2. ~(b \in DOMAIN t /\ u[b] = t[b])
      BY <2>6, <3>1, NumOf DEF y
    <3>3. b > m /\ b - m \in DOMAIN s /\ u[b] = s[b - m]
      BY <1>2, <3>2
    <3>4. ~(b - m < k) /\ b - m # k
      BY <1>1, <2>6, <3>3 DEF InOrder, x, y
    <3> QED
      BY <1>2, <3>3, <3>4
  <2> QED
    BY <1>10, <2>5, <2>6 DEF ComesFirst, x, y
<1>11. ASSUME NEW b \in DOMAIN u, NEW a \in DOMAIN t, Feeds(t[a], u[b]), b > m \/ a < b
       PROVE  \E c \in 1..b - 1 : u[c] = t[a] /\ \E k \in c + 1..b - 1 : u[k] = Barrier[1]
  <2>1. CASE b \in DOMAIN t /\ u[b] = t[b]
    <3>1. PICK c \in 1..b - 1 : t[c] = t[a] /\ \E k \in c + 1..b - 1 : t[k] = Barrier[1]
      BY <1>1, <1>11, <2>1, FlowOfTwo DEF t
    <3>2. \A k \in 1..b - 1 : k \in DOMAIN t /\ u[k] = t[k]
      BY <1>2, <2>1
    <3>3. \A k \in c + 1..b - 1 : k \in 1..b - 1
      BY <3>1
    <3> QED
      BY <3>1, <3>2, <3>3
  <2>2. CASE b > m
    <3>1. t[a].op \in Feeders
      BY <1>11 DEF Feeds, Feeders
    <3>2. PICK k \in a + 1..m : t[k] = Barrier[1]
      BY <1>1, <3>1 DEF Sealed, m
    <3>3. k \in DOMAIN t /\ k \in a + 1..b - 1 /\ a \in 1..b - 1
      BY <1>2, <2>2
    <3> QED
      BY <1>2, <3>2, <3>3
  <2> QED
    BY <1>2, <2>1, <2>2
<1>12. ASSUME NEW b \in DOMAIN u, NEW e \in DOMAIN u
       PROVE  /\ Feeds(u[e], u[b]) =>
                    \E a \in 1..b - 1 : u[a] = u[e] /\ \E k \in a + 1..b - 1 : u[k] = Barrier[1]
              /\ ComesFirst(u[e], u[b]) => \E a \in 1..b - 1 : u[a] = u[e]
  <2>1. CASE e \in DOMAIN t /\ u[e] = t[e]
    <3>1. CASE b \in DOMAIN t /\ u[b] = t[b]
      <4>1. /\ Feeds(t[e], t[b]) =>
                  \E a \in 1..b - 1 : t[a] = t[e] /\ \E k \in a + 1..b - 1 : t[k] = Barrier[1]
            /\ ComesFirst(t[e], t[b]) => \E a \in 1..b - 1 : t[a] = t[e]
        BY <1>1, <2>1, <3>1, FlowOfTwo DEF t
      <4>2. \A k \in 1..b - 1 : u[k] = t[k]
        BY <1>2, <3>1
      <4>3. \A a \in 1..b - 1 : \A k \in a + 1..b - 1 : k \in 1..b - 1
        OBVIOUS
      <4> QED
        BY <2>1, <3>1, <4>1, <4>2, <4>3
    <3>2. CASE b > m
      <4>1. e \in 1..b - 1
        BY <1>2, <2>1, <3>2
      <4> QED
        BY <1>11, <2>1, <3>2, <4>1
    <3> QED
      BY <1>2, <3>1, <3>2
  <2>2. CASE e > m /\ e - m \in DOMAIN s /\ u[e] = s[e - m]
    <3>1. ASSUME Feeds(u[e], u[b])
          PROVE  \E a \in 1..b - 1 : u[a] = u[e] /\ \E k \in a + 1..b - 1 : u[k] = Barrier[1]
      <4>1. PICK a \in DOMAIN t : a < b /\ t[a] = u[e]
        BY <1>9, <2>2, <3>1
      <4>2. Feeds(t[a], u[b])
        BY <3>1, <4>1
      <4> QED
        BY <1>11, <4>1, <4>2
    <3>2. ASSUME ComesFirst(u[e], u[b])
          PROVE  \E a \in 1..b - 1 : u[a] = u[e]
      <4>1. e < b
        <5>1. m + (e - m) < b
          BY <1>10, <2>2, <3>2
        <5> QED
          BY <1>2, <2>2, <5>1
      <4>2. e \in 1..b - 1
        BY <1>2, <4>1
      <4> QED
        BY <4>2
    <3> QED
      BY <3>1, <3>2
  <2> QED
    BY <1>2, <2>1, <2>2
<1>13. DataflowKept'
  BY <1>12 DEF DataflowKept, Emitted, BarrierBetween, ToSet, u
<1> QED
  BY <1>8, <1>13 DEF u

LEMMA WriteStep ==
    ASSUME IInv, Where', NEW s, Writes(s)
    PROVE  IInv'
<1>1. Progress' /\ Rising(total_cmd') /\ DataflowKept' /\ Sealed(total_cmd')
  BY ProgressStep, FlowStep
<1>2. Blocks' = Blocks
  BY DEF Writes, Blocks, NumItr
<1>3. total_cmd' \in Seq(Blocks)
  BY PlacesInConcat DEF Writes, IInv
<1> QED
  BY <1>1, <1>2, <1>3 DEF IInv

----------------------------------------------------------------------------
(* The runs of a beat. *)
LEMMA ScoreRuns ==
    ASSUME Where, j <= Rounds, NEW g \in 0..NumItr - 1
    PROVE  /\ IsRun(IF j < Rounds THEN Slice(ScoreMac(g), j, Group) ELSE <<>>, "score-mac", g,
                    Least(j * Group, Outputs), Least((j + 1) * Group, Outputs))
           /\ IsRun(IF j > 0 THEN ScoreMvsb(g, j - 1) ELSE <<>>, "score-mvsb", g, Before(j), j)
<1>1. /\ j \in Nat /\ Rounds \in Nat /\ Outputs \in Nat /\ Group \in Nat \ {0}
      /\ Outputs <= Rounds * Group /\ (Rounds - 1) * Group < Outputs
  BY Sizes, TraceAssumption DEF Where
<1>2. "score-mac" \in Ops /\ "score-mvsb" \in Ops
  BY DEF Ops
<1>3. ASSUME j < Rounds
      PROVE  IsRun(Slice(ScoreMac(g), j, Group), "score-mac", g,
                   Least(j * Group, Outputs), Least((j + 1) * Group, Outputs))
  <2>1. j * Group <= (Rounds - 1) * Group
    BY <1>1, <1>3
  <2>2. j * Group \in Nat /\ j * Group < Outputs
    BY <1>1, <2>1
  <2>3. IsRun(Slice(List("score-mac", g, Outputs), j, Group), "score-mac", g,
              j * Group, Least((j + 1) * Group, Outputs))
    BY <1>1, <1>2, <2>2, SliceRun
  <2> QED
    BY <2>2, <2>3 DEF Least, ScoreMac
<1>4. ASSUME j = Rounds
      PROVE  IsRun(<<>>, "score-mac", g,
                   Least(j * Group, Outputs), Least((j + 1) * Group, Outputs))
  <2>1. (j + 1) * Group = j * Group + Group /\ j * Group >= Outputs /\ j * Group \in Nat
    BY <1>1, <1>4
  <2>2. Least(j * Group, Outputs) = Outputs /\ Least((j + 1) * Group, Outputs) = Outputs
    BY <1>1, <2>1 DEF Least
  <2> QED
    BY <1>1, <2>2, NoRun
<1>5. ASSUME j > 0
      PROVE  IsRun(ScoreMvsb(g, j - 1), "score-mvsb", g, Before(j), j)
  <2>1. j - 1 \in Nat /\ Before(j) = j - 1 /\ j - 1 + 1 = j
    BY <1>1, <1>5 DEF Before
  <2> QED
    BY <1>2, <2>1, OneRun DEF ScoreMvsb
<1>6. ASSUME j = 0
      PROVE  IsRun(<<>>, "score-mvsb", g, Before(j), j)
  BY <1>6, NoRun DEF Before
<1> QED
  BY <1>1, <1>3, <1>4, <1>5, <1>6

LEMMA ContextRuns ==
    ASSUME Where, j <= Columns, NEW g \in 0..NumItr - 1
    PROVE  /\ IsRun(IF j < Columns THEN ContextMac(g, j) ELSE <<>>, "context-mac", g,
                    j, Least(j + 1, Columns))
           /\ IsRun(IF j > 0 THEN ContextMvsb(g, j - 1) ELSE <<>>, "context-mvsb", g,
                    Before(j), j)
<1>1. j \in Nat /\ Columns \in Nat
  BY Sizes DEF Where
<1>2. "context-mac" \in Ops /\ "context-mvsb" \in Ops
  BY DEF Ops
<1>3. ASSUME j < Columns
      PROVE  IsRun(ContextMac(g, j), "context-mac", g, j, Least(j + 1, Columns))
  <2>1. Least(j + 1, Columns) = j + 1
    BY <1>1, <1>3 DEF Least
  <2> QED
    BY <1>1, <1>2, <2>1, OneRun DEF ContextMac
<1>4. ASSUME j = Columns
      PROVE  IsRun(<<>>, "context-mac", g, j, Least(j + 1, Columns))
  <2>1. Least(j + 1, Columns) = j
    BY <1>1, <1>4 DEF Least
  <2> QED
    BY <1>1, <2>1, NoRun
<1>5. ASSUME j > 0
      PROVE  IsRun(ContextMvsb(g, j - 1), "context-mvsb", g, Before(j), j)
  <2>1. j - 1 \in Nat /\ Before(j) = j - 1 /\ j - 1 + 1 = j
    BY <1>1, <1>5 DEF Before
  <2> QED
    BY <1>2, <2>1, OneRun DEF ContextMvsb
<1>6. ASSUME j = 0
      PROVE  IsRun(<<>>, "context-mvsb", g, Before(j), j)
  BY <1>6, NoRun DEF Before
<1> QED
  BY <1>1, <1>3, <1>4, <1>5, <1>6

(* Slices of the first input vector, and of the second in the late beats.  *)
LEMMA WordRun ==
    ASSUME Where, j <= Rounds, NEW g \in 0..NumItr - 1
    PROVE  IsRun(IF j < Rounds THEN Slice(ScoreWrgb(g), j, Words(g) \div Rounds) ELSE <<>>,
                 "score-wrgb", g, Part(Words(g), j), Part(Words(g), Least(j + 1, Rounds)))
<1>1. j \in Nat /\ Rounds \in Nat \ {0} /\ Words(g) \in Nat /\ g \in Nat
  BY Sizes DEF Where
<1> DEFINE w == Words(g)
           one == w \div Rounds
<1>2. one \in Nat /\ j * one \in Nat /\ j * one <= w /\ (j + 1) * one = j * one + one
  BY <1>1, SliceBounds
<1>3. ASSUME j < Rounds
      PROVE  IsRun(Slice(ScoreWrgb(g), j, one), "score-wrgb", g,
                   Part(w, j), Part(w, Least(j + 1, Rounds)))
  <2>1. (j + 1) * one <= w /\ j + 1 \in Nat
    <3>1. j + 1 \in Nat /\ j + 1 <= Rounds
      BY <1>1, <1>3
    <3> QED
      BY <1>1, <3>1, SliceBounds
  <2>2. Least(j + 1, Rounds) = j + 1 /\ Least((j + 1) * one, w) = (j + 1) * one
    <3>1. Least(j + 1, Rounds) = j + 1
      BY <1>1, <1>3 DEF Least
    <3>2. w \in Nat /\ (j + 1) * one \in Nat
      BY <1>1, <1>2
    <3> HIDE DEF w, one
    <3>3. (j + 1) * one < w \/ (j + 1) * one = w
      BY <2>1, <3>2
    <3> QED
      BY <3>1, <3>3 DEF Least
  <2>3. "score-wrgb" \in Ops
    BY DEF Ops
  <2>4. IsRun(Slice(List("score-wrgb", g, w), j, one), "score-wrgb", g,
              j * one, Least((j + 1) * one, w))
    <3> HIDE DEF w, one
    <3> QED
      BY <1>1, <1>2, <2>3, SliceRun DEF w
  <2> QED
    BY <2>2, <2>4 DEF Part, ScoreWrgb
<1>4. ASSUME j = Rounds
      PROVE  IsRun(<<>>, "score-wrgb", g, Part(w, j), Part(w, Least(j + 1, Rounds)))
  <2>1. Least(j + 1, Rounds) = j /\ Part(w, j) \in Nat
    BY <1>1, <1>2, <1>4 DEF Least, Part
  <2> QED
    BY <2>1, NoRun
<1> QED
  BY <1>1, <1>3, <1>4

LEMMA HalfSizes ==
    ASSUME NEW size \in Nat, NEW length \in Nat \ {0}
    PROVE  length \div 2 \in Nat /\ size \div CeilDiv(length, 2) \in Nat
<1>1. length \div 2 \in Nat /\ CeilDiv(length, 2) \in Nat \ {0}
  BY DivBounds, CeilDivBounds
<1> QED
  BY <1>1, DivBounds

(* Late is nothing before the middle of a loop, then grows slice by slice. *)
LEMMA LateValue ==
    ASSUME NEW size, NEW length, NEW n
    PROVE  Late(size, length, n)
             = IF n < length \div 2 THEN 0
               ELSE (n - length \div 2) * (size \div CeilDiv(length, 2))
  BY DEF Late

LEMMA LateGrows ==
    ASSUME NEW size \in Nat, NEW length \in Nat \ {0}, NEW n \in Nat
    PROVE  LET half == length \div 2
               one == size \div CeilDiv(length, 2)
           IN  /\ n < half => Late(size, length, n) = 0 /\ Late(size, length, n + 1) = 0
               /\ n >= half => /\ Late(size, length, n) = (n - half) * one
                               /\ Late(size, length, n + 1) = (n - half + 1) * one
<1> DEFINE half == length \div 2
           one == size \div CeilDiv(length, 2)
<1>1. half \in Nat /\ one \in Nat
  BY HalfSizes
<1>2. \A k \in Nat : Late(size, length, k) = IF k < half THEN 0 ELSE (k - half) * one
  BY LateValue
<1> HIDE DEF half, one
<1> SUFFICES ASSUME NEW m \in Nat, m = n + 1
             PROVE  /\ n < half => Late(size, length, n) = 0 /\ Late(size, length, m) = 0
                    /\ n >= half => /\ Late(size, length, n) = (n - half) * one
                                    /\ Late(size, length, m) = (n - half + 1) * one
  BY DEF half, one
<1>3. /\ Late(size, length, n) = IF n < half THEN 0 ELSE (n - half) * one
      /\ Late(size, length, m) = IF m < half THEN 0 ELSE (m - half) * one
  BY <1>2
<1>4. m - half = n - half + 1
  BY <1>1
<1>5. n < half => m < half \/ m - half = 0
  BY <1>1
<1>6. 0 * one = 0
  BY <1>1
<1> QED
  BY <1>1, <1>3, <1>4, <1>5, <1>6

LEMMA LateRun ==
    ASSUME Where, NEW g \in 0..NumItr - 1, NEW length \in Nat \ {0}, j <= length
    PROVE  IsRun(LateSlice(ContextMvgb(g), j, length), "context-mvgb", g,
                 Late(Moves(g), length, j), Late(Moves(g), length, Least(j + 1, length)))
<1> DEFINE v == Moves(g)
           s == List("context-mvgb", g, v)
           half == length \div 2
           beats == CeilDiv(length, 2)
           one == v \div beats
<1>1. j \in Nat /\ v \in Nat /\ g \in Nat
  BY Sizes DEF Where
<1>2. half \in Nat /\ beats \in Nat \ {0} /\ beats = length - half
  <2>1. half * 2 <= length /\ length < (half + 1) * 2 /\ half \in Nat
    BY DivBounds
  <2>2. beats \in Nat /\ beats * 2 >= length /\ beats > 0 /\ (beats - 1) * 2 < length
    BY CeilDivBounds
  <2> HIDE DEF half, beats
  <2> QED
    BY <2>1, <2>2
<1>3. Len(s) = v /\ "context-mvgb" \in Ops
  <2>1. "context-mvgb" \in Ops
    BY DEF Ops
  <2> QED
    BY <1>1, <2>1, ListRun
<1>4. LateSlice(ContextMvgb(g), j, length)
        = IF j < length /\ j >= half THEN Slice(s, j - half, one) ELSE <<>>
  BY <1>3 DEF LateSlice, ContextMvgb
<1>6. Late(v, length, j) \in Nat
  BY <1>1, LateType
<1> HIDE DEF half, beats
<1>7. CASE j < half
  <2>1. Least(j + 1, length) = j + 1 /\ j + 1 \in Nat
    BY <1>1, <1>2, <1>7 DEF Least
  <2>2. Late(v, length, j) = 0 /\ Late(v, length, j + 1) = 0
    BY <1>1, <1>7, LateGrows DEF half
  <2>3. LateSlice(ContextMvgb(g), j, length) = <<>>
    BY <1>1, <1>2, <1>4, <1>7
  <2> QED
    BY <2>1, <2>2, <2>3, NoRun
<1>8. CASE j >= half /\ j < length
  <2> DEFINE k == j - half
  <2>1. k \in Nat /\ k + 1 \in Nat /\ k + 1 <= beats /\ k <= beats /\ j + 1 - half = k + 1
    BY <1>1, <1>2, <1>8
  <2>2. Least(j + 1, length) = j + 1 /\ j + 1 \in Nat
    BY <1>1, <1>8 DEF Least
  <2> HIDE DEF k
  <2>3. one \in Nat /\ k * one \in Nat /\ k * one <= v /\ (k + 1) * one <= v
    BY <1>1, <1>2, <2>1, SliceBounds
  <2>4. IsRun(Slice(s, k, one), "context-mvgb", g, k * one, Least((k + 1) * one, v))
    <3> HIDE DEF v, one
    <3> QED
      BY <1>1, <1>3, <2>1, <2>3, SliceRun
  <2>5. Least((k + 1) * one, v) = (k + 1) * one
    <3>1. (k + 1) * one \in Nat
      <4> HIDE DEF one
      <4> QED
        BY <2>1, <2>3
    <3> QED
      BY <1>1, <2>3, <3>1 DEF Least
  <2>6. Late(v, length, j) = k * one /\ Late(v, length, j + 1) = (k + 1) * one
    <3>1. Late(v, length, j) = (j - half) * one /\ Late(v, length, j + 1) = (j - half + 1) * one
      BY <1>1, <1>8, LateGrows DEF half, beats
    <3> QED
      BY <3>1 DEF k
  <2> QED
    BY <1>4, <1>8, <2>2, <2>4, <2>5, <2>6 DEF k
<1>9. CASE j = length
  <2>1. Least(j + 1, length) = j
    BY <1>1, <1>9 DEF Least
  <2>2. LateSlice(ContextMvgb(g), j, length) = <<>>
    BY <1>1, <1>4, <1>9
  <2> QED
    BY <1>6, <2>1, <2>2, NoRun
<1> QED
  BY <1>1, <1>2, <1>7, <1>8, <1>9

----------------------------------------------------------------------------
(* A run goes on where its kind and head have arrived, or repeats what is  *)
(* there, and comes in time for what takes input from it.                  *)
Fits(o, g, a, b) ==
    /\ o \in Kinds => \/ Reach(o, g) = a /\ Reach(o, g)' = b /\ a <= b
                      \/ o \notin OnceKinds /\ Reach(o, g)' = Reach(o, g) /\ b <= Reach(o, g)
    /\ o = "score-wrgb" /\ a < b => Reach("score-mac", g)' = 0
    /\ o = "score-mac" => \A n \in a..b - 1 : Reach("score-mvsb", g)' <= n \div Group
    /\ o = "context-mvgb" /\ a < b => Reach("context-mac", g)' = 0
    /\ o = "context-mac" =>
          \A n \in a..b - 1 : Reach("context-mvsb", g)' <= n \/ n < Reach("context-mac", g)
    /\ o = "score-mvsb" /\ a < b => Reach("sfm", g)' = 0
    /\ o = "sfm" /\ a < b => Reach("context-mvgb", g) = 0

Fresh(o, g, o2, g2) == o # o2 \/ g # g2

LEMMA RunsApart ==
    ASSUME NEW s, NEW o, NEW g, NEW a \in Nat, NEW b \in Nat, IsRun(s, o, g, a, b),
           NEW t, NEW o2, NEW g2, NEW a2 \in Nat, NEW b2 \in Nat, IsRun(t, o2, g2, a2, b2),
           Fresh(o, g, o2, g2), o # "context-mvgb"
    PROVE  Apart(s, t)
<1>1. /\ \A k \in DOMAIN s : s[k].op = o /\ s[k].head = g
      /\ \A k \in DOMAIN t : t[k].op = o2 /\ t[k].head = g2
  BY RunProperties
<1> QED
  BY <1>1 DEF Apart, Fresh

LEMMA ApartFromConcat ==
    ASSUME NEW S, NEW s \in Seq(S), NEW t \in Seq(S), NEW u, Apart(u, s), Apart(u, t)
    PROVE  Apart(u, s \o t)
<1> DEFINE v == s \o t
<1>1. \A k \in DOMAIN v : \/ k \in DOMAIN s /\ v[k] = s[k]
                          \/ k - Len(s) \in DOMAIN t /\ v[k] = t[k - Len(s)]
  BY PlacesInConcat
<1> HIDE DEF v
<1>2. ASSUME NEW k \in DOMAIN u, NEW l \in DOMAIN v
      PROVE  /\ u[k].op \in OnceKinds => u[k].op # v[l].op \/ u[k].head # v[l].head
             /\ ~(u[k].op = "context-mvgb" /\ v[l].op = "sfm")
  BY <1>1 DEF Apart
<1> QED
  BY <1>2 DEF Apart, v

NumbersOf(s, o, g, ns) ==
    \A op, h : Nums(s, op, h) = IF op = o /\ h = g THEN ns ELSE {}

LEMMA RunNumbers ==
    ASSUME NEW s, NEW o, NEW g, NEW a \in Nat, NEW b \in Nat, IsRun(s, o, g, a, b)
    PROVE  s \in Seq(Blocks) /\ InOrder(s) /\ NumbersOf(s, o, g, a..b - 1)
<1>1. /\ s \in Seq(Blocks) /\ InOrder(s)
      /\ \A op, h : Nums(s, op, h) = IF op = o /\ h = g THEN a..b - 1 ELSE {}
  BY RunProperties, ZenonT(30)
<1> QED
  BY <1>1, Zenon DEF NumbersOf

(***************************************************************************)
(* A step that writes four runs of different kinds or heads, and perhaps a *)
(* barrier, keeps the invariant: m has kind o1, head g1 and the numbers    *)
(* from a1 up to b1; v, f and x likewise.                                  *)
(***************************************************************************)
Pieces(m, o1, g1, a1, b1, v, o2, g2, a2, b2,
       f, o3, g3, a3, b3, x, o4, g4, a4, b4, b) ==
    /\ a1 \in Nat /\ b1 \in Nat /\ IsRun(m, o1, g1, a1, b1) /\ Fits(o1, g1, a1, b1)
    /\ a2 \in Nat /\ b2 \in Nat /\ IsRun(v, o2, g2, a2, b2) /\ Fits(o2, g2, a2, b2)
    /\ a3 \in Nat /\ b3 \in Nat /\ IsRun(f, o3, g3, a3, b3) /\ Fits(o3, g3, a3, b3)
    /\ a4 \in Nat /\ b4 \in Nat /\ IsRun(x, o4, g4, a4, b4) /\ Fits(o4, g4, a4, b4)
    /\ Fresh(o1, g1, o2, g2) /\ Fresh(o1, g1, o3, g3) /\ Fresh(o1, g1, o4, g4)
    /\ Fresh(o2, g2, o3, g3) /\ Fresh(o2, g2, o4, g4) /\ Fresh(o3, g3, o4, g4)
    /\ o1 # "context-mvgb" /\ o2 # "context-mvgb" /\ o3 # "context-mvgb"
    /\ b = Barrier \/ b = <<>>
    /\ b = <<>> => /\ o1 \in Feeders => a1 >= b1
                   /\ o2 \in Feeders => a2 >= b2
                   /\ o3 \in Feeders => a3 >= b3
                   /\ o4 \in Feeders => a4 >= b4
    /\ \A op \in Kinds, h \in 0..NumItr - 1 :
          /\ Fresh(op, h, o1, g1) /\ Fresh(op, h, o2, g2)
          /\ Fresh(op, h, o3, g3) /\ Fresh(op, h, o4, g4)
          => Reach(op, h)' = Reach(op, h)
    /\ total_cmd' = total_cmd \o (m \o v \o (f \o x) \o b)

LEMMA BeatStep ==
    ASSUME IInv, Where', p' = p,
           NEW m, NEW o1, NEW g1, NEW a1, NEW b1, NEW v, NEW o2, NEW g2, NEW a2, NEW b2,
           NEW f, NEW o3, NEW g3, NEW a3, NEW b3, NEW x, NEW o4, NEW g4, NEW a4, NEW b4,
           NEW b,
           Pieces(m, o1, g1, a1, b1, v, o2, g2, a2, b2,
                  f, o3, g3, a3, b3, x, o4, g4, a4, b4, b)
    PROVE  IInv'
<1>a. /\ a1 \in Nat /\ b1 \in Nat /\ a2 \in Nat /\ b2 \in Nat
      /\ a3 \in Nat /\ b3 \in Nat /\ a4 \in Nat /\ b4 \in Nat
  BY DEF Pieces
<1>b. /\ IsRun(m, o1, g1, a1, b1) /\ IsRun(v, o2, g2, a2, b2)
      /\ IsRun(f, o3, g3, a3, b3) /\ IsRun(x, o4, g4, a4, b4)
  BY DEF Pieces
<1>c. /\ Fits(o1, g1, a1, b1) /\ Fits(o2, g2, a2, b2)
      /\ Fits(o3, g3, a3, b3) /\ Fits(o4, g4, a4, b4)
  BY DEF Pieces
<1>d. b = <<>> => /\ o1 \in Feeders => a1 >= b1
                  /\ o2 \in Feeders => a2 >= b2
                  /\ o3 \in Feeders => a3 >= b3
                  /\ o4 \in Feeders => a4 >= b4
  BY DEF Pieces
<1>e. /\ Fresh(o1, g1, o2, g2) /\ Fresh(o1, g1, o3, g3) /\ Fresh(o1, g1, o4, g4)
      /\ Fresh(o2, g2, o3, g3) /\ Fresh(o2, g2, o4, g4) /\ Fresh(o3, g3, o4, g4)
  BY DEF Pieces
<1>f. /\ o1 # "context-mvgb" /\ o2 # "context-mvgb" /\ o3 # "context-mvgb"
      /\ b = Barrier \/ b = <<>>
  BY DEF Pieces
<1>h. total_cmd' = total_cmd \o (m \o v \o (f \o x) \o b)
  BY DEF Pieces
<1>i. \A op \in Kinds, h \in 0..NumItr - 1 :
          /\ Fresh(op, h, o1, g1) /\ Fresh(op, h, o2, g2)
          /\ Fresh(op, h, o3, g3) /\ Fresh(op, h, o4, g4)
          => Reach(op, h)' = Reach(op, h)
  BY DEF Pieces
<1> USE <1>a, <1>b, <1>c, <1>d, <1>e, <1>f, <1>i
<1> DEFINE s == m \o v \o (f \o x) \o b
<1>1. /\ s \in Seq(Blocks) /\ InOrder(s) /\ Sealed(s)
      /\ \A op \in Kinds : \A h :
            /\ op = o1 /\ h = g1 => Nums(s, op, h) = a1..b1 - 1
            /\ op = o2 /\ h = g2 => Nums(s, op, h) = a2..b2 - 1
            /\ op = o3 /\ h = g3 => Nums(s, op, h) = a3..b3 - 1
            /\ op = o4 /\ h = g4 => Nums(s, op, h) = a4..b4 - 1
            /\ /\ Fresh(op, h, o1, g1) /\ Fresh(op, h, o2, g2)
               /\ Fresh(op, h, o3, g3) /\ Fresh(op, h, o4, g4)
               => Nums(s, op, h) = {}
  <2>p. p \in Params
    BY DEF IInv, Where
  <2> DEFINE e == f \o x
             w == m \o v \o e \o b
  <2>m. /\ m \in Seq(Blocks) /\ InOrder(m)
        /\ NumbersOf(m, o1, g1, a1..b1 - 1)
    BY RunNumbers
  <2>v. /\ v \in Seq(Blocks) /\ InOrder(v)
        /\ NumbersOf(v, o2, g2, a2..b2 - 1)
    BY RunNumbers
  <2>f. /\ f \in Seq(Blocks) /\ InOrder(f)
        /\ NumbersOf(f, o3, g3, a3..b3 - 1)
    BY RunNumbers
  <2>x. /\ x \in Seq(Blocks) /\ InOrder(x)
        /\ NumbersOf(x, o4, g4, a4..b4 - 1)
    BY RunNumbers
  <2>2. /\ Apart(m, v) /\ Apart(m, f) /\ Apart(m, x)
        /\ Apart(v, f) /\ Apart(v, x) /\ Apart(f, x)
    BY RunsApart
  <2>3. e \in Seq(Blocks) /\ InOrder(e) /\ Apart(m, e) /\ Apart(v, e)
    <3>1. e \in Seq(Blocks)
      BY <2>f, <2>x
    <3>2. InOrder(e)
      BY <2>f, <2>x, <2>2, ConcatInOrder
    <3>3. Apart(m, e) /\ Apart(v, e)
      BY <2>f, <2>x, <2>2, ApartFromConcat
    <3> QED
      BY <3>1, <3>2, <3>3
  <2>4. \A op, h : Nums(e, op, h) = Nums(f, op, h) \cup Nums(x, op, h)
    BY <2>f, <2>x, ConcatNums
  <2> HIDE DEF e
  <2>6. ASSUME b = <<>>, NEW op \in Feeders, NEW h
        PROVE  Nums(m \o v \o e, op, h) = {}
    <3> DEFINE mv == m \o v
    <3>1. mv \in Seq(Blocks)
      BY <2>m, <2>v
    <3>2. Nums(mv, op, h) = Nums(m, op, h) \cup Nums(v, op, h)
      BY <2>m, <2>v, ConcatNums
    <3> HIDE DEF mv
    <3>3. Nums(mv \o e, op, h) = Nums(mv, op, h) \cup Nums(e, op, h)
      BY <2>3, <3>1, ConcatNums
    <3>4. /\ op = o1 => a1..b1 - 1 = {}
          /\ op = o2 => a2..b2 - 1 = {}
          /\ op = o3 => a3..b3 - 1 = {}
          /\ op = o4 => a4..b4 - 1 = {}
      BY <2>6
    <3>5. Nums(m, op, h) = {} /\ Nums(v, op, h) = {}
      BY <2>m, <2>v, <3>4 DEF NumbersOf
    <3>6. Nums(f, op, h) = {} /\ Nums(x, op, h) = {}
      BY <2>f, <2>x, <3>4 DEF NumbersOf
    <3> QED
      BY <2>4, <3>2, <3>3, <3>5, <3>6 DEF mv
  <2>7. /\ w \in Seq(Blocks) /\ InOrder(w) /\ (b = Barrier \/ b = <<>> => Sealed(w))
        /\ \A op \in Kinds : \A h :
              Nums(w, op, h) = Nums(m, op, h) \cup Nums(v, op, h) \cup Nums(e, op, h)
    <3>1. LET u == m \o v \o e \o b IN
          /\ u \in Seq(Blocks) /\ InOrder(u)
          /\ \A op \in Kinds : \A h :
                Nums(u, op, h) = Nums(m, op, h) \cup Nums(v, op, h) \cup Nums(e, op, h)
          /\ b = Barrier => Sealed(u)
          /\ b = <<>> /\ (\A op \in Feeders : \A h : Nums(m \o v \o e, op, h) = {}) => Sealed(u)
      BY <2>p, <2>m, <2>v, <2>2, <2>3, BeatProperties
    <3> QED
      BY <2>6, <3>1
  <2> HIDE DEF w
  <2>8. ASSUME NEW op \in Kinds, NEW h
        PROVE  Nums(w, op, h) = Nums(m, op, h) \cup Nums(v, op, h)
                                \cup Nums(f, op, h) \cup Nums(x, op, h)
    BY <2>4, <2>7
  <2>9. ASSUME NEW op \in Kinds, NEW h
        PROVE  /\ op = o1 /\ h = g1 => Nums(w, op, h) = a1..b1 - 1
               /\ op = o2 /\ h = g2 => Nums(w, op, h) = a2..b2 - 1
               /\ op = o3 /\ h = g3 => Nums(w, op, h) = a3..b3 - 1
               /\ op = o4 /\ h = g4 => Nums(w, op, h) = a4..b4 - 1
               /\ /\ Fresh(op, h, o1, g1) /\ Fresh(op, h, o2, g2)
                  /\ Fresh(op, h, o3, g3) /\ Fresh(op, h, o4, g4)
                  => Nums(w, op, h) = {}
    <3>1. /\ op = o1 /\ h = g1 =>
                ~(op = o2 /\ h = g2) /\ ~(op = o3 /\ h = g3) /\ ~(op = o4 /\ h = g4)
          /\ op = o2 /\ h = g2 =>
                ~(op = o1 /\ h = g1) /\ ~(op = o3 /\ h = g3) /\ ~(op = o4 /\ h = g4)
          /\ op = o3 /\ h = g3 =>
                ~(op = o1 /\ h = g1) /\ ~(op = o2 /\ h = g2) /\ ~(op = o4 /\ h = g4)
          /\ op = o4 /\ h = g4 =>
                ~(op = o1 /\ h = g1) /\ ~(op = o2 /\ h = g2) /\ ~(op = o3 /\ h = g3)
      BY Zenon DEF Fresh
    <3> DEFINE M == Nums(m, op, h)
               V == Nums(v, op, h)
               F == Nums(f, op, h)
               X == Nums(x, op, h)
               N == Nums(w, op, h)
               R1 == a1..b1 - 1
               R2 == a2..b2 - 1
               R3 == a3..b3 - 1
               R4 == a4..b4 - 1
    <3>2. /\ M = IF op = o1 /\ h = g1 THEN R1 ELSE {}
          /\ V = IF op = o2 /\ h = g2 THEN R2 ELSE {}
          /\ F = IF op = o3 /\ h = g3 THEN R3 ELSE {}
          /\ X = IF op = o4 /\ h = g4 THEN R4 ELSE {}
      BY <2>m, <2>v, <2>f, <2>x DEF NumbersOf
    <3>3. N = M \cup V \cup F \cup X
      BY <2>8
    <3> HIDE DEF M, V, F, X, N, R1, R2, R3, R4
    <3>4. op = o1 /\ h = g1 => N = R1
      BY <3>1, <3>2, <3>3
    <3>5. op = o2 /\ h = g2 => N = R2
      BY <3>1, <3>2, <3>3
    <3>6. op = o3 /\ h = g3 => N = R3
      BY <3>1, <3>2, <3>3
    <3>7. op = o4 /\ h = g4 => N = R4
      BY <3>1, <3>2, <3>3
    <3>8. /\ Fresh(op, h, o1, g1) /\ Fresh(op, h, o2, g2)
          /\ Fresh(op, h, o3, g3) /\ Fresh(op, h, o4, g4)
          => N = {}
      BY <3>2, <3>3 DEF Fresh
    <3> QED
      BY <3>4, <3>5, <3>6, <3>7, <3>8 DEF N, R1, R2, R3, R4
  <2> QED
    BY <2>7, <2>9 DEF w, e, s
<1>2. total_cmd' = total_cmd \o s
  BY <1>h
<1> HIDE DEF s
<1>3. ASSUME NEW op \in Kinds, NEW h \in 0..NumItr - 1
      PROVE  \/ Nums(s, op, h) = {} /\ Reach(op, h)' = Reach(op, h)
             \/ \E a, c \in Nat : Fits(op, h, a, c) /\ Nums(s, op, h) = a..c - 1
  <2>1. CASE op = o1 /\ h = g1
    <3>1. Fits(op, h, a1, b1)
      BY ONLY <2>1, Fits(o1, g1, a1, b1)
    <3> QED
      BY <1>1, <2>1, <3>1
  <2>2. CASE op = o2 /\ h = g2
    <3>1. Fits(op, h, a2, b2)
      BY ONLY <2>2, Fits(o2, g2, a2, b2)
    <3> QED
      BY <1>1, <2>2, <3>1
  <2>3. CASE op = o3 /\ h = g3
    <3>1. Fits(op, h, a3, b3)
      BY ONLY <2>3, Fits(o3, g3, a3, b3)
    <3> QED
      BY <1>1, <2>3, <3>1
  <2>4. CASE op = o4 /\ h = g4
    <3>1. Fits(op, h, a4, b4)
      BY ONLY <2>4, Fits(o4, g4, a4, b4)
    <3> QED
      BY <1>1, <2>4, <3>1
  <2>5. CASE /\ Fresh(op, h, o1, g1) /\ Fresh(op, h, o2, g2)
             /\ Fresh(op, h, o3, g3) /\ Fresh(op, h, o4, g4)
    BY <1>1, <2>5
  <2> QED
    BY <2>1, <2>2, <2>3, <2>4, <2>5 DEF Fresh
<1>4. \A op : \A h \in 0..NumItr - 1 : Reach(op, h) \in Nat
  <2>1. \A h \in 0..NumItr - 1 : h \in Nat
    BY Sizes DEF IInv, Where
  <2> QED
    BY <2>1, ReachType DEF IInv
<1>5. ASSUME NEW op \in Kinds, NEW h \in 0..NumItr - 1
      PROVE  Advances(s, op, h)
  <2> DEFINE r == Reach(op, h)
             r2 == Reach(op, h)'
  <2>1. r \in Nat
    BY <1>4
  <2>2. CASE Nums(s, op, h) = {} /\ r2 = r
    <3> HIDE DEF r
    <3>1. r..r - 1 = {}
      BY <2>1
    <3> QED
      BY <2>1, <2>2, <3>1 DEF Advances, r
  <2>3. ASSUME NEW a \in Nat, NEW c \in Nat, Fits(op, h, a, c), Nums(s, op, h) = a..c - 1
        PROVE  Advances(s, op, h)
    <3>1. \/ r = a /\ r2 = c /\ a <= c
          \/ op \notin OnceKinds /\ r2 = r /\ c <= r
      BY <2>3 DEF Fits
    <3>2. c <= r => a..c - 1 \subseteq 0..r - 1
      BY <2>1
    <3> QED
      BY <2>3, <3>1, <3>2 DEF Advances
  <2> QED
    BY <1>3, <2>2, <2>3
<1>6. ASSUME NEW h \in 0..NumItr - 1
      PROVE  InTime(s, h)
  <2>1. {"score-wrgb", "score-mac", "score-mvsb", "sfm", "context-mvgb", "context-mac"}
          \subseteq Kinds
    BY DEF Kinds, OnceKinds
  <2>2. ASSUME Nums(s, "score-wrgb", h) # {} PROVE Reach("score-mac", h)' = 0
    <3>1. PICK a, c \in Nat : Fits("score-wrgb", h, a, c) /\ Nums(s, "score-wrgb", h) = a..c - 1
      BY <1>3, <2>1, <2>2
    <3>2. a < c
      BY <2>2, <3>1
    <3> QED
      BY <3>1, <3>2 DEF Fits
  <2>3. ASSUME NEW n \in Nums(s, "score-mac", h)
        PROVE  Reach("score-mvsb", h)' <= n \div Group
    <3>1. PICK a, c \in Nat : Fits("score-mac", h, a, c) /\ Nums(s, "score-mac", h) = a..c - 1
      BY <1>3, <2>1
    <3> QED
      BY <3>1 DEF Fits
  <2>4. ASSUME Nums(s, "context-mvgb", h) # {} PROVE Reach("context-mac", h)' = 0
    <3>1. PICK a, c \in Nat : Fits("context-mvgb", h, a, c) /\ Nums(s, "context-mvgb", h) = a..c - 1
      BY <1>3, <2>1, <2>4
    <3>2. a < c
      BY <2>4, <3>1
    <3> QED
      BY <3>1, <3>2 DEF Fits
  <2>5. ASSUME NEW n \in Nums(s, "context-mac", h)
        PROVE  Reach("context-mvsb", h)' <= n \/ n < Reach("context-mac", h)
    <3>1. PICK a, c \in Nat : Fits("context-mac", h, a, c) /\ Nums(s, "context-mac", h) = a..c - 1
      BY <1>3, <2>1
    <3> QED
      BY <3>1 DEF Fits
  <2>6. ASSUME Nums(s, "score-mvsb", h) # {} PROVE Reach("sfm", h)' = 0
    <3>1. PICK a, c \in Nat : Fits("score-mvsb", h, a, c) /\ Nums(s, "score-mvsb", h) = a..c - 1
      BY <1>3, <2>1, <2>6
    <3>2. a < c
      BY <2>6, <3>1
    <3> QED
      BY <3>1, <3>2 DEF Fits
  <2>7. ASSUME Nums(s, "sfm", h) # {} PROVE Reach("context-mvgb", h) = 0
    <3>1. PICK a, c \in Nat : Fits("sfm", h, a, c) /\ Nums(s, "sfm", h) = a..c - 1
      BY <1>3, <2>1, <2>7
    <3>2. a < c
      BY <2>7, <3>1
    <3> QED
      BY <3>1, <3>2 DEF Fits
  <2> QED
    BY <2>2, <2>3, <2>4, <2>5, <2>6, <2>7 DEF InTime
<1>7. Writes(s)
  BY <1>1, <1>2, <1>5, <1>6 DEF Writes
<1> QED
  BY <1>7, WriteStep

----------------------------------------------------------------------------
(* Where the next step goes, and what is reached there.                    *)
LEMMA LateZero ==
    ASSUME NEW size \in Nat, NEW length \in Nat \ {0}
    PROVE  Late(size, length, 0) = 0
<1> DEFINE half == length \div 2
           one == size \div CeilDiv(length, 2)
<1>1. half \in Nat /\ one \in Nat
  BY HalfSizes
<1>2. Late(size, length, 0) = IF 0 < half THEN 0 ELSE (0 - half) * one
  BY LateValue
<1> HIDE DEF half, one
<1>3. 0 < half \/ 0 - half = 0
  BY <1>1
<1>4. 0 * one = 0
  BY <1>1
<1> QED
  BY <1>2, <1>3, <1>4

(* The beat after the last of a section is the first of the next.          *)
LEMMA Handover ==
    ASSUME p \in Params, NEW g \in Nat, NEW op \in Kinds, NEW h \in 0..NumItr - 1, g % 2 = 0
    PROVE  /\ g + 1 < NumItr =>
                /\ ReachAt("softmax", g, 0, op, h) = ReachAt("score", g, Rounds + 1, op, h)
                /\ ReachAt("context", g, 0, op, h) = ReachAt("softmax", g, Rounds + 1, op, h)
                /\ ReachAt("context1", g, 0, op, h) = ReachAt("context", g, Columns + 1, op, h)
           /\ g + 1 = NumItr =>
                /\ ReachAt("tail-softmax", g, 0, op, h)
                     = ReachAt("tail-score", g, Rounds + 1, op, h)
                /\ ReachAt("done", g, 0, op, h) = ReachAt("tail-context", g, Columns + 1, op, h)
<1>1. /\ NumItr \in Nat \ {0} /\ Outputs \in Nat \ {0} /\ Columns \in Nat \ {0}
      /\ Rounds \in Nat \ {0} /\ Group \in Nat \ {0} /\ h \in Nat
      /\ Words(h) \in Nat /\ Moves(h) \in Nat
  <2>1. h \in Nat
    BY Sizes
  <2> QED
    BY <2>1, Sizes, TraceAssumption
<1>2. /\ Least(Rounds + 1, Rounds) = Rounds /\ Least(Columns + 1, Columns) = Columns
      /\ Before(Rounds + 1) = Rounds /\ Before(Columns + 1) = Columns
      /\ Least(0, Rounds) = 0 /\ Least(0, Columns) = 0 /\ Before(0) = 0
      /\ Rounds + 1 # 0 /\ Columns + 1 # 0
  BY <1>1 DEF Least, Before
<1>3. Least((Rounds + 1) * Group, Outputs) = Outputs /\ Least(0 * Group, Outputs) = 0
  <2>1. (Rounds + 1) * Group = Rounds * Group + Group /\ Outputs <= Rounds * Group
        /\ 0 * Group = 0 /\ Rounds * Group \in Nat
    BY <1>1, Sizes
  <2> QED
    BY <1>1, <2>1 DEF Least
<1>4. Late(Moves(h), Rounds, 0) = 0 /\ Late(Moves(h), Columns, 0) = 0
  BY <1>1, LateZero
<1>5. (g + 1) % 2 = 1
  BY SMT
<1>6. op \in {"score-wrgb", "score-mac", "score-mvsb", "sfm", "context-mvgb",
              "context-mac", "context-mvsb"}
  BY DEF Kinds, OnceKinds
<1>7. h \in 0..NumItr - 1 /\ (h < g \/ h = g \/ h = g + 1 \/ h > g + 1)
  BY <1>1
<1> DEFINE R == Rounds
           C == Columns
<1> HIDE DEF R, C
<1>8. ASSUME NEW s \in {"score", "softmax", "context", "context1", "tail-score",
                        "tail-softmax", "tail-context"}, NEW n
      PROVE  ReachAt(s, g, n, op, h)
               = IF h < g THEN Whole(op, h) ELSE IF h = g THEN OfHead0(s, h, n, op)
                 ELSE IF h = g + 1 THEN OfHead1(s, h, n, op) ELSE 0
  BY DEF ReachAt
<1>9. ASSUME g + 1 < NumItr
      PROVE  ReachAt("softmax", g, 0, op, h) = ReachAt("score", g, Rounds + 1, op, h)
  <2>1. h = g => OfHead0("softmax", h, 0, op) = OfHead0("score", h, Rounds + 1, op)
    BY <1>2, <1>3, <1>4, <1>6 DEF OfHead0, Softened, Scoring, Scored, Whole
  <2>2. h = g + 1 => OfHead1("softmax", h, 0, op) = OfHead1("score", h, Rounds + 1, op)
    BY <1>2, <1>3, <1>5, <1>6 DEF OfHead1, Scoring, Whole
  <2> QED
    BY <1>8, <2>1, <2>2
<1>10. ASSUME g + 1 < NumItr
       PROVE  ReachAt("context", g, 0, op, h) = ReachAt("softmax", g, Rounds + 1, op, h)
  <2>1. h = g => OfHead0("context", h, 0, op) = OfHead0("softmax", h, Rounds + 1, op)
    <3> SUFFICES ASSUME h = g
                 PROVE  OfHead0("context", h, 0, op) = OfHead0("softmax", h, Rounds + 1, op)
      OBVIOUS
    <3>1. h % 2 = 0 /\ h % 2 # 1 /\ h + 1 # NumItr
      BY <1>1, <1>10
    <3> QED
      BY <1>2, <1>6, <3>1 DEF OfHead0, Softened, Scored, Contexting, Whole
  <2>2. h = g + 1 => OfHead1("context", h, 0, op) = OfHead1("softmax", h, Rounds + 1, op)
    BY <1>2, <1>3, <1>4, <1>6 DEF OfHead1, Scoring, Softened, Scored, Whole
  <2> QED
    BY <1>8, <2>1, <2>2
<1>11. ASSUME g + 1 < NumItr
       PROVE  ReachAt("context1", g, 0, op, h) = ReachAt("context", g, Columns + 1, op, h)
  <2>1. h = g => OfHead0("context1", h, 0, op) = OfHead0("context", h, Columns + 1, op)
    BY <1>2, <1>6 DEF OfHead0, Contexting, Whole
  <2>2. h = g + 1 => OfHead1("context1", h, 0, op) = OfHead1("context", h, Columns + 1, op)
    BY <1>2, <1>5, <1>6 DEF OfHead1, Softened, Scored, Whole
  <2> QED
    BY <1>8, <2>1, <2>2
<1>12. ASSUME g + 1 = NumItr
       PROVE  ReachAt("tail-softmax", g, 0, op, h) = ReachAt("tail-score", g, Rounds + 1, op, h)
  <2>1. h = g => OfHead0("tail-softmax", h, 0, op) = OfHead0("tail-score", h, Rounds + 1, op)
    BY <1>2, <1>3, <1>6 DEF OfHead0, Scoring, Scored, Whole
  <2>2. ~(h = g + 1)
    BY <1>1, <1>12
  <2> QED
    BY <1>8, <2>1, <2>2
<1>13. ASSUME g + 1 = NumItr
       PROVE  ReachAt("done", g, 0, op, h) = ReachAt("tail-context", g, Columns + 1, op, h)
  <2>1. h = g => Whole(op, h) = OfHead0("tail-context", h, Columns + 1, op)
    BY <1>2, <1>6 DEF OfHead0, Contexting, Whole
  <2>2. ~(h = g + 1) /\ (h < g \/ h = g)
    BY <1>1, <1>13
  <2>3. ReachAt("done", g, 0, op, h) = Whole(op, h)
    BY DEF ReachAt
  <2> QED
    BY <1>8, <2>1, <2>2, <2>3
<1> QED
  BY <1>9, <1>10, <1>11, <1>12, <1>13

LEMMA LoopReach ==
    ASSUME Where, NEW s, NEW next, NEW length, NEW block, section = s, Loop(length, next, block),
           <<s, next, length>> \in {<<"score", "softmax", Rounds>>,
                                    <<"softmax", "context", Rounds>>,
                                    <<"context", "context1", Columns>>,
                                    <<"tail-score", "tail-softmax", Rounds>>,
                                    <<"tail-context", "done", Columns>>},
           NEW g, g = i, NEW k, k = j
    PROVE  \A op \in Kinds, h \in 0..NumItr - 1 :
              /\ Reach(op, h) = ReachAt(s, g, k, op, h)
              /\ Reach(op, h)' = ReachAt(s, g, k + 1, op, h)
<1>1. /\ p \in Params /\ g \in Nat /\ k \in Nat /\ g % 2 = 0 /\ k <= length
      /\ length \in Nat
      /\ s \in Pair => g + 1 < NumItr
      /\ s \in Single => g + 1 = NumItr
  BY Sizes DEF Where
<1>2. p' = p /\ i' = g
  BY DEF Loop
<1>3. \A op, h : Reach(op, h)' = ReachAt(section', i', j', op, h)
  BY <1>2, ReachNext
<1>4. CASE k < length
  <2>1. section' = s /\ j' = k + 1
    BY <1>4 DEF Loop
  <2> QED
    BY <1>2, <1>3, <2>1 DEF Reach
<1>5. CASE k = length
  <2>1. section' = next /\ j' = 0
    BY <1>1, <1>5 DEF Loop
  <2> SUFFICES ASSUME NEW op \in Kinds, NEW h \in 0..NumItr - 1
               PROVE  ReachAt(next, g, 0, op, h) = ReachAt(s, g, k + 1, op, h)
    BY <1>2, <1>3, <2>1 DEF Reach
  <2>2. /\ s \in {"score", "softmax", "context"} => g + 1 < NumItr
        /\ s \in {"tail-score", "tail-context"} => g + 1 = NumItr
    BY <1>1 DEF Pair, Single
  <2>3. /\ g + 1 < NumItr =>
              /\ ReachAt("softmax", g, 0, op, h) = ReachAt("score", g, Rounds + 1, op, h)
              /\ ReachAt("context", g, 0, op, h) = ReachAt("softmax", g, Rounds + 1, op, h)
              /\ ReachAt("context1", g, 0, op, h) = ReachAt("context", g, Columns + 1, op, h)
        /\ g + 1 = NumItr =>
              /\ ReachAt("tail-softmax", g, 0, op, h)
                   = ReachAt("tail-score", g, Rounds + 1, op, h)
              /\ ReachAt("done", g, 0, op, h) = ReachAt("tail-context", g, Columns + 1, op, h)
    BY <1>1, Handover
  <2> QED
    BY <1>5, <2>2, <2>3
<1> QED
  BY <1>1, <1>4, <1>5

(* Every step stays within the sections and their beats.                   *)
LEMMA WhereNext == Where /\ Next => Where'
<1> SUFFICES ASSUME Where, Next PROVE Where'
  OBVIOUS
<1> USE DEF Where, Pair, Single
<1>1. p' = p
  BY DEF Next, WriteHead0, ScoreHead0, SoftmaxHead0, ContextHead0, ContextHead1, TailWrite,
         TailScore, TailSoftmax, TailContext, Done, Straight, Loop, vars
<1>2. NumItr' = NumItr /\ Rounds' = Rounds /\ Columns' = Columns
  BY <1>1 DEF NumItr, Rounds, Columns, Units
<1>3. NumItr \in Nat \ {0} /\ Rounds \in Nat \ {0} /\ Columns \in Nat \ {0}
  BY Sizes
<1>4. CASE WriteHead0
  BY <1>1, <1>2, <1>3, <1>4 DEF WriteHead0, Straight
<1>5. CASE ScoreHead0
  BY <1>1, <1>2, <1>3, <1>5 DEF ScoreHead0, Loop
<1>6. CASE SoftmaxHead0
  BY <1>1, <1>2, <1>3, <1>6 DEF SoftmaxHead0, Loop
<1>7. CASE ContextHead0
  BY <1>1, <1>2, <1>3, <1>7 DEF ContextHead0, Loop
<1>8. CASE ContextHead1
  <2>1. CASE j < Columns
    BY <1>1, <1>2, <1>3, <1>8, <2>1 DEF ContextHead1
  <2>2. CASE j = Columns
    <3>1. i' = i + 2 /\ j' = 0 /\ section' = Enter(i + 2) /\ i + 1 < NumItr
      BY <1>3, <1>8, <2>2 DEF ContextHead1
    <3>2. i + 2 \in Nat /\ (i + 2) % 2 = 0 /\ i + 2 <= NumItr
      BY <1>3, <3>1
    <3>3. /\ Enter(i + 2) \in {"write", "tail-write", "done"}
          /\ Enter(i + 2) = "write" => i + 2 + 1 < NumItr
          /\ Enter(i + 2) = "tail-write" => i + 2 + 1 = NumItr
          /\ Enter(i + 2) = "done" => i + 2 >= NumItr
      BY <1>3, <3>2 DEF Enter
    <3> QED
      BY <1>1, <1>2, <1>3, <3>1, <3>2, <3>3
  <2> QED
    BY <1>3, <1>8, <2>1, <2>2 DEF ContextHead1
<1>9. CASE TailWrite
  BY <1>1, <1>2, <1>3, <1>9 DEF TailWrite, Straight
<1>10. CASE TailScore
  BY <1>1, <1>2, <1>3, <1>10 DEF TailScore, Loop
<1>11. CASE TailSoftmax
  BY <1>1, <1>2, <1>3, <1>11 DEF TailSoftmax, Straight
<1>12. CASE TailContext
  BY <1>1, <1>2, <1>3, <1>12 DEF TailContext, Loop
<1>13. CASE Done
  BY <1>1, <1>2, <1>13 DEF Done, vars
<1> QED
  BY <1>4, <1>5, <1>6, <1>7, <1>8, <1>9, <1>10, <1>11, <1>12, <1>13 DEF Next

----------------------------------------------------------------------------
(* The runs of the sections fit.                                           *)
LEMMA ScoringFits ==
    ASSUME p \in Params, NEW k \in Nat, k <= Rounds, NEW h,
           Reach("score-mac", h) = Least(k * Group, Outputs),
           Reach("score-mac", h)' = Least((k + 1) * Group, Outputs),
           Reach("score-mvsb", h) = Before(k), Reach("score-mvsb", h)' = Before(k + 1),
           Reach("sfm", h)' = 0
    PROVE  /\ Least(k * Group, Outputs) \in Nat /\ Least((k + 1) * Group, Outputs) \in Nat
           /\ Before(k) \in Nat
           /\ Fits("score-mac", h, Least(k * Group, Outputs), Least((k + 1) * Group, Outputs))
           /\ Fits("score-mvsb", h, Before(k), k)
           /\ k = Rounds => Least(k * Group, Outputs) = Least((k + 1) * Group, Outputs)
<1> DEFINE u == k * Group
           w == (k + 1) * Group
           o == Outputs
<1>1. Rounds \in Nat /\ o \in Nat /\ Group \in Nat \ {0} /\ o <= Rounds * Group
  BY Sizes, TraceAssumption
<1>2. u \in Nat /\ w \in Nat /\ w = u + Group /\ (k = Rounds => o <= u)
  BY <1>1
<1>3. Before(k) \in Nat /\ Before(k) <= k /\ Before(k + 1) = k
  BY DEF Before
<1>4. ASSUME NEW n \in Nat, n >= u PROVE k <= n \div Group
  <2> DEFINE q == n \div Group
  <2>1. q \in Nat /\ n < (q + 1) * Group
    BY <1>1, DivBounds
  <2> HIDE DEF q
  <2>2. ASSUME q + 1 <= k PROVE FALSE
    <3>1. (q + 1) * Group <= k * Group
      BY <1>1, <2>1, <2>2
    <3> QED
      BY <1>1, <1>2, <1>4, <2>1, <3>1
  <2> QED
    BY <2>1, <2>2 DEF q
<1> HIDE DEF u, w, o
<1>5. /\ Least(u, o) \in Nat /\ Least(w, o) \in Nat /\ Least(u, o) <= Least(w, o)
      /\ k = Rounds => Least(u, o) = Least(w, o)
  BY <1>1, <1>2 DEF Least
<1>6. \A n \in Least(u, o)..Least(w, o) - 1 : n \in Nat /\ n >= u
  BY <1>1, <1>2 DEF Least
<1>7. Fits("score-mac", h, Least(u, o), Least(w, o))
  <2>1. \A n \in Least(u, o)..Least(w, o) - 1 : Reach("score-mvsb", h)' <= n \div Group
    BY <1>3, <1>4, <1>6
  <2>2. Reach("score-mac", h) = Least(u, o) /\ Reach("score-mac", h)' = Least(w, o)
    BY DEF u, w, o
  <2> QED
    BY <1>5, <2>1, <2>2 DEF Fits
<1>8. Fits("score-mvsb", h, Before(k), k)
  BY <1>3 DEF Fits
<1> QED
  BY <1>3, <1>5, <1>7, <1>8 DEF u, w, o

LEMMA ContextFits ==
    ASSUME p \in Params, NEW k \in Nat, k <= Columns, NEW h,
           \/ /\ Reach("context-mac", h) = k /\ Reach("context-mac", h)' = Least(k + 1, Columns)
              /\ Reach("context-mvsb", h) = Before(k)
              /\ Reach("context-mvsb", h)' = Before(k + 1)
           \/ /\ Reach("context-mac", h) = Columns /\ Reach("context-mac", h)' = Columns
              /\ Reach("context-mvsb", h) = Columns /\ Reach("context-mvsb", h)' = Columns
    PROVE  /\ Least(k + 1, Columns) \in Nat /\ Before(k) \in Nat
           /\ Fits("context-mac", h, k, Least(k + 1, Columns))
           /\ Fits("context-mvsb", h, Before(k), k)
           /\ k = Columns => Least(k + 1, Columns) = k
<1>1. /\ Columns \in Nat /\ Before(k) \in Nat /\ Before(k) <= k /\ Before(k + 1) = k
      /\ Least(k + 1, Columns) \in Nat /\ k <= Least(k + 1, Columns)
      /\ Least(k + 1, Columns) <= Columns
      /\ k = Columns => Least(k + 1, Columns) = k
  BY Sizes DEF Before, Least
<1>2. "context-mac" \notin OnceKinds /\ "context-mvsb" \notin OnceKinds
  BY DEF OnceKinds
<1>3. CASE /\ Reach("context-mac", h) = k /\ Reach("context-mac", h)' = Least(k + 1, Columns)
           /\ Reach("context-mvsb", h) = Before(k)
           /\ Reach("context-mvsb", h)' = Before(k + 1)
  BY <1>1, <1>3 DEF Fits
<1>4. CASE /\ Reach("context-mac", h) = Columns /\ Reach("context-mac", h)' = Columns
           /\ Reach("context-mvsb", h) = Columns /\ Reach("context-mvsb", h)' = Columns
  BY <1>1, <1>2, <1>4 DEF Fits
<1> QED
  BY <1>1, <1>3, <1>4

(* Runs of no kind. *)
LEMMA NothingFits ==
    ASSUME NEW o \in {"dummy-mac", "barrier"}, NEW h, NEW a, NEW b
    PROVE  Fits(o, h, a, b)
  BY DEF Fits, Kinds, OnceKinds

LEMMA SfmFits ==
    ASSUME NEW k \in Nat, NEW h, Reach("sfm", h) = (IF k = 0 THEN 0 ELSE 1),
           Reach("sfm", h)' = 1, k = 0 => Reach("context-mvgb", h) = 0
    PROVE  Fits("sfm", h, IF k = 0 THEN 0 ELSE 1, 1)
  BY DEF Fits

LEMMA LateFits ==
    ASSUME NEW size \in Nat, NEW length \in Nat \ {0}, NEW k \in Nat, k <= length, NEW h,
           Reach("context-mvgb", h) = Late(size, length, Least(k, length)),
           Reach("context-mvgb", h)' = Late(size, length, Least(k + 1, length)),
           Reach("context-mac", h)' = 0
    PROVE  /\ Late(size, length, k) \in Nat /\ Late(size, length, Least(k + 1, length)) \in Nat
           /\ Fits("context-mvgb", h, Late(size, length, k),
                   Late(size, length, Least(k + 1, length)))
           /\ k = length => Late(size, length, k) = Late(size, length, Least(k + 1, length))
<1> DEFINE half == length \div 2
           one == size \div CeilDiv(length, 2)
<1>1. half \in Nat /\ one \in Nat
  BY HalfSizes
<1>2. /\ k < half => Late(size, length, k) = 0 /\ Late(size, length, k + 1) = 0
      /\ k >= half => /\ Late(size, length, k) = (k - half) * one
                      /\ Late(size, length, k + 1) = (k - half + 1) * one
  BY LateGrows
<1>3. Least(k, length) = k /\ (Least(k + 1, length) = k + 1 \/ Least(k + 1, length) = k)
      /\ (k = length => Least(k + 1, length) = k)
  BY DEF Least
<1>4. Late(size, length, k) \in Nat /\ Late(size, length, k + 1) \in Nat
  <2>1. k + 1 \in Nat
    OBVIOUS
  <2> QED
    BY <2>1, LateType
<1> HIDE DEF half, one
<1>5. k >= half => (k - half + 1) * one = (k - half) * one + one
  BY <1>1
<1>6. Late(size, length, k) <= Late(size, length, k + 1)
  <2>1. CASE k < half
    BY <1>2, <2>1
  <2>2. CASE k >= half
    BY <1>1, <1>2, <1>4, <1>5, <2>2
  <2> QED
    BY <1>1, <2>1, <2>2
<1> QED
  BY <1>3, <1>4, <1>6 DEF Fits

LEMMA WordsFit ==
    ASSUME p \in Params, NEW size \in Nat, NEW k \in Nat, k <= Rounds, NEW h,
           Reach("score-wrgb", h) = Part(size, Least(k, Rounds)),
           Reach("score-wrgb", h)' = Part(size, Least(k + 1, Rounds)),
           Reach("score-mac", h)' = 0
    PROVE  /\ Part(size, k) \in Nat /\ Part(size, Least(k + 1, Rounds)) \in Nat
           /\ Fits("score-wrgb", h, Part(size, k), Part(size, Least(k + 1, Rounds)))
           /\ k = Rounds => Part(size, k) = Part(size, Least(k + 1, Rounds))
<1> DEFINE one == size \div Rounds
<1>1. Rounds \in Nat \ {0} /\ one \in Nat
  BY Sizes, DivBounds
<1>2. /\ Part(size, k) = k * one /\ Part(size, k + 1) = (k + 1) * one
      /\ Part(size, k) \in Nat /\ Part(size, k + 1) \in Nat
  BY PartType DEF Part
<1>3. Least(k, Rounds) = k /\ (Least(k + 1, Rounds) = k + 1 \/ Least(k + 1, Rounds) = k)
      /\ (k = Rounds => Least(k + 1, Rounds) = k)
  BY <1>1 DEF Least
<1> HIDE DEF one
<1>4. Part(size, k) <= Part(size, k + 1)
  BY <1>1, <1>2
<1> QED
  BY <1>2, <1>3, <1>4 DEF Fits

(* What the sections have reached, by their definition.                    *)
LEMMA HeadsOf ==
    ASSUME NEW s \in Pair \cup Single, NEW g \in Nat, NEW n, NEW op, NEW h \in Nat
    PROVE  ReachAt(s, g, n, op, h)
             = IF h < g THEN Whole(op, h) ELSE IF h = g THEN OfHead0(s, h, n, op)
               ELSE IF h = g + 1 THEN OfHead1(s, h, n, op) ELSE 0
  BY DEF ReachAt, Pair, Single

LEMMA ScoreStep ==
    ASSUME IInv, ScoreHead0, Where', NEW g, g = i, NEW k, k = j
    PROVE  IInv'
<1> DEFINE block == Beat(Rounds, Slice(ScoreMac(i), j, Group), ScoreMvsb(i, j - 1),
                         IF j < Rounds
                         THEN Slice(ScoreWrgb(i + 1), j, Words(i + 1) \div Rounds) ELSE <<>>)
           m == IF j < Rounds THEN Slice(ScoreMac(g), j, Group) ELSE <<>>
           v == IF j > 0 THEN ScoreMvsb(g, j - 1) ELSE <<>>
           f == IF j < Rounds
                THEN Slice(ScoreWrgb(g + 1), j, Words(g + 1) \div Rounds) ELSE <<>>
           b == IF j < Rounds THEN Barrier ELSE <<>>
           w == Words(g + 1)
<1>1. /\ Where /\ section = "score" /\ Loop(Rounds, "softmax", block) /\ p' = p
  BY DEF IInv, ScoreHead0, Loop
<1>2. /\ p \in Params /\ g \in Nat /\ k \in Nat /\ k <= Rounds /\ g % 2 = 0
      /\ g \in 0..NumItr - 1 /\ g + 1 \in 0..NumItr - 1
  <2>1. g + 1 < NumItr /\ NumItr \in Nat
    BY <1>1, Sizes DEF Where, Pair
  <2> QED
    BY <1>1, <2>1 DEF Where
<1>3. total_cmd' = total_cmd \o (m \o v \o (f \o <<>>) \o b)
  <2>1. f \o <<>> = f
    <3>1. IsRun(f, "score-wrgb", g + 1, Part(w, j), Part(w, Least(j + 1, Rounds)))
      BY <1>1, <1>2, WordRun
    <3> HIDE DEF f
    <3> QED
      BY <3>1 DEF IsRun
  <2> QED
    BY <1>1, <2>1 DEF Loop, Beat
<1>4. \A op \in Kinds, h \in 0..NumItr - 1 :
          /\ Reach(op, h) = ReachAt("score", g, k, op, h)
          /\ Reach(op, h)' = ReachAt("score", g, k + 1, op, h)
  <2> HIDE DEF block
  <2> QED
    BY <1>1, LoopReach
<1>5. ASSUME NEW op \in Kinds, NEW h \in 0..NumItr - 1
      PROVE  /\ h = g => /\ Reach(op, h) = Scoring(op, h, k)
                         /\ Reach(op, h)' = Scoring(op, h, k + 1)
             /\ h = g + 1 =>
                   /\ Reach(op, h)
                        = IF op = "score-wrgb" THEN Part(w, Least(k, Rounds)) ELSE 0
                   /\ Reach(op, h)'
                        = IF op = "score-wrgb" THEN Part(w, Least(k + 1, Rounds)) ELSE 0
             /\ h # g /\ h # g + 1 => Reach(op, h)' = Reach(op, h)
  <2>1. h \in Nat /\ "score" \in Pair
    BY <1>2, Sizes DEF Pair
  <2> QED
    BY <1>2, <1>4, <2>1, HeadsOf DEF OfHead0, OfHead1
<1> DEFINE a1 == Least(k * Group, Outputs)
           b1 == Least((k + 1) * Group, Outputs)
           a3 == Part(w, k)
           b3 == Part(w, Least(k + 1, Rounds))
<1>kinds. {"score-wrgb", "score-mac", "score-mvsb", "sfm"} \subseteq Kinds
  BY DEF Kinds, OnceKinds
<1>6. IsRun(m, "score-mac", g, a1, b1) /\ IsRun(v, "score-mvsb", g, Before(k), k)
  BY <1>1, <1>2, ScoreRuns
<1>7. /\ a1 \in Nat /\ b1 \in Nat /\ Before(k) \in Nat
      /\ Fits("score-mac", g, a1, b1) /\ Fits("score-mvsb", g, Before(k), k)
      /\ k = Rounds => a1 = b1
  <2>1. /\ Reach("score-mac", g) = a1 /\ Reach("score-mac", g)' = b1
        /\ Reach("score-mvsb", g) = Before(k) /\ Reach("score-mvsb", g)' = Before(k + 1)
        /\ Reach("sfm", g)' = 0
    BY <1>2, <1>5, <1>kinds DEF Scoring
  <2> QED
    BY <1>2, <2>1, ScoringFits
<1>8. IsRun(f, "score-wrgb", g + 1, a3, b3)
  BY <1>1, <1>2, WordRun
<1>9. /\ a3 \in Nat /\ b3 \in Nat /\ Fits("score-wrgb", g + 1, a3, b3)
      /\ k = Rounds => a3 = b3
  <2>1. /\ Reach("score-wrgb", g + 1) = Part(w, Least(k, Rounds))
        /\ Reach("score-wrgb", g + 1)' = Part(w, Least(k + 1, Rounds))
        /\ Reach("score-mac", g + 1)' = 0
    BY <1>2, <1>5, <1>kinds
  <2>2. w \in Nat
    BY <1>2, Sizes
  <2> QED
    BY <1>2, <2>1, <2>2, WordsFit
<1>10. IsRun(<<>>, "barrier", 0, 0, 0) /\ Fits("barrier", 0, 0, 0)
  BY NoRun, NothingFits
<1>11. ASSUME NEW op \in Kinds, NEW h \in 0..NumItr - 1,
              Fresh(op, h, "score-mac", g), Fresh(op, h, "score-mvsb", g),
              Fresh(op, h, "score-wrgb", g + 1)
       PROVE  Reach(op, h)' = Reach(op, h)
  <2>1. h = g => Scoring(op, h, k) = Scoring(op, h, k + 1)
    BY <1>11 DEF Scoring, Fresh
  <2> QED
    BY <1>5, <1>11, <2>1 DEF Fresh
<1>12. /\ b = Barrier \/ b = <<>>
       /\ b = <<>> => k = Rounds
  <2>1. Barrier # <<>>
    BY DEF Barrier
  <2> HIDE DEF m, v, f, w, a1, b1, a3, b3, block
  <2>2. Rounds \in Nat
    BY <1>2, Sizes
  <2> QED
    BY <1>2, <2>1, <2>2
<1> HIDE DEF m, v, f, b, a1, b1, a3, b3, w, block
<1>13. Pieces(m, "score-mac", g, a1, b1, v, "score-mvsb", g, Before(k), k,
              f, "score-wrgb", g + 1, a3, b3, <<>>, "barrier", 0, 0, 0, b)
  <2>1. \A op \in Kinds, h \in 0..NumItr - 1 :
            /\ Fresh(op, h, "score-mac", g) /\ Fresh(op, h, "score-mvsb", g)
            /\ Fresh(op, h, "score-wrgb", g + 1) /\ Fresh(op, h, "barrier", 0)
            => Reach(op, h)' = Reach(op, h)
    BY <1>11
  <2>2. b = <<>> => /\ "score-mac" \in Feeders => a1 >= b1
                    /\ "score-mvsb" \in Feeders => Before(k) >= k
                    /\ "score-wrgb" \in Feeders => a3 >= b3
                    /\ "barrier" \in Feeders => 0 >= 0
    BY <1>7, <1>9, <1>12 DEF Feeders
  <2>3. /\ Fresh("score-mac", g, "score-mvsb", g) /\ Fresh("score-mac", g, "score-wrgb", g + 1)
        /\ Fresh("score-mac", g, "barrier", 0) /\ Fresh("score-mvsb", g, "score-wrgb", g + 1)
        /\ Fresh("score-mvsb", g, "barrier", 0) /\ Fresh("score-wrgb", g + 1, "barrier", 0)
    BY DEF Fresh
  <2> QED
    BY <1>2, <1>3, <1>6, <1>7, <1>8, <1>9, <1>10, <1>12, <2>1, <2>2, <2>3 DEF Pieces
<1> QED
  BY <1>1, <1>13, BeatStep

(* The softmax of a head: one run in the first beat. *)
LEMMA SfmRun ==
    ASSUME NEW h \in 0..NumItr - 1, NEW k \in Nat
    PROVE  /\ IsRun(IF k = 0 THEN Sfm(h) ELSE <<>>, "sfm", h, IF k = 0 THEN 0 ELSE 1, 1)
           /\ (IF k = 0 THEN 0 ELSE 1) \in Nat
<1>1. IsRun(<<Block("sfm", h, 0)>>, "sfm", h, 0, 0 + 1)
  <2>1. "sfm" \in Ops
    BY DEF Ops
  <2> QED
    BY <2>1, OneRun
<1>2. IsRun(<<>>, "sfm", h, 1, 1)
  BY NoRun
<1>3. CASE k = 0
  BY <1>1, <1>3 DEF Sfm
<1>4. CASE k # 0
  BY <1>2, <1>4
<1> QED
  BY <1>3, <1>4

LEMMA SoftmaxStep ==
    ASSUME IInv, SoftmaxHead0, Where', NEW g, g = i, NEW k, k = j
    PROVE  IInv'
<1> DEFINE block == Beat(Rounds, Slice(ScoreMac(i + 1), j, Group), ScoreMvsb(i + 1, j - 1),
                         (IF j = 0 THEN Sfm(i) ELSE <<>>)
                             \o LateSlice(ContextMvgb(i), j, Rounds))
           m == IF j < Rounds THEN Slice(ScoreMac(g + 1), j, Group) ELSE <<>>
           v == IF j > 0 THEN ScoreMvsb(g + 1, j - 1) ELSE <<>>
           f == IF k = 0 THEN Sfm(g) ELSE <<>>
           x == LateSlice(ContextMvgb(g), j, Rounds)
           b == IF j < Rounds THEN Barrier ELSE <<>>
           w == Moves(g)
<1>1. /\ Where /\ section = "softmax" /\ Loop(Rounds, "context", block) /\ p' = p
  BY DEF IInv, SoftmaxHead0, Loop
<1>2. /\ p \in Params /\ g \in Nat /\ k \in Nat /\ k <= Rounds /\ g % 2 = 0
      /\ g \in 0..NumItr - 1 /\ g + 1 \in 0..NumItr - 1
      /\ w \in Nat /\ Rounds \in Nat \ {0}
  <2>1. g + 1 < NumItr /\ NumItr \in Nat
    BY <1>1, Sizes DEF Where, Pair
  <2>2. w \in Nat /\ Rounds \in Nat \ {0}
    BY <1>1, Sizes DEF Where
  <2> HIDE DEF w
  <2> QED
    BY <1>1, <2>1, <2>2 DEF Where
<1>3. total_cmd' = total_cmd \o (m \o v \o (f \o x) \o b)
  BY <1>1 DEF Loop, Beat
<1>4. \A op \in Kinds, h \in 0..NumItr - 1 :
          /\ Reach(op, h) = ReachAt("softmax", g, k, op, h)
          /\ Reach(op, h)' = ReachAt("softmax", g, k + 1, op, h)
  <2> HIDE DEF block
  <2> QED
    BY <1>1, LoopReach
<1>5. ASSUME NEW op \in Kinds, NEW h \in 0..NumItr - 1
      PROVE  /\ h = g => /\ Reach(op, h) = Softened(op, h, Rounds, k)
                         /\ Reach(op, h)' = Softened(op, h, Rounds, k + 1)
             /\ h = g + 1 => /\ Reach(op, h) = Scoring(op, h, k)
                             /\ Reach(op, h)' = Scoring(op, h, k + 1)
             /\ h # g /\ h # g + 1 => Reach(op, h)' = Reach(op, h)
  <2>1. h \in Nat /\ "softmax" \in Pair
    BY <1>2, Sizes DEF Pair
  <2> QED
    BY <1>2, <1>4, <2>1, HeadsOf DEF OfHead0, OfHead1
<1> DEFINE a1 == Least(k * Group, Outputs)
           b1 == Least((k + 1) * Group, Outputs)
           a3 == IF k = 0 THEN 0 ELSE 1
           a4 == Late(w, Rounds, k)
           b4 == Late(w, Rounds, Least(k + 1, Rounds))
<1>kinds. {"score-mac", "score-mvsb", "sfm", "context-mvgb", "context-mac"} \subseteq Kinds
  BY DEF Kinds, OnceKinds
<1>6. IsRun(m, "score-mac", g + 1, a1, b1) /\ IsRun(v, "score-mvsb", g + 1, Before(k), k)
  BY <1>1, <1>2, ScoreRuns
<1>7. /\ a1 \in Nat /\ b1 \in Nat /\ Before(k) \in Nat
      /\ Fits("score-mac", g + 1, a1, b1) /\ Fits("score-mvsb", g + 1, Before(k), k)
      /\ k = Rounds => a1 = b1
  <2>1. /\ Reach("score-mac", g + 1) = a1 /\ Reach("score-mac", g + 1)' = b1
        /\ Reach("score-mvsb", g + 1) = Before(k)
        /\ Reach("score-mvsb", g + 1)' = Before(k + 1)
        /\ Reach("sfm", g + 1)' = 0
    BY <1>2, <1>5, <1>kinds DEF Scoring
  <2> QED
    BY <1>2, <2>1, ScoringFits
<1>8. IsRun(f, "sfm", g, a3, 1) /\ a3 \in Nat
  BY <1>2, SfmRun
<1>9. Fits("sfm", g, a3, 1)
  <2>1. /\ Reach("sfm", g) = a3 /\ Reach("sfm", g)' = 1
        /\ Reach("context-mvgb", g) = Late(w, Rounds, Least(k, Rounds))
    BY <1>2, <1>5, <1>kinds DEF Softened
  <2>2. k = 0 => Reach("context-mvgb", g) = 0
    <3>1. Least(0, Rounds) = 0 /\ Late(w, Rounds, 0) = 0
      BY <1>2, LateZero DEF Least
    <3> QED
      BY <2>1, <3>1
  <2> QED
    BY <1>2, <2>1, <2>2, SfmFits
<1>10. IsRun(x, "context-mvgb", g, a4, b4)
  BY <1>1, <1>2, LateRun
<1>11. /\ a4 \in Nat /\ b4 \in Nat /\ Fits("context-mvgb", g, a4, b4)
       /\ k = Rounds => a4 = b4
  <2>1. /\ Reach("context-mvgb", g) = Late(w, Rounds, Least(k, Rounds))
        /\ Reach("context-mvgb", g)' = Late(w, Rounds, Least(k + 1, Rounds))
        /\ Reach("context-mac", g)' = 0
    BY <1>2, <1>5, <1>kinds DEF Softened, Scored
  <2> HIDE DEF w
  <2> QED
    BY <1>2, <2>1, LateFits
<1>12. ASSUME NEW op \in Kinds, NEW h \in 0..NumItr - 1,
              Fresh(op, h, "score-mac", g + 1), Fresh(op, h, "score-mvsb", g + 1),
              Fresh(op, h, "sfm", g), Fresh(op, h, "context-mvgb", g)
       PROVE  Reach(op, h)' = Reach(op, h)
  <2>1. h = g => Softened(op, h, Rounds, k) = Softened(op, h, Rounds, k + 1)
    BY <1>12 DEF Softened, Fresh
  <2>2. h = g + 1 => Scoring(op, h, k) = Scoring(op, h, k + 1)
    BY <1>12 DEF Scoring, Fresh
  <2> QED
    BY <1>5, <2>1, <2>2
<1>13. /\ b = Barrier \/ b = <<>>
       /\ b = <<>> => k = Rounds
  <2>1. Barrier # <<>>
    BY DEF Barrier
  <2> HIDE DEF m, v, f, x, w, a1, b1, a3, a4, b4, block
  <2> QED
    BY <1>2, <2>1
<1> HIDE DEF m, v, f, x, b, a1, b1, a3, a4, b4, w, block
<1>14. Pieces(m, "score-mac", g + 1, a1, b1, v, "score-mvsb", g + 1, Before(k), k,
              f, "sfm", g, a3, 1, x, "context-mvgb", g, a4, b4, b)
  <2>1. \A op \in Kinds, h \in 0..NumItr - 1 :
            /\ Fresh(op, h, "score-mac", g + 1) /\ Fresh(op, h, "score-mvsb", g + 1)
            /\ Fresh(op, h, "sfm", g) /\ Fresh(op, h, "context-mvgb", g)
            => Reach(op, h)' = Reach(op, h)
    BY <1>12
  <2>2. b = <<>> => /\ "score-mac" \in Feeders => a1 >= b1
                    /\ "score-mvsb" \in Feeders => Before(k) >= k
                    /\ "sfm" \in Feeders => a3 >= 1
                    /\ "context-mvgb" \in Feeders => a4 >= b4
    BY <1>7, <1>11, <1>13 DEF Feeders
  <2>3. /\ Fresh("score-mac", g + 1, "score-mvsb", g + 1)
        /\ Fresh("score-mac", g + 1, "sfm", g) /\ Fresh("score-mac", g + 1, "context-mvgb", g)
        /\ Fresh("score-mvsb", g + 1, "sfm", g)
        /\ Fresh("score-mvsb", g + 1, "context-mvgb", g) /\ Fresh("sfm", g, "context-mvgb", g)
    BY DEF Fresh
  <2> QED
    BY <1>2, <1>3, <1>6, <1>7, <1>8, <1>9, <1>10, <1>11, <1>13, <2>1, <2>2, <2>3 DEF Pieces
<1> QED
  BY <1>1, <1>14, BeatStep

LEMMA ContextStep ==
    ASSUME IInv, ContextHead0, Where', NEW g, g = i, NEW k, k = j
    PROVE  IInv'
<1> DEFINE block == Beat(Columns, ContextMac(i, j), ContextMvsb(i, j - 1),
                         (IF j = 0 THEN Sfm(i + 1) ELSE <<>>)
                             \o LateSlice(ContextMvgb(i + 1), j, Columns))
           m == IF j < Columns THEN ContextMac(g, j) ELSE <<>>
           v == IF j > 0 THEN ContextMvsb(g, j - 1) ELSE <<>>
           f == IF k = 0 THEN Sfm(g + 1) ELSE <<>>
           x == LateSlice(ContextMvgb(g + 1), j, Columns)
           b == IF j < Columns THEN Barrier ELSE <<>>
           w == Moves(g + 1)
<1>1. /\ Where /\ section = "context" /\ Loop(Columns, "context1", block) /\ p' = p
  BY DEF IInv, ContextHead0, Loop
<1>2. /\ p \in Params /\ g \in Nat /\ k \in Nat /\ k <= Columns /\ g % 2 = 0
      /\ g \in 0..NumItr - 1 /\ g + 1 \in 0..NumItr - 1
      /\ w \in Nat /\ Columns \in Nat \ {0}
  <2>1. g + 1 < NumItr /\ NumItr \in Nat /\ g + 1 \in Nat
    BY <1>1, Sizes DEF Where, Pair
  <2>2. w \in Nat /\ Columns \in Nat \ {0}
    BY <1>1, <2>1, Sizes DEF Where
  <2> HIDE DEF w
  <2> QED
    BY <1>1, <2>1, <2>2 DEF Where
<1>3. total_cmd' = total_cmd \o (m \o v \o (f \o x) \o b)
  BY <1>1 DEF Loop, Beat
<1>4. \A op \in Kinds, h \in 0..NumItr - 1 :
          /\ Reach(op, h) = ReachAt("context", g, k, op, h)
          /\ Reach(op, h)' = ReachAt("context", g, k + 1, op, h)
  <2> HIDE DEF block
  <2> QED
    BY <1>1, LoopReach
<1>5. ASSUME NEW op \in Kinds, NEW h \in 0..NumItr - 1
      PROVE  /\ h = g => /\ Reach(op, h) = Contexting(op, h, k)
                         /\ Reach(op, h)' = Contexting(op, h, k + 1)
             /\ h = g + 1 => /\ Reach(op, h) = Softened(op, h, Columns, k)
                             /\ Reach(op, h)' = Softened(op, h, Columns, k + 1)
             /\ h # g /\ h # g + 1 => Reach(op, h)' = Reach(op, h)
  <2>1. h \in Nat /\ "context" \in Pair
    BY <1>2, Sizes DEF Pair
  <2> QED
    BY <1>2, <1>4, <2>1, HeadsOf DEF OfHead0, OfHead1
<1> DEFINE b1 == Least(k + 1, Columns)
           a3 == IF k = 0 THEN 0 ELSE 1
           a4 == Late(w, Columns, k)
           b4 == Late(w, Columns, Least(k + 1, Columns))
<1>kinds. {"sfm", "context-mvgb", "context-mac", "context-mvsb"} \subseteq Kinds
  BY DEF Kinds, OnceKinds
<1>6. IsRun(m, "context-mac", g, k, b1) /\ IsRun(v, "context-mvsb", g, Before(k), k)
  BY <1>1, <1>2, ContextRuns
<1>7. /\ b1 \in Nat /\ Before(k) \in Nat
      /\ Fits("context-mac", g, k, b1) /\ Fits("context-mvsb", g, Before(k), k)
      /\ k = Columns => k = b1
  <2>1. Least(k, Columns) = k
    BY <1>2 DEF Least
  <2>2. /\ Reach("context-mac", g) = k /\ Reach("context-mac", g)' = b1
        /\ Reach("context-mvsb", g) = Before(k)
        /\ Reach("context-mvsb", g)' = Before(k + 1)
    BY <1>2, <1>5, <1>kinds, <2>1 DEF Contexting
  <2> QED
    BY <1>2, <2>2, ContextFits
<1>8. IsRun(f, "sfm", g + 1, a3, 1) /\ a3 \in Nat
  BY <1>2, SfmRun
<1>9. Fits("sfm", g + 1, a3, 1)
  <2>1. /\ Reach("sfm", g + 1) = a3 /\ Reach("sfm", g + 1)' = 1
        /\ Reach("context-mvgb", g + 1) = Late(w, Columns, Least(k, Columns))
    BY <1>2, <1>5, <1>kinds DEF Softened
  <2>2. k = 0 => Reach("context-mvgb", g + 1) = 0
    <3>1. Least(0, Columns) = 0 /\ Late(w, Columns, 0) = 0
      BY <1>2, LateZero DEF Least
    <3> QED
      BY <2>1, <3>1
  <2> QED
    BY <1>2, <2>1, <2>2, SfmFits
<1>10. IsRun(x, "context-mvgb", g + 1, a4, b4)
  BY <1>1, <1>2, LateRun
<1>11. /\ a4 \in Nat /\ b4 \in Nat /\ Fits("context-mvgb", g + 1, a4, b4)
       /\ k = Columns => a4 = b4
  <2>1. /\ Reach("context-mvgb", g + 1) = Late(w, Columns, Least(k, Columns))
        /\ Reach("context-mvgb", g + 1)' = Late(w, Columns, Least(k + 1, Columns))
        /\ Reach("context-mac", g + 1)' = 0
    BY <1>2, <1>5, <1>kinds DEF Softened, Scored
  <2> HIDE DEF w
  <2> QED
    BY <1>2, <2>1, LateFits
<1>12. ASSUME NEW op \in Kinds, NEW h \in 0..NumItr - 1,
              Fresh(op, h, "context-mac", g), Fresh(op, h, "context-mvsb", g),
              Fresh(op, h, "sfm", g + 1), Fresh(op, h, "context-mvgb", g + 1)
       PROVE  Reach(op, h)' = Reach(op, h)
  <2>1. h = g => Contexting(op, h, k) = Contexting(op, h, k + 1)
    BY <1>12 DEF Contexting, Fresh
  <2>2. h = g + 1 => Softened(op, h, Columns, k) = Softened(op, h, Columns, k + 1)
    BY <1>12 DEF Softened, Fresh
  <2> QED
    BY <1>5, <2>1, <2>2
<1>13. /\ b = Barrier \/ b = <<>>
       /\ b = <<>> => k = Columns
  <2>1. Barrier # <<>>
    BY DEF Barrier
  <2> HIDE DEF m, v, f, x, w, b1, a3, a4, b4, block
  <2> QED
    BY <1>2, <2>1
<1> HIDE DEF m, v, f, x, b, b1, a3, a4, b4, w, block
<1>14. Pieces(m, "context-mac", g, k, b1, v, "context-mvsb", g, Before(k), k,
              f, "sfm", g + 1, a3, 1, x, "context-mvgb", g + 1, a4, b4, b)
  <2>1. \A op \in Kinds, h \in 0..NumItr - 1 :
            /\ Fresh(op, h, "context-mac", g) /\ Fresh(op, h, "context-mvsb", g)
            /\ Fresh(op, h, "sfm", g + 1) /\ Fresh(op, h, "context-mvgb", g + 1)
            => Reach(op, h)' = Reach(op, h)
    BY <1>12
  <2>2. b = <<>> => /\ "context-mac" \in Feeders => k >= b1
                    /\ "context-mvsb" \in Feeders => Before(k) >= k
                    /\ "sfm" \in Feeders => a3 >= 1
                    /\ "context-mvgb" \in Feeders => a4 >= b4
    BY <1>2, <1>7, <1>11, <1>13 DEF Feeders
  <2>3. /\ Fresh("context-mac", g, "context-mvsb", g)
        /\ Fresh("context-mac", g, "sfm", g + 1)
        /\ Fresh("context-mac", g, "context-mvgb", g + 1)
        /\ Fresh("context-mvsb", g, "sfm", g + 1)
        /\ Fresh("context-mvsb", g, "context-mvgb", g + 1)
        /\ Fresh("sfm", g + 1, "context-mvgb", g + 1)
    BY DEF Fresh
  <2> QED
    BY <1>2, <1>3, <1>6, <1>7, <1>8, <1>9, <1>10, <1>11, <1>13, <2>1, <2>2, <2>3 DEF Pieces
<1> QED
  BY <1>1, <1>14, BeatStep

(* Head1: the contexts of Head0 again, which changes nothing that counts.  *)
LEMMA AgainReach ==
    ASSUME Where, ContextHead1, Where', NEW g, g = i,
           NEW op \in Kinds, NEW h \in 0..NumItr - 1
    PROVE  /\ Reach(op, h)' = Reach(op, h)
           /\ Reach(op, h) = IF h <= g + 1 THEN Whole(op, h) ELSE 0
<1>1. /\ p \in Params /\ g \in Nat /\ g % 2 = 0 /\ g + 1 < NumItr /\ h \in Nat
      /\ NumItr \in Nat /\ j \in Nat /\ j <= Columns /\ Columns \in Nat
      /\ section = "context1" /\ p' = p
  BY Sizes DEF Where, Pair, ContextHead1
<1>2. \A n : ReachAt("context1", g, n, op, h) = IF h <= g + 1 THEN Whole(op, h) ELSE 0
  BY <1>1 DEF ReachAt, OfHead0, OfHead1
<1>3. Reach(op, h)' = ReachAt(section', i', j', op, h)
  BY <1>1, ReachNext
<1>4. CASE j < Columns
  BY <1>1, <1>2, <1>3, <1>4 DEF ContextHead1, Reach
<1>5. CASE j = Columns
  <2>1. section' = Enter(g + 2) /\ i' = g + 2 /\ j' = 0
    BY <1>1, <1>5 DEF ContextHead1
  <2>2. Enter(g + 2) \in {"write", "tail-write", "done"}
        /\ (Enter(g + 2) = "done" => g + 2 >= NumItr)
    BY <1>1 DEF Enter
  <2>3. ReachAt(Enter(g + 2), g + 2, 0, op, h) = IF h <= g + 1 THEN Whole(op, h) ELSE 0
    BY <1>1, <2>2 DEF ReachAt, OfHead0, OfHead1
  <2> QED
    BY <1>1, <1>2, <1>3, <2>1, <2>3 DEF Reach
<1> QED
  BY <1>1, <1>4, <1>5

LEMMA AgainStep ==
    ASSUME IInv, ContextHead1, Where', NEW g, g = i, NEW k, k = j
    PROVE  IInv'
<1> DEFINE m == IF j < Columns THEN ContextMac(g, j) ELSE <<>>
           v == IF j > 0 THEN ContextMvsb(g, j - 1) ELSE <<>>
           b == IF j < Columns THEN Barrier ELSE <<>>
           b1 == Least(k + 1, Columns)
<1>1. Where /\ section = "context1" /\ p' = p
  BY DEF IInv, ContextHead1
<1>2. /\ p \in Params /\ g \in Nat /\ k \in Nat /\ k <= Columns /\ g % 2 = 0
      /\ g \in 0..NumItr - 1 /\ Columns \in Nat \ {0}
  BY <1>1, Sizes DEF Where, Pair
<1>3. total_cmd' = total_cmd \o (m \o v \o (<<>> \o <<>>) \o b)
  BY DEF ContextHead1, Beat
<1>4. \A op \in Kinds, h \in 0..NumItr - 1 : Reach(op, h)' = Reach(op, h)
  BY <1>1, AgainReach
<1>5. IsRun(m, "context-mac", g, k, b1) /\ IsRun(v, "context-mvsb", g, Before(k), k)
  BY <1>1, <1>2, ContextRuns
<1>6. /\ b1 \in Nat /\ Before(k) \in Nat
      /\ Fits("context-mac", g, k, b1) /\ Fits("context-mvsb", g, Before(k), k)
      /\ k = Columns => k = b1
  <2>1. {"context-mac", "context-mvsb"} \subseteq Kinds
    BY DEF Kinds
  <2>2. Whole("context-mac", g) = Columns /\ Whole("context-mvsb", g) = Columns
    BY <1>2 DEF Whole
  <2>3. /\ Reach("context-mac", g) = Columns /\ Reach("context-mac", g)' = Columns
        /\ Reach("context-mvsb", g) = Columns /\ Reach("context-mvsb", g)' = Columns
    <3>1. g <= g + 1
      BY <1>2
    <3> QED
      BY <1>1, <1>2, <1>4, <2>1, <2>2, <3>1, AgainReach
  <2> QED
    BY <1>2, <2>3, ContextFits
<1>7. /\ IsRun(<<>>, "dummy-mac", 0, 0, 0) /\ Fits("dummy-mac", 0, 0, 0)
      /\ IsRun(<<>>, "barrier", 0, 0, 0) /\ Fits("barrier", 0, 0, 0)
  BY NoRun, NothingFits
<1>8. /\ b = Barrier \/ b = <<>>
      /\ b = <<>> => k = Columns
  <2>1. Barrier # <<>>
    BY DEF Barrier
  <2> HIDE DEF m, v, b1
  <2> QED
    BY <1>2, <2>1
<1> HIDE DEF m, v, b, b1
<1>9. Pieces(m, "context-mac", g, k, b1, v, "context-mvsb", g, Before(k), k,
             <<>>, "dummy-mac", 0, 0, 0, <<>>, "barrier", 0, 0, 0, b)
  <2>1. b = <<>> => /\ "context-mac" \in Feeders => k >= b1
                    /\ "context-mvsb" \in Feeders => Before(k) >= k
                    /\ "dummy-mac" \in Feeders => 0 >= 0
                    /\ "barrier" \in Feeders => 0 >= 0
    BY <1>2, <1>6, <1>8 DEF Feeders
  <2>2. /\ Fresh("context-mac", g, "context-mvsb", g) /\ Fresh("context-mac", g, "dummy-mac", 0)
        /\ Fresh("context-mac", g, "barrier", 0) /\ Fresh("context-mvsb", g, "dummy-mac", 0)
        /\ Fresh("context-mvsb", g, "barrier", 0) /\ Fresh("dummy-mac", 0, "barrier", 0)
    BY DEF Fresh
  <2> QED
    BY <1>2, <1>3, <1>4, <1>5, <1>6, <1>7, <1>8, <2>1, <2>2 DEF Pieces
<1> QED
  BY <1>1, <1>9, BeatStep

(* The last head of an odd number of them. *)
LEMMA TailScoreStep ==
    ASSUME IInv, TailScore, Where', NEW g, g = i, NEW k, k = j
    PROVE  IInv'
<1> DEFINE block == Beat(Rounds, Slice(ScoreMac(i), j, Group), ScoreMvsb(i, j - 1), <<>>)
           m == IF j < Rounds THEN Slice(ScoreMac(g), j, Group) ELSE <<>>
           v == IF j > 0 THEN ScoreMvsb(g, j - 1) ELSE <<>>
           b == IF j < Rounds THEN Barrier ELSE <<>>
           a1 == Least(k * Group, Outputs)
           b1 == Least((k + 1) * Group, Outputs)
<1>1. /\ Where /\ section = "tail-score" /\ Loop(Rounds, "tail-softmax", block) /\ p' = p
  BY DEF IInv, TailScore, Loop
<1>2. /\ p \in Params /\ g \in Nat /\ k \in Nat /\ k <= Rounds /\ g % 2 = 0
      /\ g \in 0..NumItr - 1 /\ Rounds \in Nat \ {0}
  BY <1>1, Sizes DEF Where, Single
<1>3. total_cmd' = total_cmd \o (m \o v \o (<<>> \o <<>>) \o b)
  BY <1>1 DEF Loop, Beat
<1>4. \A op \in Kinds, h \in 0..NumItr - 1 :
          /\ Reach(op, h) = ReachAt("tail-score", g, k, op, h)
          /\ Reach(op, h)' = ReachAt("tail-score", g, k + 1, op, h)
  <2> HIDE DEF block
  <2> QED
    BY <1>1, LoopReach
<1>5. ASSUME NEW op \in Kinds, NEW h \in 0..NumItr - 1
      PROVE  /\ h = g => /\ Reach(op, h) = Scoring(op, h, k)
                         /\ Reach(op, h)' = Scoring(op, h, k + 1)
             /\ h # g => Reach(op, h)' = Reach(op, h)
  <2>1. h \in Nat /\ "tail-score" \in Single
    BY <1>2, Sizes DEF Single
  <2> QED
    BY <1>2, <1>4, <2>1, HeadsOf DEF OfHead0, OfHead1
<1>6. IsRun(m, "score-mac", g, a1, b1) /\ IsRun(v, "score-mvsb", g, Before(k), k)
  BY <1>1, <1>2, ScoreRuns
<1>7. /\ a1 \in Nat /\ b1 \in Nat /\ Before(k) \in Nat
      /\ Fits("score-mac", g, a1, b1) /\ Fits("score-mvsb", g, Before(k), k)
      /\ k = Rounds => a1 = b1
  <2>1. {"score-mac", "score-mvsb", "sfm"} \subseteq Kinds
    BY DEF Kinds, OnceKinds
  <2>2. /\ Reach("score-mac", g) = a1 /\ Reach("score-mac", g)' = b1
        /\ Reach("score-mvsb", g) = Before(k) /\ Reach("score-mvsb", g)' = Before(k + 1)
        /\ Reach("sfm", g)' = 0
    BY <1>2, <1>5, <2>1 DEF Scoring
  <2> QED
    BY <1>2, <2>2, ScoringFits
<1>8. /\ IsRun(<<>>, "dummy-mac", 0, 0, 0) /\ Fits("dummy-mac", 0, 0, 0)
      /\ IsRun(<<>>, "barrier", 0, 0, 0) /\ Fits("barrier", 0, 0, 0)
  BY NoRun, NothingFits
<1>9. ASSUME NEW op \in Kinds, NEW h \in 0..NumItr - 1,
             Fresh(op, h, "score-mac", g), Fresh(op, h, "score-mvsb", g)
      PROVE  Reach(op, h)' = Reach(op, h)
  <2>1. h = g => Scoring(op, h, k) = Scoring(op, h, k + 1)
    BY <1>9 DEF Scoring, Fresh
  <2> QED
    BY <1>5, <2>1
<1>10. /\ b = Barrier \/ b = <<>>
       /\ b = <<>> => k = Rounds
  <2>1. Barrier # <<>>
    BY DEF Barrier
  <2> HIDE DEF m, v, a1, b1, block
  <2> QED
    BY <1>2, <2>1
<1> HIDE DEF m, v, b, a1, b1, block
<1>11. Pieces(m, "score-mac", g, a1, b1, v, "score-mvsb", g, Before(k), k,
              <<>>, "dummy-mac", 0, 0, 0, <<>>, "barrier", 0, 0, 0, b)
  <2>1. \A op \in Kinds, h \in 0..NumItr - 1 :
            /\ Fresh(op, h, "score-mac", g) /\ Fresh(op, h, "score-mvsb", g)
            /\ Fresh(op, h, "dummy-mac", 0) /\ Fresh(op, h, "barrier", 0)
            => Reach(op, h)' = Reach(op, h)
    BY <1>9
  <2>2. b = <<>> => /\ "score-mac" \in Feeders => a1 >= b1
                    /\ "score-mvsb" \in Feeders => Before(k) >= k
                    /\ "dummy-mac" \in Feeders => 0 >= 0
                    /\ "barrier" \in Feeders => 0 >= 0
    BY <1>7, <1>10 DEF Feeders
  <2>3. /\ Fresh("score-mac", g, "score-mvsb", g) /\ Fresh("score-mac", g, "dummy-mac", 0)
        /\ Fresh("score-mac", g, "barrier", 0) /\ Fresh("score-mvsb", g, "dummy-mac", 0)
        /\ Fresh("score-mvsb", g, "barrier", 0) /\ Fresh("dummy-mac", 0, "barrier", 0)
    BY DEF Fresh
  <2> QED
    BY <1>2, <1>3, <1>6, <1>7, <1>8, <1>10, <2>1, <2>2, <2>3 DEF Pieces
<1> QED
  BY <1>1, <1>11, BeatStep

LEMMA TailContextStep ==
    ASSUME IInv, TailContext, Where', NEW g, g = i, NEW k, k = j
    PROVE  IInv'
<1> DEFINE block == Beat(Columns, ContextMac(i, j), ContextMvsb(i, j - 1), <<>>)
           m == IF j < Columns THEN ContextMac(g, j) ELSE <<>>
           v == IF j > 0 THEN ContextMvsb(g, j - 1) ELSE <<>>
           b == IF j < Columns THEN Barrier ELSE <<>>
           b1 == Least(k + 1, Columns)
<1>1. /\ Where /\ section = "tail-context" /\ Loop(Columns, "done", block) /\ p' = p
  BY DEF IInv, TailContext, Loop
<1>2. /\ p \in Params /\ g \in Nat /\ k \in Nat /\ k <= Columns /\ g % 2 = 0
      /\ g \in 0..NumItr - 1 /\ Columns \in Nat \ {0}
  BY <1>1, Sizes DEF Where, Single
<1>3. total_cmd' = total_cmd \o (m \o v \o (<<>> \o <<>>) \o b)
  BY <1>1 DEF Loop, Beat
<1>4. \A op \in Kinds, h \in 0..NumItr - 1 :
          /\ Reach(op, h) = ReachAt("tail-context", g, k, op, h)
          /\ Reach(op, h)' = ReachAt("tail-context", g, k + 1, op, h)
  <2> HIDE DEF block
  <2> QED
    BY <1>1, LoopReach
<1>5. ASSUME NEW op \in Kinds, NEW h \in 0..NumItr - 1
      PROVE  /\ h = g => /\ Reach(op, h) = Contexting(op, h, k)
                         /\ Reach(op, h)' = Contexting(op, h, k + 1)
             /\ h # g => Reach(op, h)' = Reach(op, h)
  <2>1. h \in Nat /\ "tail-context" \in Single
    BY <1>2, Sizes DEF Single
  <2> QED
    BY <1>2, <1>4, <2>1, HeadsOf DEF OfHead0, OfHead1
<1>6. IsRun(m, "context-mac", g, k, b1) /\ IsRun(v, "context-mvsb", g, Before(k), k)
  BY <1>1, <1>2, ContextRuns
<1>7. /\ b1 \in Nat /\ Before(k) \in Nat
      /\ Fits("context-mac", g, k, b1) /\ Fits("context-mvsb", g, Before(k), k)
      /\ k = Columns => k = b1
  <2>1. {"context-mac", "context-mvsb"} \subseteq Kinds /\ Least(k, Columns) = k
    BY <1>2 DEF Kinds, Least
  <2>2. /\ Reach("context-mac", g) = k /\ Reach("context-mac", g)' = b1
        /\ Reach("context-mvsb", g) = Before(k)
        /\ Reach("context-mvsb", g)' = Before(k + 1)
    BY <1>2, <1>5, <2>1 DEF Contexting
  <2> QED
    BY <1>2, <2>2, ContextFits
<1>8. /\ IsRun(<<>>, "dummy-mac", 0, 0, 0) /\ Fits("dummy-mac", 0, 0, 0)
      /\ IsRun(<<>>, "barrier", 0, 0, 0) /\ Fits("barrier", 0, 0, 0)
  BY NoRun, NothingFits
<1>9. ASSUME NEW op \in Kinds, NEW h \in 0..NumItr - 1,
             Fresh(op, h, "context-mac", g), Fresh(op, h, "context-mvsb", g)
      PROVE  Reach(op, h)' = Reach(op, h)
  <2>1. h = g => Contexting(op, h, k) = Contexting(op, h, k + 1)
    BY <1>9 DEF Contexting, Fresh
  <2> QED
    BY <1>5, <2>1
<1>10. /\ b = Barrier \/ b = <<>>
       /\ b = <<>> => k = Columns
  <2>1. Barrier # <<>>
    BY DEF Barrier
  <2> HIDE DEF m, v, b1, block
  <2> QED
    BY <1>2, <2>1
<1> HIDE DEF m, v, b, b1, block
<1>11. Pieces(m, "context-mac", g, k, b1, v, "context-mvsb", g, Before(k), k,
              <<>>, "dummy-mac", 0, 0, 0, <<>>, "barrier", 0, 0, 0, b)
  <2>1. \A op \in Kinds, h \in 0..NumItr - 1 :
            /\ Fresh(op, h, "context-mac", g) /\ Fresh(op, h, "context-mvsb", g)
            /\ Fresh(op, h, "dummy-mac", 0) /\ Fresh(op, h, "barrier", 0)
            => Reach(op, h)' = Reach(op, h)
    BY <1>9
  <2>2. b = <<>> => /\ "context-mac" \in Feeders => k >= b1
                    /\ "context-mvsb" \in Feeders => Before(k) >= k
                    /\ "dummy-mac" \in Feeders => 0 >= 0
                    /\ "barrier" \in Feeders => 0 >= 0
    BY <1>2, <1>7, <1>10 DEF Feeders
  <2>3. /\ Fresh("context-mac", g, "context-mvsb", g) /\ Fresh("context-mac", g, "dummy-mac", 0)
        /\ Fresh("context-mac", g, "barrier", 0) /\ Fresh("context-mvsb", g, "dummy-mac", 0)
        /\ Fresh("context-mvsb", g, "barrier", 0) /\ Fresh("dummy-mac", 0, "barrier", 0)
    BY DEF Fresh
  <2> QED
    BY <1>2, <1>3, <1>6, <1>7, <1>8, <1>10, <2>1, <2>2, <2>3 DEF Pieces
<1> QED
  BY <1>1, <1>11, BeatStep

LEMMA TailSoftmaxStep ==
    ASSUME IInv, TailSoftmax, Where', NEW g, g = i
    PROVE  IInv'
<1> DEFINE f == Sfm(g)
           x == ContextMvgb(g)
           w == Moves(g)
<1>1. Where /\ section = "tail-softmax" /\ section' = "tail-context" /\ p' = p /\ i' = g /\ j' = 0
      /\ j = 0
  BY DEF IInv, TailSoftmax, Straight, Where
<1>2. /\ p \in Params /\ g \in Nat /\ g % 2 = 0 /\ g + 1 = NumItr
      /\ g \in 0..NumItr - 1 /\ Columns \in Nat \ {0} /\ w \in Nat
  <2>1. w \in Nat
    BY <1>1, Sizes DEF Where
  <2> HIDE DEF w
  <2> QED
    BY <1>1, <2>1, Sizes DEF Where, Single
<1>3. IsRun(f, "sfm", g, 0, 1) /\ IsRun(x, "context-mvgb", g, 0, w)
  <2>1. IsRun(<<Block("sfm", g, 0)>>, "sfm", g, 0, 0 + 1)
    <3>1. "sfm" \in Ops
      BY DEF Ops
    <3> QED
      BY <1>2, <3>1, OneRun
  <2>2. IsRun(List("context-mvgb", g, w), "context-mvgb", g, 0, w)
    <3>1. "context-mvgb" \in Ops
      BY DEF Ops
    <3> HIDE DEF w
    <3> QED
      BY <1>2, <3>1, ListRun
  <2> QED
    BY <2>1, <2>2 DEF Sfm, ContextMvgb
<1>4. total_cmd' = total_cmd \o (<<>> \o <<>> \o (f \o x) \o Barrier)
  <2>1. f \in Seq(Blocks) /\ x \in Seq(Blocks)
    BY <1>3 DEF IsRun
  <2>2. total_cmd' = total_cmd \o (f \o x \o Barrier)
    BY DEF TailSoftmax, Straight
  <2> HIDE DEF f, x
  <2>3. <<>> \o <<>> \o (f \o x) = f \o x
    BY <2>1
  <2> QED
    BY <2>2, <2>3
<1>5. \A op \in Kinds, h \in 0..NumItr - 1 :
          /\ Reach(op, h) = IF h < g THEN Whole(op, h) ELSE Scored(op, h)
          /\ Reach(op, h)' = IF h < g THEN Whole(op, h) ELSE Contexting(op, h, 0)
  <2>1. \A op \in Kinds, h \in 0..NumItr - 1 :
            /\ Reach(op, h) = ReachAt("tail-softmax", g, 0, op, h)
            /\ Reach(op, h)' = ReachAt("tail-context", g, 0, op, h)
    BY <1>1, ReachNext DEF Reach
  <2>2. \A h \in 0..NumItr - 1 : h < g \/ h = g
    BY <1>2
  <2> QED
    BY <1>2, <2>1, <2>2 DEF ReachAt, OfHead0
<1>6. Least(0, Columns) = 0 /\ Before(0) = 0
  BY <1>2 DEF Least, Before
<1>kinds. {"sfm", "context-mvgb", "context-mac"} \subseteq Kinds
  BY DEF Kinds, OnceKinds
<1>7. Fits("sfm", g, 0, 1) /\ Fits("context-mvgb", g, 0, w)
  <2>1. /\ Reach("sfm", g) = 0 /\ Reach("sfm", g)' = 1 /\ Reach("context-mvgb", g) = 0
        /\ Reach("context-mvgb", g)' = w /\ Reach("context-mac", g)' = 0
    BY <1>2, <1>5, <1>6, <1>kinds DEF Scored, Contexting, Whole
  <2> HIDE DEF w
  <2> QED
    BY <1>2, <2>1 DEF Fits
<1>8. /\ IsRun(<<>>, "dummy-mac", 0, 0, 0) /\ Fits("dummy-mac", 0, 0, 0)
      /\ IsRun(<<>>, "barrier", 0, 0, 0) /\ Fits("barrier", 0, 0, 0)
  BY NoRun, NothingFits
<1>9. ASSUME NEW op \in Kinds, NEW h \in 0..NumItr - 1,
             Fresh(op, h, "sfm", g), Fresh(op, h, "context-mvgb", g)
      PROVE  Reach(op, h)' = Reach(op, h)
  <2>1. op \in {"score-wrgb", "score-mac", "score-mvsb", "sfm", "context-mvgb",
                "context-mac", "context-mvsb"}
    BY DEF Kinds, OnceKinds
  <2>2. h = g \/ h < g
    BY <1>2
  <2> QED
    BY <1>5, <1>6, <1>9, <2>1, <2>2 DEF Scored, Contexting, Fresh
<1> HIDE DEF f, x, w
<1>10. Pieces(<<>>, "dummy-mac", 0, 0, 0, <<>>, "barrier", 0, 0, 0,
              f, "sfm", g, 0, 1, x, "context-mvgb", g, 0, w, Barrier)
  <2>1. Barrier # <<>>
    BY DEF Barrier
  <2>2. \A op \in Kinds, h \in 0..NumItr - 1 :
            /\ Fresh(op, h, "dummy-mac", 0) /\ Fresh(op, h, "barrier", 0)
            /\ Fresh(op, h, "sfm", g) /\ Fresh(op, h, "context-mvgb", g)
            => Reach(op, h)' = Reach(op, h)
    BY <1>9
  <2>3. /\ Fresh("dummy-mac", 0, "barrier", 0) /\ Fresh("dummy-mac", 0, "sfm", g)
        /\ Fresh("dummy-mac", 0, "context-mvgb", g) /\ Fresh("barrier", 0, "sfm", g)
        /\ Fresh("barrier", 0, "context-mvgb", g) /\ Fresh("sfm", g, "context-mvgb", g)
    BY DEF Fresh
  <2> QED
    BY <1>2, <1>3, <1>4, <1>7, <1>8, <2>1, <2>2, <2>3 DEF Pieces
<1> QED
  BY <1>1, <1>10, BeatStep

(* The first input vector of a head that is not overlapped with another.   *)
LEMMA WordsStep ==
    ASSUME IInv, Where', p' = p, NEW g, g = i, i' = g, j = 0, j' = 0,
           \/ section = "write" /\ section' = "score"
           \/ section = "tail-write" /\ section' = "tail-score",
           NEW d, d = <<>> \/ d = <<Block("dummy-mac", 0, 0)>>,
           total_cmd' = total_cmd \o (ScoreWrgb(g) \o d \o Barrier)
    PROVE  IInv'
<1> DEFINE m == ScoreWrgb(g)
           w == Words(g)
           b2 == IF d = <<>> THEN 0 ELSE 1
<1>1. /\ p \in Params /\ g \in Nat /\ g % 2 = 0 /\ g \in 0..NumItr - 1
      /\ 0 \in 0..NumItr - 1 /\ Rounds \in Nat \ {0} /\ Outputs \in Nat /\ Group \in Nat
      /\ w \in Nat
  <2>1. Where
    BY DEF IInv
  <2>2. w \in Nat
    BY <2>1, Sizes DEF Where
  <2> HIDE DEF w
  <2>3. /\ p \in Params /\ g \in Nat /\ g % 2 = 0
        /\ section = "write" => g + 1 < NumItr
        /\ section = "tail-write" => g + 1 = NumItr
    BY <2>1 DEF Where, Pair, Single
  <2>4. NumItr \in Nat \ {0} /\ Rounds \in Nat \ {0} /\ Outputs \in Nat /\ Group \in Nat
    BY <2>3, Sizes, TraceAssumption
  <2> QED
    BY <2>2, <2>3, <2>4
<1>2. IsRun(m, "score-wrgb", g, 0, w)
  <2>1. "score-wrgb" \in Ops
    BY DEF Ops
  <2> HIDE DEF w
  <2>2. IsRun(List("score-wrgb", g, w), "score-wrgb", g, 0, w)
    BY <1>1, <2>1, ListRun
  <2> QED
    BY <2>2 DEF ScoreWrgb, w
<1>3. IsRun(d, "dummy-mac", 0, 0, b2) /\ b2 \in Nat
  <2>1. "dummy-mac" \in Ops
    BY DEF Ops
  <2>2. IsRun(<<Block("dummy-mac", 0, 0)>>, "dummy-mac", 0, 0, 0 + 1)
    BY <1>1, <2>1, OneRun
  <2>3. IsRun(<<>>, "dummy-mac", 0, 0, 0)
    BY NoRun
  <2>4. <<Block("dummy-mac", 0, 0)>> # <<>>
    OBVIOUS
  <2>5. CASE d = <<>>
    BY <2>3, <2>5
  <2>6. CASE d = <<Block("dummy-mac", 0, 0)>>
    BY <2>2, <2>4, <2>6
  <2> QED
    BY <2>5, <2>6
<1>4. total_cmd' = total_cmd \o (m \o d \o (<<>> \o <<>>) \o Barrier)
  <2>1. m \in Seq(Blocks) /\ d \in Seq(Blocks)
    BY <1>2, <1>3 DEF IsRun
  <2> HIDE DEF m
  <2>2. m \o d \o (<<>> \o <<>>) = m \o d
    BY <2>1
  <2> QED
    BY <2>2 DEF m
<1>5. \A op \in Kinds, h \in 0..NumItr - 1 :
          /\ Reach(op, h) = IF h < g THEN Whole(op, h) ELSE 0
          /\ Reach(op, h)' = IF h < g THEN Whole(op, h)
                             ELSE IF h = g THEN Scoring(op, h, 0) ELSE 0
  <2> SUFFICES ASSUME NEW op \in Kinds, NEW h \in 0..NumItr - 1
               PROVE  /\ Reach(op, h) = IF h < g THEN Whole(op, h) ELSE 0
                      /\ Reach(op, h)' = IF h < g THEN Whole(op, h)
                                         ELSE IF h = g THEN Scoring(op, h, 0) ELSE 0
    OBVIOUS
  <2>1. Reach(op, h) = ReachAt(section, g, 0, op, h)
    BY DEF Reach
  <2>2. Reach(op, h)' = ReachAt(section', g, 0, op, h)
    BY ReachNext
  <2>3. h \in Nat
    BY <1>1
  <2>4. \A s \in {"write", "tail-write"} :
            ReachAt(s, g, 0, op, h) = IF h < g THEN Whole(op, h) ELSE 0
    BY <1>1, <2>3 DEF ReachAt, OfHead0, OfHead1
  <2>5. Part(Words(h), Least(0, Rounds)) = 0
    <3>1. Least(0, Rounds) = 0 /\ Words(h) \div Rounds \in Nat
      <4>1. Words(h) \in Nat
        BY <1>1, <2>3, Sizes
      <4>2. Words(h) \div Rounds \in Nat
        BY <1>1, <4>1, DivBounds
      <4>3. Least(0, Rounds) = 0
        BY <1>1 DEF Least
      <4> QED
        BY <4>2, <4>3
    <3> DEFINE one == Words(h) \div Rounds
    <3>2. Part(Words(h), 0) = 0 * one
      BY DEF Part
    <3> HIDE DEF one
    <3>3. 0 * one = 0
      BY <3>1 DEF one
    <3> QED
      BY <3>1, <3>2, <3>3
  <2>6. \A s \in {"score", "tail-score"} :
            ReachAt(s, g, 0, op, h) = IF h < g THEN Whole(op, h)
                                      ELSE IF h = g THEN Scoring(op, h, 0) ELSE 0
    BY <1>1, <2>3, <2>5 DEF ReachAt, OfHead0, OfHead1
  <2> QED
    BY <2>1, <2>2, <2>4, <2>6
<1>6. Before(0) = 0 /\ Least(0 * Group, Outputs) = 0
  BY <1>1 DEF Least, Before
<1>7. Fits("score-wrgb", g, 0, w)
  <2>1. {"score-wrgb", "score-mac"} \subseteq Kinds
    BY DEF Kinds, OnceKinds
  <2>2. /\ Reach("score-wrgb", g) = 0 /\ Reach("score-wrgb", g)' = w
        /\ Reach("score-mac", g)' = 0
    BY <1>1, <1>5, <1>6, <2>1 DEF Scoring, Whole
  <2> HIDE DEF w
  <2> QED
    BY <1>1, <2>2 DEF Fits
<1>8. /\ Fits("dummy-mac", 0, 0, b2)
      /\ IsRun(<<>>, "barrier", 0, 0, 0) /\ Fits("barrier", 0, 0, 0)
      /\ IsRun(<<>>, "barrier", 1, 0, 0) /\ Fits("barrier", 1, 0, 0)
  BY NoRun, NothingFits
<1>9. ASSUME NEW op \in Kinds, NEW h \in 0..NumItr - 1, Fresh(op, h, "score-wrgb", g)
      PROVE  Reach(op, h)' = Reach(op, h)
  <2>1. h = g => Scoring(op, h, 0) = 0
    BY <1>6, <1>9 DEF Scoring, Fresh
  <2> QED
    BY <1>1, <1>5, <2>1
<1> HIDE DEF m, w, b2
<1>10. Pieces(m, "score-wrgb", g, 0, w, d, "dummy-mac", 0, 0, b2,
              <<>>, "barrier", 0, 0, 0, <<>>, "barrier", 1, 0, 0, Barrier)
  <2>1. Barrier # <<>>
    BY DEF Barrier
  <2>2. \A op \in Kinds, h \in 0..NumItr - 1 :
            /\ Fresh(op, h, "score-wrgb", g) /\ Fresh(op, h, "dummy-mac", 0)
            /\ Fresh(op, h, "barrier", 0) /\ Fresh(op, h, "barrier", 1)
            => Reach(op, h)' = Reach(op, h)
    BY <1>9
  <2>3. /\ Fresh("score-wrgb", g, "dummy-mac", 0) /\ Fresh("score-wrgb", g, "barrier", 0)
        /\ Fresh("score-wrgb", g, "barrier", 1) /\ Fresh("dummy-mac", 0, "barrier", 0)
        /\ Fresh("dummy-mac", 0, "barrier", 1) /\ Fresh("barrier", 0, "barrier", 1)
    BY DEF Fresh
  <2> QED
    BY <1>1, <1>2, <1>3, <1>4, <1>7, <1>8, <2>1, <2>2, <2>3 DEF Pieces
<1> QED
  BY <1>1, <1>10, BeatStep

----------------------------------------------------------------------------
(* The invariant. *)
LEMMA Start == Init => IInv
<1> SUFFICES ASSUME Init PROVE IInv
  OBVIOUS
<1>1. p \in Params /\ i = 0 /\ j = 0 /\ section = Enter(0) /\ total_cmd = <<>>
  BY DEF Init
<1>2. NumItr \in Nat \ {0} /\ Rounds \in Nat /\ Columns \in Nat
  BY <1>1, Sizes
<1>3. /\ section \in {"write", "tail-write"}
      /\ section = "write" => 1 < NumItr
      /\ section = "tail-write" => NumItr = 1
  BY <1>1, <1>2 DEF Enter
<1>4. Where
  BY <1>1, <1>2, <1>3 DEF Where, Pair, Single
<1>5. \A op, h : Nums(<<>>, op, h) = {}
  BY DEF Nums
<1>6. Progress
  <2> SUFFICES ASSUME NEW op \in Kinds, NEW h \in 0..NumItr - 1
               PROVE  Reach(op, h) = 0
    BY <1>1, <1>5 DEF Progress
  <2>1. h \in Nat
    BY <1>2
  <2>2. ReachAt(section, 0, 0, op, h) = 0
    BY <1>3, <2>1 DEF ReachAt, OfHead0, OfHead1
  <2> QED
    BY <1>1, <2>2 DEF Reach
<1>7. total_cmd \in Seq(Blocks) /\ Rising(total_cmd) /\ Sealed(total_cmd) /\ DataflowKept
  BY <1>1 DEF Rising, Sealed, DataflowKept
<1> QED
  BY <1>4, <1>6, <1>7 DEF IInv

LEMMA Step == IInv /\ [Next]_vars => IInv'
<1> SUFFICES ASSUME IInv, [Next]_vars PROVE IInv'
  OBVIOUS
<1>1. CASE UNCHANGED vars
  <2>1. p' = p /\ i' = i /\ section' = section /\ j' = j /\ total_cmd' = total_cmd
    BY <1>1 DEF vars
  <2>2. \A op, h : Reach(op, h)' = Reach(op, h)
    BY <2>1, ReachNext DEF Reach
  <2>3. NumItr' = NumItr /\ Rounds' = Rounds /\ Columns' = Columns
    BY <2>1 DEF NumItr, Rounds, Columns, Units
  <2>4. Where' /\ Blocks' = Blocks
    BY <2>1, <2>3 DEF IInv, Where, Blocks
  <2>5. Progress'
    BY <2>1, <2>2, <2>3 DEF IInv, Progress
  <2> QED
    BY <2>1, <2>4, <2>5 DEF IInv, DataflowKept, Emitted, BarrierBetween
<1>2. CASE Next
  <2>1. Where'
    BY <1>2, WhereNext DEF IInv
  <2>2. CASE WriteHead0
    <3>1. section = "write" /\ section' = "score" /\ p' = p /\ i' = i /\ j' = j
      BY <2>2 DEF WriteHead0, Straight
    <3>2. j = 0
      BY <3>1 DEF IInv, Where
    <3> DEFINE d == IF i = 0 THEN <<Block("dummy-mac", 0, 0)>> ELSE <<>>
    <3>3. total_cmd' = total_cmd \o (ScoreWrgb(i) \o d \o Barrier)
      BY <2>2 DEF WriteHead0, Straight
    <3>4. d = <<>> \/ d = <<Block("dummy-mac", 0, 0)>>
      OBVIOUS
    <3> HIDE DEF d
    <3> QED
      BY <2>1, <3>1, <3>2, <3>3, <3>4, WordsStep
  <2>3. CASE ScoreHead0
    BY <2>1, <2>3, ScoreStep
  <2>4. CASE SoftmaxHead0
    BY <2>1, <2>4, SoftmaxStep
  <2>5. CASE ContextHead0
    BY <2>1, <2>5, ContextStep
  <2>6. CASE ContextHead1
    BY <2>1, <2>6, AgainStep
  <2>7. CASE TailWrite
    <3>1. section = "tail-write" /\ section' = "tail-score" /\ p' = p /\ i' = i /\ j' = j
      BY <2>7 DEF TailWrite, Straight
    <3>2. j = 0
      BY <3>1 DEF IInv, Where
    <3>3. ScoreWrgb(i) \in Seq(Blocks)
      <4>1. p \in Params /\ i \in Nat /\ i + 1 = NumItr
        BY <3>1 DEF IInv, Where, Single
      <4>2. "score-wrgb" \in Ops /\ Words(i) \in Nat /\ i \in 0..NumItr - 1
        BY <4>1, Sizes DEF Ops
      <4> QED
        BY <4>2, ListRun DEF IsRun, ScoreWrgb
    <3>4. total_cmd' = total_cmd \o (ScoreWrgb(i) \o <<>> \o Barrier)
      <4>1. total_cmd' = total_cmd \o (ScoreWrgb(i) \o Barrier)
        BY <2>7 DEF TailWrite, Straight
      <4> DEFINE m == ScoreWrgb(i)
      <4> HIDE DEF m
      <4>2. m \o <<>> = m
        BY <3>3 DEF m
      <4> QED
        BY <4>1, <4>2 DEF m
    <3> QED
      BY <2>1, <3>1, <3>2, <3>4, WordsStep
  <2>8. CASE TailScore
    BY <2>1, <2>8, TailScoreStep
  <2>9. CASE TailSoftmax
    BY <2>1, <2>9, TailSoftmaxStep
  <2>10. CASE TailContext
    BY <2>1, <2>10, TailContextStep
  <2>11. CASE Done
    BY <1>1, <2>11 DEF Done
  <2> QED
    BY <1>2, <2>2, <2>3, <2>4, <2>5, <2>6, <2>7, <2>8, <2>9, <2>10, <2>11 DEF Next
<1> QED
  BY <1>1, <1>2

LEMMA Invariant == Spec => []IInv
<1>1. Init => IInv
  BY Start
<1>2. IInv /\ [Next]_vars => IInv'
  BY Step
<1> QED
  BY <1>1, <1>2, PTL DEF Spec

----------------------------------------------------------------------------
(***************************************************************************)
(* The loops over heads and beats stay in their ranges, and what is        *)
(* written is a sequence of commands of the heads there are.               *)
(***************************************************************************)
THEOREM TypeCorrect == Spec => []TypeOK
<1>1. IInv => TypeOK
  <2> SUFFICES ASSUME IInv PROVE TypeOK
    OBVIOUS
  <2>1. Where /\ total_cmd \in Seq(Blocks)
    BY DEF IInv
  <2>2. NumItr \in Nat
    BY <2>1, Sizes DEF Where
  <2>3. /\ section \in Pair => i \in 0..NumItr + 1
        /\ section \in Single => i \in 0..NumItr + 1
        /\ section = "done" => i \in 0..NumItr + 1
    BY <2>1, <2>2 DEF Where
  <2>4. i \in 0..NumItr + 1
    BY <2>1, <2>3 DEF Where
  <2> QED
    BY <2>1, <2>4 DEF TypeOK, Where, Pair, Single, Blocks
<1> QED
  BY <1>1, Invariant, PTL

(***************************************************************************)
(* The overlapping of two heads by Attention() keeps the dataflow of each: *)
(* every command comes after those it takes input from, with a barrier in  *)
(* between, and softmax between the scores and their use.                  *)
(***************************************************************************)
THEOREM Dataflow == Spec => []DataflowKept
  BY Invariant, PTL DEF IInv

(* A number below Reach has one place. *)
LEMMA OnlyCopy ==
    ASSUME IInv, NEW op \in OnceKinds, NEW h \in 0..NumItr - 1,
           NEW n \in Nums(total_cmd, op, h)
    PROVE  Copies(Block(op, h, n)) = 1
<1>1. /\ \A k \in DOMAIN total_cmd : total_cmd[k] \in Blocks
      /\ DOMAIN total_cmd \subseteq Nat
  <2>1. total_cmd \in Seq(Blocks)
    BY DEF IInv
  <2> QED
    BY <2>1
<1>2. PICK a \in DOMAIN total_cmd : total_cmd[a].op = op /\ total_cmd[a].head = h
                                    /\ total_cmd[a].n = n
  BY DEF Nums
<1>3. total_cmd[a] = Block(op, h, n)
  BY <1>1, <1>2 DEF Blocks, Block
<1>4. ASSUME NEW k \in DOMAIN total_cmd, total_cmd[k] = Block(op, h, n)
      PROVE  k = a
  <2>1. total_cmd[k].op = op /\ total_cmd[k].head = h /\ total_cmd[k].n = n
    BY <1>4 DEF Block
  <2>2. n \in Nat /\ k \in Nat /\ a \in Nat
    BY <1>1, <1>2 DEF Blocks
  <2>3. ~(k < a) /\ ~(a < k)
    BY <1>2, <2>1, <2>2 DEF IInv, Rising
  <2> QED
    BY <2>2, <2>3
<1>5. {k \in DOMAIN total_cmd : total_cmd[k] = Block(op, h, n)} = {a}
  BY <1>3, <1>4
<1> QED
  BY <1>5, FS_Singleton DEF Copies

(***************************************************************************)
(* For every length, head size and number of heads the beats cut the       *)
(* scores of every head into slices that cover them once: the last group   *)
(* of outputs, the last head of an odd number and the group moved a beat   *)
(* later are neither left out nor written twice.                           *)
(***************************************************************************)
THEOREM ScoresOnce == Spec => []ScoresCoveredOnce
<1>1. IInv => ScoresCoveredOnce
  <2> SUFFICES ASSUME IInv, section = "done", NEW h \in 0..NumItr - 1
               PROVE  /\ \A n \in 0..Outputs - 1 : Copies(Block("score-mac", h, n)) = 1
                      /\ \A n \in 0..CeilDiv(Outputs, Group) - 1 :
                            Copies(Block("score-mvsb", h, n)) = 1
                      /\ Copies(Block("sfm", h, 0)) = 1
    BY DEF ScoresCoveredOnce
  <2>1. p \in Params
    BY DEF IInv, Where
  <2>2. {"score-mac", "score-mvsb", "sfm"} \subseteq OnceKinds /\ OnceKinds \subseteq Kinds
    BY DEF OnceKinds, Kinds
  <2>3. \A op : Reach(op, h) = Whole(op, h)
    BY DEF Reach, ReachAt
  <2>4. /\ Nums(total_cmd, "score-mac", h) = 0..Outputs - 1
        /\ Nums(total_cmd, "score-mvsb", h) = 0..Rounds - 1
        /\ Nums(total_cmd, "sfm", h) = 0..1 - 1
    <3>1. \A op \in OnceKinds : Nums(total_cmd, op, h) = 0..Whole(op, h) - 1
      BY <2>2, <2>3 DEF IInv, Progress
    <3>2. /\ Whole("score-mac", h) = Outputs /\ Whole("score-mvsb", h) = Rounds
          /\ Whole("sfm", h) = 1
      BY DEF Whole
    <3> QED
      BY <2>2, <3>1, <3>2
  <2>5. CeilDiv(Outputs, Group) \in Nat /\ CeilDiv(Outputs, Group) <= Rounds
    <3> DEFINE q == CeilDiv(Outputs, Group)
    <3>1. Outputs \in Nat \ {0} /\ Group \in Nat \ {0} /\ Rounds \in Nat
          /\ Outputs <= Rounds * Group
      BY <2>1, Sizes, TraceAssumption
    <3>2. q \in Nat /\ (q - 1) * Group < Outputs
      BY <3>1, CeilDivBounds
    <3> HIDE DEF q
    <3>3. ASSUME q - 1 >= Rounds PROVE FALSE
      <4>1. (q - 1) * Group >= Rounds * Group
        BY <3>1, <3>2, <3>3
      <4> QED
        BY <3>1, <3>2, <4>1
    <3> QED
      BY <3>1, <3>2, <3>3 DEF q
  <2>6. \A n \in 0..CeilDiv(Outputs, Group) - 1 : n \in 0..Rounds - 1
    BY <2>1, <2>5, Sizes
  <2>7. \A op \in OnceKinds : \A n \in Nums(total_cmd, op, h) : Copies(Block(op, h, n)) = 1
    BY OnlyCopy
  <2>8. \A n \in 0..Outputs - 1 : Copies(Block("score-mac", h, n)) = 1
    BY <2>2, <2>4, <2>7
  <2>9. \A n \in 0..CeilDiv(Outputs, Group) - 1 : Copies(Block("score-mvsb", h, n)) = 1
    <3>1. \A n \in 0..Rounds - 1 : Copies(Block("score-mvsb", h, n)) = 1
      BY <2>2, <2>4, <2>7
    <3> QED
      BY <2>6, <3>1
  <2>10. Copies(Block("sfm", h, 0)) = 1
    <3>1. 0 \in 0..1 - 1
      OBVIOUS
    <3> QED
      BY <2>2, <2>4, <2>7, <3>1
  <2> QED
    BY <2>8, <2>9, <2>10
<1> QED
  BY <1>1, Invariant, PTL

(* How far vectors are written. *)
LEMMA LateBounds ==
    ASSUME NEW size \in Nat, NEW length \in Nat \ {0}, NEW n \in Nat, n <= length
    PROVE  /\ Late(size, length, n) <= size
           /\ Late(size, length, length) + CeilDiv(length, 2) > size
<1> DEFINE half == length \div 2
           beats == CeilDiv(length, 2)
           one == size \div beats
<1>1. half \in Nat /\ beats \in Nat \ {0} /\ beats = length - half
  <2>1. half * 2 <= length /\ length < (half + 1) * 2 /\ half \in Nat
    BY DivBounds
  <2>2. beats \in Nat /\ beats * 2 >= length /\ beats > 0 /\ (beats - 1) * 2 < length
    BY CeilDivBounds
  <2> HIDE DEF half, beats
  <2> QED
    BY <2>1, <2>2
<1>2. \A k \in Nat : Late(size, length, k) = IF k < half THEN 0 ELSE (k - half) * one
  BY LateValue
<1>3. /\ \A k \in Nat : k <= beats => k * one <= size
      /\ beats * one + beats > size
  <2> HIDE DEF beats
  <2>1. \A k \in Nat : k <= beats => k * one <= size
    BY <1>1, SliceBounds
  <2>2. beats \in Nat /\ beats <= beats
    BY <1>1
  <2>3. beats * one + beats > size
    BY <1>1, <2>2, SliceBounds
  <2> QED
    BY <2>1, <2>3
<1> HIDE DEF half, beats, one
<1>4. Late(size, length, n) <= size
  <2>1. CASE n < half
    BY <1>2, <2>1
  <2>2. CASE n >= half
    <3>1. n - half \in Nat /\ n - half <= beats
      BY <1>1, <2>2
    <3> QED
      BY <1>1, <1>2, <1>3, <2>2, <3>1
  <2> QED
    BY <1>1, <2>1, <2>2
<1>5. Late(size, length, length) = beats * one
  <2>1. length \in Nat /\ ~(length < half) /\ length - half = beats
    BY <1>1
  <2> QED
    BY <1>2, <2>1
<1> QED
  BY <1>3, <1>4, <1>5 DEF beats

LEMMA VectorBounds ==
    ASSUME p \in Params, NEW s \in Pair \cup Single \cup {"done"}, NEW g \in Nat,
           NEW n \in Nat, NEW h \in Nat
    PROVE  /\ ReachAt(s, g, n, "score-wrgb", h) <= Words(h)
           /\ ReachAt(s, g, n, "context-mvgb", h) <= Moves(h)
<1> DEFINE w == Words(h)
           m == Moves(h)
<1>1. Rounds \in Nat \ {0} /\ Columns \in Nat \ {0} /\ w \in Nat /\ m \in Nat
  BY Sizes
<1>2. /\ Least(n, Rounds) \in Nat /\ Least(n, Rounds) <= Rounds
      /\ Least(n, Columns) \in Nat /\ Least(n, Columns) <= Columns
  BY <1>1 DEF Least
<1>3. \A k \in Nat : k <= Rounds => Part(w, k) <= w
  <2> HIDE DEF w
  <2> QED
    BY <1>1, SliceBounds DEF Part
<1>4. /\ \A k \in Nat : k <= Rounds => Late(m, Rounds, k) <= m
      /\ \A k \in Nat : k <= Columns => Late(m, Columns, k) <= m
  <2> HIDE DEF m
  <2> QED
    BY <1>1, LateBounds
<1>5. Whole("score-wrgb", h) <= w /\ Whole("context-mvgb", h) <= m
  BY <1>1, <1>3, <1>4 DEF Whole
<1>6. Scoring("score-wrgb", h, n) <= w /\ Scored("score-wrgb", h) <= w
      /\ Scoring("context-mvgb", h, n) <= m /\ Scored("context-mvgb", h) <= m
  BY <1>1, <1>5 DEF Scoring, Scored
<1>7. /\ Softened("score-wrgb", h, Rounds, n) <= w /\ Softened("score-wrgb", h, Columns, n) <= w
      /\ Softened("context-mvgb", h, Rounds, n) <= m
      /\ Softened("context-mvgb", h, Columns, n) <= m
  BY <1>2, <1>4, <1>6 DEF Softened
<1>8. Contexting("score-wrgb", h, n) <= w /\ Contexting("context-mvgb", h, n) <= m
  BY <1>5 DEF Contexting
<1>9. Part(w, Least(n, Rounds)) <= w
  BY <1>2, <1>3
<1>10. /\ OfHead0(s, h, n, "score-wrgb") <= w /\ OfHead1(s, h, n, "score-wrgb") <= w
       /\ OfHead0(s, h, n, "context-mvgb") <= m /\ OfHead1(s, h, n, "context-mvgb") <= m
  <2> HIDE DEF w, m
  <2> QED
    BY <1>1, <1>5, <1>6, <1>7, <1>8, <1>9 DEF OfHead0, OfHead1, w
<1> QED
  BY <1>1, <1>5, <1>10 DEF ReachAt

(***************************************************************************)
(* The input vectors overlapped with another head, cut into slices of a    *)
(* size rounded down, are written in order and nothing twice, and at most  *)
(* the last commands of a vector, fewer than its beats, are left out.      *)
(***************************************************************************)
THEOREM Vectors == Spec => []VectorsInOrder
<1>1. IInv => VectorsInOrder
  <2> SUFFICES ASSUME IInv, NEW h \in 0..NumItr - 1
               PROVE  /\ \E n \in 0..Words(h) :
                            /\ InOrderUpTo("score-wrgb", h, n)
                            /\ section = "done" =>
                                  n + (IF h % 2 = 0 THEN 1 ELSE Rounds) > Words(h)
                      /\ \E n \in 0..Moves(h) :
                            /\ InOrderUpTo("context-mvgb", h, n)
                            /\ section = "done" =>
                                  n + CeilDiv(IF h % 2 = 0 THEN Rounds ELSE Columns, 2) > Moves(h)
    BY DEF VectorsInOrder
  <2> DEFINE w == Words(h)
             m == Moves(h)
             rw == Reach("score-wrgb", h)
             rm == Reach("context-mvgb", h)
  <2>1. /\ Where /\ p \in Params /\ h \in Nat /\ Rounds \in Nat \ {0} /\ Columns \in Nat \ {0}
        /\ w \in Nat /\ m \in Nat
    <3>1. Where /\ p \in Params
      BY DEF IInv, Where
    <3>2. h \in Nat
      BY <3>1, Sizes
    <3> QED
      BY <3>1, <3>2, Sizes
  <2>2. rw \in Nat /\ rm \in Nat /\ rw <= w /\ rm <= m
    <3>1. rw \in Nat /\ rm \in Nat
      BY <2>1, ReachType
    <3>2. rw <= w /\ rm <= m
      BY <2>1, VectorBounds DEF Where, Reach
    <3> QED
      BY <3>1, <3>2
  <2>3. ASSUME NEW op \in {"score-wrgb", "context-mvgb"}
        PROVE  InOrderUpTo(op, h, Reach(op, h))
    <3>1. op \in OnceKinds /\ op \in Kinds
      BY DEF OnceKinds, Kinds
    <3>2. Nums(total_cmd, op, h) = 0..Reach(op, h) - 1
      BY <3>1 DEF IInv, Progress
    <3>3. {total_cmd[k].n : k \in Written(op, h)} = 0..Reach(op, h) - 1
      BY <3>2 DEF Nums, Written
    <3>4. \A k, l \in Written(op, h) : k < l => total_cmd[k].n < total_cmd[l].n
      BY <3>1 DEF Written, IInv, Rising
    <3> QED
      BY <3>3, <3>4 DEF InOrderUpTo
  <2>4. ASSUME section = "done"
        PROVE  /\ rw + (IF h % 2 = 0 THEN 1 ELSE Rounds) > w
               /\ rm + CeilDiv(IF h % 2 = 0 THEN Rounds ELSE Columns, 2) > m
    <3>1. rw = Whole("score-wrgb", h) /\ rm = Whole("context-mvgb", h)
      BY <2>4 DEF Reach, ReachAt
    <3>2. Part(w, Rounds) + Rounds > w
      <4> HIDE DEF w
      <4> QED
        BY <2>1, SliceBounds DEF Part
    <3>3. /\ Late(m, Rounds, Rounds) + CeilDiv(Rounds, 2) > m
          /\ Late(m, Columns, Columns) + CeilDiv(Columns, 2) > m
      <4> HIDE DEF m
      <4> QED
        BY <2>1, LateBounds
    <3>4. CeilDiv(Rounds, 2) \in Nat \ {0}
      BY <2>1, CeilDivBounds
    <3>5. h % 2 = 0 \/ h % 2 = 1
      BY <2>1
    <3>6. rw = IF h % 2 = 0 THEN w ELSE Part(w, Rounds)
      BY <3>1 DEF Whole
    <3>7. rm = IF h % 2 = 1 THEN Late(m, Columns, Columns)
               ELSE IF h + 1 = NumItr THEN m ELSE Late(m, Rounds, Rounds)
      BY <3>1 DEF Whole
    <3> HIDE DEF w, m, rw, rm
    <3> QED
      BY <2>1, <3>2, <3>3, <3>4, <3>5, <3>6, <3>7
  <2>5. InOrderUpTo("score-wrgb", h, rw) /\ InOrderUpTo("context-mvgb", h, rm)
    BY <2>3
  <2> HIDE DEF rw, rm
  <2>6. rw \in 0..w /\ rm \in 0..m
    <3> HIDE DEF w, m
    <3> QED
      BY <2>1, <2>2
  <2> QED
    BY <2>4, <2>5, <2>6
<1> QED
  BY <1>1, Invariant, PTL

----------------------------------------------------------------------------
(***************************************************************************)
(* Places: numbers in a mixed radix.                                       *)
(***************************************************************************)
LEMMA Quotient ==
    ASSUME NEW q \in Nat, NEW b \in Nat \ {0}, NEW r \in 0..(b - 1)
    PROVE  (q * b + r) \div b = q /\ (q * b + r) % b = r
<1> DEFINE a == q * b + r
           d == a \div b
<1>1. a \in Nat /\ q * b \in Nat
  OBVIOUS
<1>2. d \in Nat /\ d * b <= a /\ a < (d + 1) * b
  BY <1>1, DivBounds
<1>3. (d + 1) * b = d * b + b
  BY <1>2
<1>4. d = q
  <2>1. d >= q
    <3> SUFFICES ASSUME d + 1 <= q PROVE FALSE
      BY <1>2
    <3> HIDE DEF d
    <3>1. (d + 1) * b <= q * b
      BY <1>2
    <3> QED
      BY <1>2, <3>1
  <2>2. d <= q
    <3> SUFFICES ASSUME q + 1 <= d PROVE FALSE
      BY <1>2
    <3> HIDE DEF d
    <3>1. (q + 1) * b <= d * b
      BY <1>2
    <3>2. (q + 1) * b = q * b + b
      OBVIOUS
    <3> QED
      BY <1>2, <3>1, <3>2
  <2> QED
    BY <1>2, <2>1, <2>2
<1>5. a % b = a - b * d
  BY <1>1
<1> QED
  BY <1>4, <1>5

LEMMA Division ==
    ASSUME NEW a \in Nat, NEW b \in Nat \ {0}
    PROVE  /\ a \div b \in Nat /\ a % b \in 0..(b - 1)
           /\ a = (a \div b) * b + (a % b)
           /\ \A c \in Nat : a < c * b => a \div b < c
<1> DEFINE d == a \div b
<1>1. d \in Nat /\ d * b <= a /\ a < (d + 1) * b
  BY DivBounds
<1>2. a % b \in 0..(b - 1) /\ a = d * b + (a % b)
  OBVIOUS
<1>3. ASSUME NEW c \in Nat, a < c * b PROVE d < c
  <2> SUFFICES ASSUME c <= d PROVE FALSE
    BY <1>1
  <2> HIDE DEF d
  <2>1. c * b <= d * b
    BY <1>1, <1>3
  <2> QED
    BY <1>1, <1>3, <2>1
<1> QED
  BY <1>1, <1>2, <1>3

LEMMA Parts ==
    ASSUME NEW a \in Nat, NEW b \in Nat \ {0}
    PROVE  a \div b \in Nat /\ a % b \in Nat /\ a = (a \div b) * b + (a % b)
<1>1. a % b \in 0..(b - 1) => a % b \in Nat
  OBVIOUS
<1> QED
  BY <1>1, Division

(* Two places are the same only if all their parts are. *)
LEMMA SameParts ==
    ASSUME NEW b \in Nat \ {0}, NEW q \in Nat, NEW s \in Nat,
           NEW r \in 0..(b - 1), NEW t \in 0..(b - 1), q * b + r = s * b + t
    PROVE  q = s /\ r = t
<1>1. (q * b + r) \div b = q /\ (q * b + r) % b = r
  BY Quotient
<1>2. (s * b + t) \div b = s /\ (s * b + t) % b = t
  BY Quotient
<1> QED
  BY <1>1, <1>2

(* n sets of c elements without a common one have n * c.                   *)
IsUnion(U, F, n) == U = UNION {F[x] : x \in 0..(n - 1)}
LEMMA DisjointSets ==
    ASSUME NEW U, NEW F, NEW c \in Nat, NEW n \in Nat, IsUnion(U, F, n),
           \A x \in 0..(n - 1) : IsFiniteSet(F[x]) /\ Cardinality(F[x]) = c,
           \A x, y \in 0..(n - 1) : x # y => F[x] \cap F[y] = {}
    PROVE  IsFiniteSet(U) /\ Cardinality(U) = n * c
<1> DEFINE Upto(m) == UNION {F[x] : x \in 0..(m - 1)}
           P == {m \in Nat : m <= n => IsFiniteSet(Upto(m)) /\ Cardinality(Upto(m)) = m * c}
<1>1. 0 \in P
  <2>1. Upto(0) = {}
    OBVIOUS
  <2> HIDE DEF Upto
  <2> QED
    BY <2>1, FS_EmptySet
<1>2. ASSUME NEW m \in Nat, m \in P PROVE m + 1 \in P
  <2> SUFFICES ASSUME m + 1 <= n
               PROVE  IsFiniteSet(Upto(m + 1)) /\ Cardinality(Upto(m + 1)) = (m + 1) * c
    OBVIOUS
  <2>1. 0..((m + 1) - 1) = 0..(m - 1) \cup {m}
    OBVIOUS
  <2>2. Upto(m + 1) = Upto(m) \cup F[m]
    BY <2>1
  <2>3. Upto(m) \cap F[m] = {}
    <3>1. \A x \in 0..(m - 1) : F[x] \cap F[m] = {}
      <4> TAKE x \in 0..(m - 1)
      <4>1. x \in 0..(n - 1) /\ m \in 0..(n - 1) /\ x # m
        OBVIOUS
      <4> QED
        BY <4>1
    <3> QED
      BY <3>1
  <2>4. IsFiniteSet(F[m]) /\ Cardinality(F[m]) = c
    OBVIOUS
  <2>5. IsFiniteSet(Upto(m)) /\ Cardinality(Upto(m)) = m * c
    BY <1>2
  <2> HIDE DEF Upto
  <2>6. /\ IsFiniteSet(Upto(m) \cup F[m])
        /\ Cardinality(Upto(m) \cup F[m]) = m * c + c - Cardinality({})
    <3> DEFINE S == Upto(m)
               G == F[m]
    <3>1. IsFiniteSet(S) /\ IsFiniteSet(G)
      BY <2>4, <2>5
    <3> HIDE DEF S, G
    <3>2. /\ IsFiniteSet(S \cup G)
          /\ Cardinality(S \cup G) = Cardinality(S) + Cardinality(G) - Cardinality(S \cap G)
      BY <3>1, FS_Union, Zenon
    <3> QED
      BY <2>3, <2>4, <2>5, <3>2 DEF S, G
  <2>7. m * c + c - 0 = (m + 1) * c
    OBVIOUS
  <2> QED
    BY <2>2, <2>6, <2>7, FS_EmptySet
<1>3. \A m \in Nat : m \in P
  BY <1>1, <1>2, SetInduction
<1> QED
  BY <1>3 DEF IsUnion

(***************************************************************************)
(* The cells a MAC reads.                                                  *)
(***************************************************************************)
CellAt(at, pch, rank, bg, ba) ==
    [ch |-> at.ch, pch |-> pch, rank |-> rank, bg |-> bg, ba |-> ba, row |-> at.row, col |-> at.col]

LEMMA ReadOfBuffer ==
    ASSUME NEW addr
    PROVE  Read("buffer", addr) =
             {CellAt(Mapped(addr), x, Mapped(addr).rank, Mapped(addr).bg, Mapped(addr).ba) :
                  x \in 0..Pchs - 1}
BY DEF Read, Mapped, CellAt

Spreading(places, field, size) == {[q EXCEPT ![field] = x] : q \in places, x \in 0..size - 1}

LEMMA BgReads ==
    ASSUME NEW addr
    PROVE  Read("bg", addr) = Spreading(Spreading(Spreading({Mapped(addr)}, "pch", Pchs),
                                                  "rank", Ranks), "bg", Bgs)
<1>1. "bg" # "buffer" /\ "bank" # "buffer" /\ "bank" # "bg"
  OBVIOUS
<1> QED
  BY <1>1 DEF Read, Spreading
LEMMA BankReads ==
    ASSUME NEW addr
    PROVE  Read("bank", addr) = Spreading(Read("bg", addr), "ba", Banks)
<1>1. "bg" # "buffer" /\ "bank" # "buffer" /\ "bank" # "bg"
  OBVIOUS
<1> QED
  BY <1>1 DEF Read, Spreading

LEMMA SpreadRank ==
    ASSUME NEW at, NEW A, NEW P, P = {CellAt(at, x, at.rank, at.bg, at.ba) : x \in A}
    PROVE  Spreading(P, "rank", Ranks) =
               {CellAt(at, u[1], u[2], at.bg, at.ba) : u \in A \X (0..Ranks - 1)}
<1> DEFINE R == {CellAt(at, u[1], u[2], at.bg, at.ba) : u \in A \X (0..Ranks - 1)}
<1>1. ASSUME NEW x \in A, NEW y \in 0..Ranks - 1
      PROVE  [CellAt(at, x, at.rank, at.bg, at.ba) EXCEPT !["rank"] = y]
               = CellAt(at, x, y, at.bg, at.ba)
  BY DEF CellAt
<1>2. ASSUME NEW c \in Spreading(P, "rank", Ranks) PROVE c \in R
  <2>1. PICK q \in P, y \in 0..Ranks - 1 : c = [q EXCEPT !["rank"] = y]
    BY DEF Spreading
  <2>2. PICK x \in A : q = CellAt(at, x, at.rank, at.bg, at.ba)
    OBVIOUS
  <2>3. c = CellAt(at, x, y, at.bg, at.ba)
    BY <1>1, <2>1, <2>2
  <2>4. <<x, y>> \in A \X (0..Ranks - 1) /\ <<x, y>>[1] = x /\ <<x, y>>[2] = y
    OBVIOUS
  <2> QED
    BY <2>3, <2>4
<1>3. ASSUME NEW c \in R PROVE c \in Spreading(P, "rank", Ranks)
  <2>1. PICK u \in A \X (0..Ranks - 1) : c = CellAt(at, u[1], u[2], at.bg, at.ba)
    OBVIOUS
  <2>2. u[1] \in A /\ u[2] \in 0..Ranks - 1
    OBVIOUS
  <2>3. c = [CellAt(at, u[1], at.rank, at.bg, at.ba) EXCEPT !["rank"] = u[2]]
    BY <1>1, <2>1, <2>2
  <2>4. CellAt(at, u[1], at.rank, at.bg, at.ba) \in P
    BY <2>2
  <2> QED
    BY <2>2, <2>3, <2>4 DEF Spreading
<1> QED
  BY <1>2, <1>3

LEMMA SpreadBg ==
    ASSUME NEW at, NEW A, NEW P, P = {CellAt(at, x[1], x[2], at.bg, at.ba) : x \in A}
    PROVE  Spreading(P, "bg", Bgs) =
               {CellAt(at, u[1][1], u[1][2], u[2], at.ba) : u \in A \X (0..Bgs - 1)}
<1> DEFINE R == {CellAt(at, u[1][1], u[1][2], u[2], at.ba) : u \in A \X (0..Bgs - 1)}
<1>1. ASSUME NEW x \in A, NEW y \in 0..Bgs - 1
      PROVE  [CellAt(at, x[1], x[2], at.bg, at.ba) EXCEPT !["bg"] = y]
               = CellAt(at, x[1], x[2], y, at.ba)
  BY DEF CellAt
<1>2. ASSUME NEW c \in Spreading(P, "bg", Bgs) PROVE c \in R
  <2>1. PICK q \in P, y \in 0..Bgs - 1 : c = [q EXCEPT !["bg"] = y]
    BY DEF Spreading
  <2>2. PICK x \in A : q = CellAt(at, x[1], x[2], at.bg, at.ba)
    OBVIOUS
  <2>3. c = CellAt(at, x[1], x[2], y, at.ba)
    BY <1>1, <2>1, <2>2
  <2>4. <<x, y>> \in A \X (0..Bgs - 1) /\ <<x, y>>[1] = x /\ <<x, y>>[2] = y
    OBVIOUS
  <2> QED
    BY <2>3, <2>4
<1>3. ASSUME NEW c \in R PROVE c \in Spreading(P, "bg", Bgs)
  <2>1. PICK u \in A \X (0..Bgs - 1) : c = CellAt(at, u[1][1], u[1][2], u[2], at.ba)
    OBVIOUS
  <2>2. u[1] \in A /\ u[2] \in 0..Bgs - 1
    OBVIOUS
  <2>3. c = [CellAt(at, u[1][1], u[1][2], at.bg, at.ba) EXCEPT !["bg"] = u[2]]
    BY <1>1, <2>1, <2>2
  <2>4. CellAt(at, u[1][1], u[1][2], at.bg, at.ba) \in P
    BY <2>2
  <2> QED
    BY <2>2, <2>3, <2>4 DEF Spreading
<1> QED
  BY <1>2, <1>3

LEMMA SpreadBa ==
    ASSUME NEW at, NEW A, NEW P, P = {CellAt(at, x[1][1], x[1][2], x[2], at.ba) : x \in A}
    PROVE  Spreading(P, "ba", Banks) =
               {CellAt(at, u[1][1][1], u[1][1][2], u[1][2], u[2]) : u \in A \X (0..Banks - 1)}
<1> DEFINE R == {CellAt(at, u[1][1][1], u[1][1][2], u[1][2], u[2]) : u \in A \X (0..Banks - 1)}
<1>1. ASSUME NEW x \in A, NEW y \in 0..Banks - 1
      PROVE  [CellAt(at, x[1][1], x[1][2], x[2], at.ba) EXCEPT !["ba"] = y]
               = CellAt(at, x[1][1], x[1][2], x[2], y)
  BY DEF CellAt
<1>2. ASSUME NEW c \in Spreading(P, "ba", Banks) PROVE c \in R
  <2>1. PICK q \in P, y \in 0..Banks - 1 : c = [q EXCEPT !["ba"] = y]
    BY DEF Spreading
  <2>2. PICK x \in A : q = CellAt(at, x[1][1], x[1][2], x[2], at.ba)
    OBVIOUS
  <2>3. c = CellAt(at, x[1][1], x[1][2], x[2], y)
    BY <1>1, <2>1, <2>2
  <2>4. <<x, y>> \in A \X (0..Banks - 1) /\ <<x, y>>[1] = x /\ <<x, y>>[2] = y
    OBVIOUS
  <2> QED
    BY <2>3, <2>4
<1>3. ASSUME NEW c \in R PROVE c \in Spreading(P, "ba", Banks)
  <2>1. PICK u \in A \X (0..Banks - 1) : c = CellAt(at, u[1][1][1], u[1][1][2], u[1][2], u[2])
    OBVIOUS
  <2>2. u[1] \in A /\ u[2] \in 0..Banks - 1
    OBVIOUS
  <2>3. c = [CellAt(at, u[1][1][1], u[1][1][2], u[1][2], at.ba) EXCEPT !["ba"] = u[2]]
    BY <1>1, <2>1, <2>2
  <2>4. CellAt(at, u[1][1][1], u[1][1][2], u[1][2], at.ba) \in P
    BY <2>2
  <2> QED
    BY <2>2, <2>3, <2>4 DEF Spreading
<1> QED
  BY <1>2, <1>3

(* A set that lists each of its members once. *)
LEMMA Listed ==
    ASSUME NEW T, IsFiniteSet(T), NEW S, NEW g \in [T -> S],
           \A s, t \in T : g[s] = g[t] => s = t, \A c \in S : \E t \in T : g[t] = c
    PROVE  IsFiniteSet(S) /\ Cardinality(S) = Cardinality(T)
<1>1. g \in Bijection(T, S)
  BY DEF Bijection, Injection, Surjection, IsInjective
<1> QED
  BY <1>1, FS_Bijection DEF ExistsBijection

(* A MAC reads one column of each bank it is broadcast to. *)
Broadcast(style) ==
    (IF style = "buffer" THEN Pchs ELSE Pchs * Partitions)
        * (IF style = "bank" THEN Banks ELSE 1)

LEMMA Intervals ==
    ASSUME NEW n \in Nat \ {0}
    PROVE  IsFiniteSet(0..n - 1) /\ Cardinality(0..n - 1) = n
BY FS_Interval

LEMMA CellsOfMac ==
    ASSUME NEW style \in {"bank", "bg", "buffer"}, NEW addr
    PROVE  /\ IsFiniteSet(Read(style, addr))
           /\ Cardinality(Read(style, addr)) = Broadcast(style)
           /\ \A cell \in Read(style, addr) :
                 LET at == Mapped(addr) IN
                 /\ cell.ch = at.ch /\ cell.row = at.row /\ cell.col = at.col
                 /\ style # "bank" => cell.ba = at.ba
                 /\ style = "buffer" => cell.rank = at.rank /\ cell.bg = at.bg
<1> DEFINE at == Mapped(addr)
           A == 0..Pchs - 1
           B == A \X (0..Ranks - 1)
           C == B \X (0..Bgs - 1)
           D == C \X (0..Banks - 1)
           Pch == {CellAt(at, x, at.rank, at.bg, at.ba) : x \in A}
           Rank == {CellAt(at, u[1], u[2], at.bg, at.ba) : u \in B}
           Bg == {CellAt(at, u[1][1], u[1][2], u[2], at.ba) : u \in C}
           Bank == {CellAt(at, u[1][1][1], u[1][1][2], u[1][2], u[2]) : u \in D}
<1>1. {Pchs, Ranks, Bgs, Banks} \subseteq Nat \ {0}
  BY AddressAssumption
<1>2. /\ IsFiniteSet(A) /\ IsFiniteSet(B) /\ IsFiniteSet(C) /\ IsFiniteSet(D)
      /\ Cardinality(A) = Pchs /\ Cardinality(B) = Pchs * Ranks
      /\ Cardinality(C) = (Pchs * Ranks) * Bgs
      /\ Cardinality(D) = ((Pchs * Ranks) * Bgs) * Banks
  <2>1. /\ IsFiniteSet(A) /\ Cardinality(A) = Pchs
        /\ IsFiniteSet(0..Ranks - 1) /\ Cardinality(0..Ranks - 1) = Ranks
        /\ IsFiniteSet(0..Bgs - 1) /\ Cardinality(0..Bgs - 1) = Bgs
        /\ IsFiniteSet(0..Banks - 1) /\ Cardinality(0..Banks - 1) = Banks
    BY <1>1, Intervals
  <2>2. IsFiniteSet(B) /\ Cardinality(B) = Pchs * Ranks
    <3> DEFINE R == 0..Ranks - 1
    <3>1. IsFiniteSet(A) /\ IsFiniteSet(R)
      BY <2>1
    <3> HIDE DEF A, R
    <3>2. IsFiniteSet(A \X R) /\ Cardinality(A \X R) = Cardinality(A) * Cardinality(R)
      BY <3>1, FS_Product, Zenon
    <3> QED
      BY <3>2, <2>1 DEF R
  <2>3. IsFiniteSet(C) /\ Cardinality(C) = (Pchs * Ranks) * Bgs
    <3> DEFINE R == 0..Bgs - 1
    <3>1. IsFiniteSet(B) /\ IsFiniteSet(R)
      BY <2>1, <2>2
    <3> HIDE DEF A, B, R
    <3>2. IsFiniteSet(B \X R) /\ Cardinality(B \X R) = Cardinality(B) * Cardinality(R)
      BY <3>1, FS_Product, Zenon
    <3> QED
      BY <3>2, <2>1, <2>2 DEF R
  <2>4. IsFiniteSet(D) /\ Cardinality(D) = ((Pchs * Ranks) * Bgs) * Banks
    <3> DEFINE R == 0..Banks - 1
    <3>1. IsFiniteSet(C) /\ IsFiniteSet(R)
      BY <2>1, <2>3
    <3> HIDE DEF A, B, C, R
    <3>2. IsFiniteSet(C \X R) /\ Cardinality(C \X R) = Cardinality(C) * Cardinality(R)
      BY <3>1, FS_Product, Zenon
    <3> QED
      BY <3>2, <2>1, <2>3 DEF R
  <2> QED
    BY <2>1, <2>2, <2>3, <2>4
<1>3. Read("buffer", addr) = Pch
  BY ReadOfBuffer
<1>4. Read("bg", addr) = Bg
  <2>1. Spreading({at}, "pch", Pchs) = Pch
    BY DEF Spreading, CellAt, Mapped
  <2> HIDE DEF at
  <2>2. Spreading(Pch, "rank", Ranks) = Rank
    BY SpreadRank
  <2>3. Spreading(Rank, "bg", Bgs) = Bg
    BY SpreadBg
  <2> QED
    BY <2>1, <2>2, <2>3, BgReads, Zenon DEF at
<1>5. Read("bank", addr) = Bank
  <2> HIDE DEF at
  <2>1. Spreading(Bg, "ba", Banks) = Bank
    BY SpreadBa
  <2> QED
    BY <2>1, <1>4, BankReads, Zenon
<1> HIDE DEF at
<1>6. /\ IsFiniteSet(Pch) /\ Cardinality(Pch) = Pchs
      /\ IsFiniteSet(Bg) /\ Cardinality(Bg) = (Pchs * Ranks) * Bgs
      /\ IsFiniteSet(Bank) /\ Cardinality(Bank) = ((Pchs * Ranks) * Bgs) * Banks
  <2>1. IsFiniteSet(Pch) /\ Cardinality(Pch) = Pchs
    <3> DEFINE g == [x \in A |-> CellAt(at, x, at.rank, at.bg, at.ba)]
    <3>1. \A s, t \in A : g[s] = g[t] => s = t
      BY DEF CellAt
    <3>2. g \in [A -> Pch] /\ \A c \in Pch : \E t \in A : g[t] = c
      OBVIOUS
    <3> HIDE DEF g, Pch, A
    <3> QED
      BY <1>2, <3>1, <3>2, Listed
  <2>2. IsFiniteSet(Bg) /\ Cardinality(Bg) = (Pchs * Ranks) * Bgs
    <3> DEFINE g == [u \in C |-> CellAt(at, u[1][1], u[1][2], u[2], at.ba)]
    <3>1. \A s, t \in C : g[s] = g[t] => s = t
      BY DEF CellAt
    <3>2. g \in [C -> Bg] /\ \A c \in Bg : \E t \in C : g[t] = c
      OBVIOUS
    <3> HIDE DEF g, Bg, C
    <3> QED
      BY <1>2, <3>1, <3>2, Listed
  <2>3. IsFiniteSet(Bank) /\ Cardinality(Bank) = ((Pchs * Ranks) * Bgs) * Banks
    <3> DEFINE g == [u \in D |-> CellAt(at, u[1][1][1], u[1][1][2], u[1][2], u[2])]
    <3>1. \A s, t \in D : g[s] = g[t] => s = t
      BY DEF CellAt
    <3>2. g \in [D -> Bank] /\ \A c \in Bank : \E t \in D : g[t] = c
      OBVIOUS
    <3> HIDE DEF g, Bank, D
    <3> QED
      BY <1>2, <3>1, <3>2, Listed
  <2> QED
    BY <2>1, <2>2, <2>3
<1>7. \A x, y, z, w :
        LET c == CellAt(at, x, y, z, w)
        IN  /\ c.ch = at.ch /\ c.row = at.row /\ c.col = at.col
            /\ c.rank = y /\ c.bg = z /\ c.ba = w
  BY DEF CellAt
<1>8. /\ \A cell \in Pch : /\ cell.ch = at.ch /\ cell.row = at.row /\ cell.col = at.col
                           /\ cell.rank = at.rank /\ cell.bg = at.bg /\ cell.ba = at.ba
      /\ \A cell \in Bg : /\ cell.ch = at.ch /\ cell.row = at.row /\ cell.col = at.col
                          /\ cell.ba = at.ba
      /\ \A cell \in Bank : cell.ch = at.ch /\ cell.row = at.row /\ cell.col = at.col
  BY <1>7
<1>9. /\ Broadcast("buffer") = Pchs /\ Broadcast("bg") = (Pchs * Ranks) * Bgs
      /\ Broadcast("bank") = ((Pchs * Ranks) * Bgs) * Banks
  BY <1>1 DEF Broadcast, Partitions
<1> HIDE DEF Pch, Bg, Bank
<1>10. CASE style = "buffer"
  BY <1>3, <1>6, <1>8, <1>9, <1>10 DEF at
<1>11. CASE style = "bg"
  BY <1>4, <1>6, <1>8, <1>9, <1>11 DEF at
<1>12. CASE style = "bank"
  BY <1>5, <1>6, <1>8, <1>9, <1>12 DEF at
<1> QED
  BY <1>10, <1>11, <1>12

(***************************************************************************)
(* Where a cell is: in which of the banks a command is not broadcast to,   *)
(* and how deep in its bank.                                               *)
(***************************************************************************)
BankRow == Rows * Cols
Depth(cell) == cell.row * Cols + cell.col
Chosen(style, cell) ==
    CASE style = "bank" -> 0
      [] style = "bg" -> cell.ba
      [] style = "buffer" -> (cell.rank * Bgs + cell.bg) * Banks + cell.ba
BanksApart(style) ==
    CASE style = "bank" -> 1 [] style = "bg" -> Banks [] style = "buffer" -> Partitions * Banks

LEMMA MappedPlace ==
    ASSUME NEW addr \in Nat, NEW u \in Nat, NEW d \in 0..(BankRow - 1),
           addr \div ColBytes = u * BankRow + d
    PROVE  LET at == Mapped(addr)
               choice == (at.rank * Bgs + at.bg) * Banks + at.ba
           IN  /\ Depth(at) = d
               /\ u < Banks => at.ba = u
               /\ u < Partitions * Banks => at.ch = 0 /\ choice = u
<1> DEFINE co == addr \div ColBytes
           ro == co \div Cols
           ba == ro \div Rows
           bg == ba \div Banks
           ra == bg \div Bgs
           pch == ra \div Ranks
           deep == d \div Cols
<1>1. {Channels, Pchs, Ranks, Bgs, Banks, Rows, Cols, ColBytes} \subseteq Nat \ {0}
  BY AddressAssumption
<1>2. BankRow \in Nat \ {0} /\ u * BankRow = (u * Rows) * Cols
  BY <1>1 DEF BankRow
<1>3. deep \in Nat /\ d % Cols \in 0..(Cols - 1) /\ d = deep * Cols + (d % Cols) /\ deep < Rows
  <2>1. d \in Nat /\ d < Rows * Cols
    BY <1>2 DEF BankRow
  <2> QED
    BY <1>1, <2>1, Division
<1>4. ro = u * Rows + deep /\ co % Cols = d % Cols
  <2> DEFINE q == u * Rows + deep
  <2> DEFINE rest == d % Cols
             above == u * Rows
  <2>1. above \in Nat /\ deep \in Nat /\ rest \in 0..(Cols - 1) /\ Cols \in Nat \ {0}
    BY <1>1, <1>3
  <2>2. co = above * Cols + (deep * Cols + rest)
    BY <1>2, <1>3
  <2> HIDE DEF co, deep, above, rest
  <2>3. q \in Nat /\ q * Cols = above * Cols + deep * Cols
    BY <2>1 DEF above
  <2>4. co = q * Cols + rest
    BY <2>1, <2>2, <2>3
  <2> HIDE DEF q
  <2>5. co \div Cols = q /\ co % Cols = rest
    <3>1. (q * Cols + rest) \div Cols = q /\ (q * Cols + rest) % Cols = rest
      BY <2>1, <2>3, Quotient
    <3> QED
      BY <2>4, <3>1
  <2> QED
    BY <2>5 DEF co, q, rest, above
<1> HIDE DEF co
<1>5. ba = u /\ ro % Rows = deep
  <2>1. deep \in 0..(Rows - 1)
    BY <1>1, <1>3
  <2> HIDE DEF deep, ro
  <2>2. (u * Rows + deep) \div Rows = u /\ (u * Rows + deep) % Rows = deep
    BY <1>1, <2>1, Quotient
  <2> QED
    BY <1>4, <2>2
<1> HIDE DEF ro, deep
<1>6. Mapped(addr) = [ch |-> (pch \div Pchs) % Channels, pch |-> pch % Pchs, rank |-> ra % Ranks,
                      bg |-> bg % Bgs, ba |-> ba % Banks, row |-> ro % Rows, col |-> co % Cols]
  BY DEF Mapped, co, ro
<1> DEFINE at == Mapped(addr)
<1>7. at.row = deep /\ at.col = d % Cols
  BY <1>4, <1>5, <1>6
<1>8. Depth(at) = d
  BY <1>3, <1>7 DEF Depth
<1>9. at.ba = u % Banks /\ at.bg = (u \div Banks) % Bgs
      /\ at.rank = ((u \div Banks) \div Bgs) % Ranks
      /\ at.ch = ((((u \div Banks) \div Bgs) \div Ranks) \div Pchs) % Channels
  BY <1>5, <1>6
<1> HIDE DEF at, ba, bg, ra, pch
<1>10. ASSUME u < Banks PROVE at.ba = u
  <2>1. u = 0 * Banks + u /\ u \in 0..(Banks - 1)
    BY <1>1, <1>10
  <2>2. u % Banks = u
    BY <1>1, <2>1, Quotient
  <2> QED
    BY <1>9, <2>2
<1>11. ASSUME u < Partitions * Banks
       PROVE  at.ch = 0 /\ (at.rank * Bgs + at.bg) * Banks + at.ba = u
  <2> DEFINE v == u \div Banks
             w == v \div Bgs
  <2>1. v \in Nat /\ u % Banks \in Nat /\ u = v * Banks + (u % Banks) /\ v < Ranks * Bgs
    <3>1. Ranks * Bgs \in Nat
      BY <1>1
    <3>2. u < (Ranks * Bgs) * Banks
      BY <1>11 DEF Partitions
    <3>3. /\ u \div Banks \in Nat /\ u % Banks \in 0..(Banks - 1)
          /\ u = (u \div Banks) * Banks + (u % Banks)
          /\ \A c \in Nat : u < c * Banks => u \div Banks < c
      BY <1>1, Division
    <3> QED
      BY <3>1, <3>2, <3>3
  <2> HIDE DEF v
  <2>2. w \in Nat /\ v % Bgs \in Nat /\ v = w * Bgs + (v % Bgs) /\ w < Ranks
    <3>1. /\ v \div Bgs \in Nat /\ v % Bgs \in 0..(Bgs - 1)
          /\ v = (v \div Bgs) * Bgs + (v % Bgs)
          /\ \A c \in Nat : v < c * Bgs => v \div Bgs < c
      BY <1>1, <2>1, Division
    <3> QED
      BY <1>1, <2>1, <3>1
  <2> HIDE DEF w
  <2>3. w % Ranks = w /\ w \div Ranks = 0
    <3>1. w = 0 * Ranks + w /\ w \in 0..(Ranks - 1)
      BY <1>1, <2>2
    <3> QED
      BY <1>1, <3>1, Quotient
  <2>4. 0 \div Pchs = 0 /\ 0 % Channels = 0
    BY <1>1
  <2>5. at.ba = u % Banks /\ at.bg = v % Bgs /\ at.rank = w /\ at.ch = 0
    BY <1>9, <2>3, <2>4 DEF v, w
  <2> QED
    BY <2>1, <2>2, <2>5
<1> QED
  BY <1>8, <1>10, <1>11 DEF at

(***************************************************************************)
(* The column that MAC idx of a head reads, counted from the head's own    *)
(* address: in which of the banks and how deep.                            *)
(***************************************************************************)
Styles == {"bank", "bg", "buffer"}
PlaceOf(style, idx) ==
    CASE style = "bank" -> BankPlace(idx)
      [] style = "bg" -> BgPlace(idx)
      [] style = "buffer" -> BufferPlace(idx)
Shift(style, idx) ==
    CASE style = "bank" -> 0
      [] style = "bg" -> (idx \div Cols) % Banks
      [] style = "buffer" -> (idx % Partitions) * Banks + ((idx \div Partitions) % Banks)
Column(style, idx) ==
    CASE style = "bank" -> idx
      [] style = "bg" -> ((idx \div Cols) \div Banks) * Cols + (idx % Cols)
      [] style = "buffer" -> (idx \div Partitions) \div Banks

LEMMA ShiftTypes ==
    ASSUME NEW style \in Styles, NEW idx \in Nat
    PROVE  Shift(style, idx) \in 0..(BanksApart(style) - 1) /\ Column(style, idx) \in Nat
<1>1. {Ranks, Bgs, Banks, Cols} \subseteq Nat \ {0} /\ Partitions \in Nat \ {0}
  BY AddressAssumption DEF Partitions
<1>2. idx \div Cols \in Nat /\ idx % Cols \in 0..(Cols - 1)
  BY <1>1, Division
<1>3. (idx \div Cols) \div Banks \in Nat /\ (idx \div Cols) % Banks \in 0..(Banks - 1)
  BY <1>1, <1>2, Division
<1>4. idx \div Partitions \in Nat /\ idx % Partitions \in 0..(Partitions - 1)
  BY <1>1, Division
<1>5. /\ (idx \div Partitions) \div Banks \in Nat
      /\ (idx \div Partitions) % Banks \in 0..(Banks - 1)
  BY <1>1, <1>4, Division
<1>6. CASE style = "bank"
  BY <1>6 DEF Shift, Column, BanksApart
<1>7. CASE style = "bg"
  <2>1. ((idx \div Cols) \div Banks) * Cols \in Nat
    BY <1>1, <1>3
  <2>2. /\ Shift(style, idx) = (idx \div Cols) % Banks /\ BanksApart(style) = Banks
        /\ Column(style, idx) = ((idx \div Cols) \div Banks) * Cols + (idx % Cols)
    BY <1>7 DEF Shift, Column, BanksApart
  <2> QED
    BY <1>2, <1>3, <2>1, <2>2
<1>8. CASE style = "buffer"
  <2> DEFINE q == idx % Partitions
             r == (idx \div Partitions) % Banks
  <2>1. /\ Shift(style, idx) = q * Banks + r /\ BanksApart(style) = Partitions * Banks
        /\ Column(style, idx) = (idx \div Partitions) \div Banks
    BY <1>8 DEF Shift, Column, BanksApart
  <2>2. q \in 0..(Partitions - 1) /\ r \in 0..(Banks - 1)
    BY <1>4, <1>5
  <2> HIDE DEF q, r
  <2>3. q * Banks + r \in 0..(Partitions * Banks - 1)
    <3>1. q * Banks \in Nat /\ Partitions * Banks \in Nat
          /\ (Partitions - 1) * Banks = Partitions * Banks - Banks
      BY <1>1, <2>2
    <3>2. \A a, b \in Int : a <= b => a * Banks <= b * Banks
      BY <1>1
    <3>3. q * Banks <= (Partitions - 1) * Banks
      BY <1>1, <2>2, <3>2
    <3> QED
      BY <1>1, <2>2, <3>1, <3>3
  <2> QED
    BY <1>5, <2>1, <2>3
<1> QED
  BY <1>6, <1>7, <1>8 DEF Styles

LEMMA PlaceParts ==
    ASSUME NEW style \in Styles, NEW idx \in Nat
    PROVE  PlaceOf(style, idx) = (Shift(style, idx) * BankRow + Column(style, idx)) * ColBytes
<1>1. {Ranks, Bgs, Banks, Rows, Cols, ColBytes} \subseteq Nat \ {0} /\ Partitions \in Nat \ {0}
  BY AddressAssumption DEF Partitions
<1>2. /\ HBM_GS.col = ColBytes /\ HBM_GS.row = Cols * ColBytes
      /\ HBM_GS.ba = Rows * (Cols * ColBytes) /\ HBM_GS.bg = Banks * (Rows * (Cols * ColBytes))
  BY DEF HBM_GS
<1>3. BankRow \in Nat /\ HBM_GS.ba = BankRow * ColBytes
      /\ HBM_GS.bg = (Banks * BankRow) * ColBytes
  BY <1>1, <1>2 DEF BankRow
<1> HIDE DEF HBM_GS
<1>4. \A a, b, c \in Nat : (a + b) * c = a * c + b * c /\ (a * b) * c = a * (b * c)
  OBVIOUS
<1>5. CASE style = "bank"
  <2>1. PlaceOf(style, idx) = idx * ColBytes /\ Shift(style, idx) = 0 /\ Column(style, idx) = idx
    BY <1>5, <1>2 DEF PlaceOf, BankPlace, Shift, Column
  <2> QED
    BY <1>1, <1>3, <2>1
<1>6. CASE style = "bg"
  <2> DEFINE rows == idx \div Cols
             u == rows % Banks
             v == rows \div Banks
             w == idx % Cols
  <2>1. /\ PlaceOf(style, idx) = u * HBM_GS.ba + v * HBM_GS.row + w * HBM_GS.col
        /\ Shift(style, idx) = u /\ Column(style, idx) = v * Cols + w
    BY <1>6 DEF PlaceOf, BgPlace, Shift, Column
  <2>2. rows \in Nat /\ w \in Nat
    BY <1>1, Parts
  <2>3. u \in Nat /\ v \in Nat
    BY <1>1, <2>2, Parts
  <2> HIDE DEF u, v, w, rows
  <2> DEFINE x == u * BankRow
             y == v * Cols
  <2>4. x \in Nat /\ y \in Nat
    BY <1>1, <1>3, <2>3
  <2>5. u * HBM_GS.ba = x * ColBytes /\ v * HBM_GS.row = y * ColBytes
    BY <1>1, <1>2, <1>3, <2>3
  <2> HIDE DEF x, y
  <2>6. (x + (y + w)) * ColBytes = x * ColBytes + y * ColBytes + w * ColBytes
    BY <1>1, <2>2, <2>4
  <2> QED
    BY <1>2, <2>1, <2>5, <2>6 DEF x, y
<1>7. CASE style = "buffer"
  <2> DEFINE bgs == idx \div Partitions
             banks == bgs \div Banks
             u == idx % Partitions
             v == bgs % Banks
             r == banks \div Cols
             w == banks % Cols
  <2>1. /\ PlaceOf(style, idx) = u * HBM_GS.bg + v * HBM_GS.ba + r * HBM_GS.row + w * HBM_GS.col
        /\ Shift(style, idx) = u * Banks + v /\ Column(style, idx) = banks
    BY <1>7 DEF PlaceOf, BufferPlace, Shift, Column
  <2>2. bgs \in Nat /\ u \in Nat
    BY <1>1, Parts
  <2>3. banks \in Nat /\ v \in Nat
    BY <1>1, <2>2, Parts
  <2>4. r \in Nat /\ w \in Nat /\ banks = r * Cols + w
    <3> HIDE DEF banks
    <3> QED
      BY <1>1, <2>3, Parts
  <2> HIDE DEF bgs, banks, u, v, r, w
  <2> DEFINE x == (u * Banks) * BankRow
             y == v * BankRow
             z == r * Cols
  <2>5. x \in Nat /\ y \in Nat /\ z \in Nat /\ (u * Banks + v) * BankRow = x + y
    BY <1>1, <1>3, <2>2, <2>3, <2>4
  <2>6. /\ u * HBM_GS.bg = x * ColBytes /\ v * HBM_GS.ba = y * ColBytes
        /\ r * HBM_GS.row = z * ColBytes
    BY <1>1, <1>2, <1>3, <2>2, <2>3, <2>4
  <2> HIDE DEF x, y
  <2>7. (x + y + (z + w)) * ColBytes
          = x * ColBytes + y * ColBytes + z * ColBytes + w * ColBytes
    <3> HIDE DEF z
    <3> QED
      BY <1>1, <2>4, <2>5
  <2> QED
    BY <1>2, <2>1, <2>4, <2>5, <2>6, <2>7 DEF z
<1> QED
  BY <1>5, <1>6, <1>7 DEF Styles

LEMMA PlacesDiffer ==
    ASSUME NEW style \in Styles, NEW idx \in Nat, NEW idy \in Nat,
           Shift(style, idx) = Shift(style, idy), Column(style, idx) = Column(style, idy)
    PROVE  idx = idy
<1>1. {Ranks, Bgs, Banks, Cols} \subseteq Nat \ {0} /\ Partitions \in Nat \ {0}
  BY AddressAssumption DEF Partitions
<1>2. CASE style = "bank"
  BY <1>2 DEF Column
<1>3. CASE style = "bg"
  <2> DEFINE Deep(n) == (n \div Cols) \div Banks
             Side(n) == (n \div Cols) % Banks
             Rest(n) == n % Cols
  <2>1. ASSUME NEW n \in Nat
        PROVE  /\ Shift(style, n) = Side(n) /\ Column(style, n) = Deep(n) * Cols + Rest(n)
               /\ Deep(n) \in Nat /\ Side(n) \in Nat /\ Rest(n) \in 0..(Cols - 1)
               /\ n = (Deep(n) * Banks + Side(n)) * Cols + Rest(n)
    <3>1. n \div Cols \in Nat /\ n = (n \div Cols) * Cols + (n % Cols) /\ n % Cols \in 0..(Cols - 1)
      BY <1>1, Division
    <3>2. /\ (n \div Cols) \div Banks \in Nat /\ (n \div Cols) % Banks \in Nat
          /\ n \div Cols = ((n \div Cols) \div Banks) * Banks + ((n \div Cols) % Banks)
      BY <1>1, <3>1, Parts
    <3>3. Shift(style, n) = Side(n) /\ Column(style, n) = Deep(n) * Cols + Rest(n)
      BY <1>3 DEF Shift, Column
    <3> QED
      BY <3>1, <3>2, <3>3
  <2> HIDE DEF Deep, Side, Rest
  <2>2. /\ Deep(idx) * Cols + Rest(idx) = Deep(idy) * Cols + Rest(idy)
        /\ Side(idx) = Side(idy)
    BY <2>1
  <2>3. Deep(idx) = Deep(idy) /\ Rest(idx) = Rest(idy)
    <3>1. /\ Deep(idx) \in Nat /\ Rest(idx) \in 0..(Cols - 1)
          /\ Deep(idy) \in Nat /\ Rest(idy) \in 0..(Cols - 1)
      BY <2>1
    <3> QED
      BY <1>1, <2>2, <3>1, SameParts
  <2> QED
    BY <2>1, <2>2, <2>3, Zenon
<1>4. CASE style = "buffer"
  <2> DEFINE Unit(n) == n % Partitions
             Side(n) == (n \div Partitions) % Banks
             Deep(n) == (n \div Partitions) \div Banks
  <2>1. ASSUME NEW n \in Nat
        PROVE  /\ Shift(style, n) = Unit(n) * Banks + Side(n) /\ Column(style, n) = Deep(n)
               /\ Deep(n) \in Nat /\ Side(n) \in 0..(Banks - 1) /\ Unit(n) \in Nat
               /\ n = (Deep(n) * Banks + Side(n)) * Partitions + Unit(n)
    <3>1. n \div Partitions \in Nat /\ n % Partitions \in Nat
          /\ n = (n \div Partitions) * Partitions + (n % Partitions)
      BY <1>1, Parts
    <3>2. /\ (n \div Partitions) \div Banks \in Nat
          /\ (n \div Partitions) % Banks \in 0..(Banks - 1)
          /\ n \div Partitions
               = ((n \div Partitions) \div Banks) * Banks + ((n \div Partitions) % Banks)
      BY <1>1, <3>1, Division
    <3>3. Shift(style, n) = Unit(n) * Banks + Side(n) /\ Column(style, n) = Deep(n)
      BY <1>4 DEF Shift, Column
    <3> QED
      BY <3>1, <3>2, <3>3
  <2> HIDE DEF Deep, Side, Unit
  <2>2. /\ Unit(idx) * Banks + Side(idx) = Unit(idy) * Banks + Side(idy)
        /\ Deep(idx) = Deep(idy)
    BY <2>1
  <2>3. Unit(idx) = Unit(idy) /\ Side(idx) = Side(idy)
    <3>1. /\ Unit(idx) \in Nat /\ Side(idx) \in 0..(Banks - 1)
          /\ Unit(idy) \in Nat /\ Side(idy) \in 0..(Banks - 1)
      BY <2>1
    <3> QED
      BY <1>1, <2>2, <3>1, SameParts
  <2> QED
    BY <2>1, <2>2, <2>3, Zenon
<1> QED
  BY <1>2, <1>3, <1>4 DEF Styles

(* How many rows of a bank hold n columns of a style, as PlacesOfTheirOwn  *)
(* counts them.                                                            *)
Width(style) == IF style = "bank" THEN Banks ELSE 1
RowsOf(style, n) == CeilDiv(n * Width(style), Cols * Banks)

LEMMA ColumnWithinRows ==
    ASSUME NEW style \in Styles, NEW n \in Nat, NEW idx \in 0..(n - 1)
    PROVE  RowsOf(style, n) \in Nat /\ Column(style, idx) < RowsOf(style, n) * Cols
<1> DEFINE r == RowsOf(style, n)
           w == Width(style)
<1>1. {Ranks, Bgs, Banks, Cols} \subseteq Nat \ {0} /\ Partitions \in Nat \ {0}
  BY AddressAssumption DEF Partitions
<1>2. w \in Nat \ {0} /\ Cols * Banks \in Nat \ {0} /\ n * w \in Nat
  BY <1>1 DEF Width
<1>3. r \in Nat /\ r * (Cols * Banks) >= n * w
  BY <1>2, CeilDivBounds DEF RowsOf
<1> HIDE DEF r
<1>4. r * Cols \in Nat /\ r * (Cols * Banks) = (r * Cols) * Banks /\ (r * Cols) * Banks = (r * Banks) * Cols
      /\ r * Banks \in Nat
  BY <1>1, <1>3
<1>5. idx \in Nat /\ idx < n
  OBVIOUS
<1>6. CASE style = "bank"
  <2>1. w = Banks
    BY <1>6 DEF Width
  <2>2. Column(style, idx) = idx
    BY <1>6 DEF Column
  <2> DEFINE x == r * Cols
  <2>3. x \in Nat /\ x * Banks >= n * Banks
    BY <1>3, <1>4, <2>1
  <2> HIDE DEF x, w
  <2>4. x >= n
    <3> SUFFICES ASSUME x + 1 <= n PROVE FALSE
      BY <2>3
    <3>1. (x + 1) * Banks <= n * Banks /\ (x + 1) * Banks = x * Banks + Banks
      BY <1>1, <2>3
    <3> QED
      BY <1>1, <2>3, <3>1
  <2> QED
    BY <1>3, <1>5, <2>2, <2>3, <2>4 DEF x, r
<1>7. CASE style = "bg"
  <2>1. w = 1
    BY <1>7 DEF Width
  <2> DEFINE rows == idx \div Cols
             deep == rows \div Banks
             rest == idx % Cols
  <2>2. Column(style, idx) = deep * Cols + rest
    BY <1>7 DEF Column
  <2>3. idx < (r * Banks) * Cols
    <3>1. n * w = n
      BY <2>1
    <3> HIDE DEF w
    <3>2. r * (Cols * Banks) >= n
      BY <1>3, <3>1
    <3>3. r * (Cols * Banks) = (r * Banks) * Cols
      BY <1>4
    <3> QED
      BY <1>5, <3>2, <3>3, <1>4, <1>1
  <2>4. rows \in Nat /\ rest \in 0..(Cols - 1) /\ rows < r * Banks
    <3>1. /\ idx \div Cols \in Nat /\ idx % Cols \in 0..(Cols - 1)
          /\ \A c \in Nat : idx < c * Cols => idx \div Cols < c
      BY <1>1, <1>5, Division
    <3> QED
      BY <1>4, <2>3, <3>1
  <2> HIDE DEF rows, rest
  <2>5. deep \in Nat /\ deep < r
    <3>1. /\ rows \div Banks \in Nat
          /\ \A c \in Nat : rows < c * Banks => rows \div Banks < c
      BY <1>1, <2>4, Division
    <3> QED
      BY <1>3, <2>4, <3>1
  <2> HIDE DEF deep
  <2>6. (deep + 1) * Cols <= r * Cols /\ (deep + 1) * Cols = deep * Cols + Cols
        /\ deep * Cols \in Nat
    BY <1>1, <1>3, <2>5
  <2> QED
    BY <1>1, <1>3, <1>4, <2>2, <2>4, <2>6 DEF r
<1>8. CASE style = "buffer"
  <2>1. w = 1
    BY <1>8 DEF Width
  <2> DEFINE bgs == idx \div Partitions
             deep == bgs \div Banks
  <2>2. Column(style, idx) = deep
    BY <1>8 DEF Column
  <2>3. bgs \in Nat /\ bgs <= idx
    <3>1. bgs \in Nat /\ bgs * Partitions <= idx
      BY <1>1, <1>5, DivBounds
    <3> HIDE DEF bgs
    <3>2. bgs * 1 <= bgs * Partitions
      BY <1>1, <3>1
    <3> QED
      BY <1>1, <1>5, <3>1, <3>2
  <2> HIDE DEF bgs
  <2>4. bgs < (r * Cols) * Banks
    <3>1. n * w = n
      BY <2>1
    <3> HIDE DEF w
    <3>2. r * (Cols * Banks) >= n
      BY <1>3, <3>1
    <3> QED
      BY <1>1, <1>4, <1>5, <2>3, <3>2
  <2>5. /\ deep \in Nat
        /\ \A c \in Nat : bgs < c * Banks => deep < c
    BY <1>1, <2>3, Division
  <2> QED
    BY <1>3, <1>4, <2>2, <2>4, <2>5 DEF r
<1> QED
  BY <1>6, <1>7, <1>8 DEF Styles

(* What a head's columns occupy when its rows end within their banks.      *)
EndsInBank(style, base, n) == base + RowsOf(style, n) * HBM_GS.row <= HBM_GS.ba
Cells(style, base, n) == UNION {Read(style, base + PlaceOf(style, idx)) : idx \in 0..(n - 1)}

LEMMA PlaceRead ==
    ASSUME NEW style \in Styles, NEW base \in Nat, NEW n \in Nat, EndsInBank(style, base, n),
           NEW idx \in 0..(n - 1), NEW cell \in Read(style, base + PlaceOf(style, idx))
    PROVE  /\ cell.ch = 0 /\ Chosen(style, cell) = Shift(style, idx)
           /\ Depth(cell) = base \div ColBytes + Column(style, idx)
<1> DEFINE u == Shift(style, idx)
           v == Column(style, idx)
           b == base \div ColBytes
           rest == base % ColBytes
           d == b + v
           addr == base + PlaceOf(style, idx)
           r == RowsOf(style, n)
<1>1. {Channels, Pchs, Ranks, Bgs, Banks, Rows, Cols, ColBytes} \subseteq Nat \ {0}
      /\ Partitions \in Nat \ {0}
  BY AddressAssumption DEF Partitions
<1>2. u \in 0..(BanksApart(style) - 1) /\ v \in Nat /\ r \in Nat /\ v < r * Cols
      /\ PlaceOf(style, idx) = (u * BankRow + v) * ColBytes
  BY ShiftTypes, PlaceParts, ColumnWithinRows
<1>3. b \in Nat /\ rest \in 0..(ColBytes - 1) /\ base = b * ColBytes + rest
  BY <1>1, Division
<1>4. /\ BankRow \in Nat \ {0} /\ HBM_GS.ba = BankRow * ColBytes
      /\ HBM_GS.row = Cols * ColBytes
  BY <1>1 DEF BankRow, HBM_GS
<1>5. BanksApart(style) \in Nat /\ BanksApart(style) <= Partitions * Banks
      /\ (style = "bg" => BanksApart(style) = Banks)
  <2>1. Partitions * Banks \in Nat /\ 1 <= Partitions * Banks /\ Banks <= Partitions * Banks
    BY <1>1
  <2> QED
    BY <1>1, <2>1 DEF BanksApart, Styles
<1>6. base + r * (Cols * ColBytes) <= BankRow * ColBytes
  BY <1>4 DEF EndsInBank
<1> HIDE DEF u, v, b, rest, r
<1>7. d \in 0..(BankRow - 1)
  <2> DEFINE x == r * Cols
  <2>1. x \in Nat /\ r * (Cols * ColBytes) = x * ColBytes
    BY <1>1, <1>2
  <2> HIDE DEF x
  <2>2. (b + x) * ColBytes = b * ColBytes + x * ColBytes /\ b * ColBytes \in Nat
    BY <1>1, <1>3, <2>1
  <2>3. (b + x) * ColBytes <= BankRow * ColBytes
    <3>1. x * ColBytes \in Nat /\ BankRow * ColBytes \in Nat
      BY <1>1, <1>4, <2>1
    <3> QED
      BY <1>1, <1>3, <1>6, <2>1, <2>2, <3>1
  <2>4. b + x <= BankRow
    <3> SUFFICES ASSUME BankRow + 1 <= b + x PROVE FALSE
      BY <1>3, <1>4, <2>1
    <3>1. /\ (BankRow + 1) * ColBytes <= (b + x) * ColBytes
          /\ (BankRow + 1) * ColBytes = BankRow * ColBytes + ColBytes
      BY <1>1, <1>3, <1>4, <2>1
    <3>2. BankRow * ColBytes \in Nat /\ (b + x) * ColBytes \in Nat
      BY <1>1, <1>3, <1>4, <2>1
    <3> QED
      BY <1>1, <2>3, <3>1, <3>2
  <2>5. v < x
    BY <1>2 DEF x
  <2> QED
    BY <1>2, <1>3, <1>4, <2>1, <2>4, <2>5
<1>8. u \in Nat /\ u < Partitions * Banks /\ (style = "bg" => u < Banks)
  <2>1. Partitions * Banks \in Nat
    BY <1>1
  <2> QED
    BY <1>1, <1>2, <1>5, <2>1
<1>9. addr \in Nat /\ addr \div ColBytes = u * BankRow + d
  <2> DEFINE x == u * BankRow
             q == x + d
  <2>1. x \in Nat
    BY <1>4, <1>8
  <2>2. addr = base + (x + v) * ColBytes
    BY <1>2
  <2> HIDE DEF x, addr
  <2>3. (x + d) * ColBytes = b * ColBytes + (x + v) * ColBytes
    BY <1>1, <1>2, <1>3, <2>1
  <2>4. addr = q * ColBytes + rest /\ q \in Nat
    <3>1. (x + v) * ColBytes \in Nat /\ b * ColBytes \in Nat
      BY <1>1, <1>2, <1>3, <2>1
    <3> QED
      BY <1>2, <1>3, <2>1, <2>2, <2>3, <3>1
  <2> HIDE DEF q
  <2>5. (q * ColBytes + rest) \div ColBytes = q
    BY <1>1, <1>3, <2>4, Quotient
  <2>6. q * ColBytes + rest \in Nat
    BY <1>1, <1>3, <2>4
  <2> QED
    BY <2>4, <2>5, <2>6 DEF q, x
<1> HIDE DEF d
<1> DEFINE at == Mapped(addr)
           choice == (at.rank * Bgs + at.bg) * Banks + at.ba
<1>10. Depth(at) = d /\ at.ch = 0 /\ choice = u /\ (style = "bg" => at.ba = u)
  <2> HIDE DEF addr
  <2> QED
    BY <1>7, <1>8, <1>9, MappedPlace
<1>11. /\ cell.ch = at.ch /\ cell.row = at.row /\ cell.col = at.col
       /\ style # "bank" => cell.ba = at.ba
       /\ style = "buffer" => cell.rank = at.rank /\ cell.bg = at.bg
  BY CellsOfMac DEF Styles
<1>12. Depth(cell) = d
  BY <1>10, <1>11 DEF Depth
<1>13. Chosen(style, cell) = u
  <2>1. CASE style = "bank"
    BY <1>1, <1>2, <2>1 DEF Chosen, Shift, u
  <2>2. CASE style = "bg"
    BY <1>10, <1>11, <2>2 DEF Chosen
  <2>3. CASE style = "buffer"
    BY <1>10, <1>11, <2>3 DEF Chosen
  <2> QED
    BY <2>1, <2>2, <2>3 DEF Styles
<1> QED
  BY <1>10, <1>11, <1>12, <1>13 DEF u, d, b, v

LEMMA CellsOfHead ==
    ASSUME NEW style \in Styles, NEW base \in Nat, NEW n \in Nat, EndsInBank(style, base, n)
    PROVE  /\ Cardinality(Cells(style, base, n)) = n * Broadcast(style)
           /\ \A cell \in Cells(style, base, n) :
                 /\ cell.ch = 0 /\ Depth(cell) \in Nat
                 /\ base \div ColBytes <= Depth(cell)
                 /\ Depth(cell) < base \div ColBytes + RowsOf(style, n) * Cols
<1> DEFINE F == [idx \in 0..(n - 1) |-> Read(style, base + PlaceOf(style, idx))]
           b == base \div ColBytes
<1>1. b \in Nat
  BY AddressAssumption, Parts
<1>2. ASSUME NEW idx \in 0..(n - 1), NEW cell \in F[idx]
      PROVE  /\ cell.ch = 0 /\ Chosen(style, cell) = Shift(style, idx)
             /\ Depth(cell) = b + Column(style, idx)
  BY <1>2, PlaceRead
<1>3. ASSUME NEW idx \in 0..(n - 1) PROVE IsFiniteSet(F[idx]) /\ Cardinality(F[idx]) = Broadcast(style)
  BY CellsOfMac DEF Styles
<1>4. ASSUME NEW idx \in 0..(n - 1), NEW idy \in 0..(n - 1), idx # idy
      PROVE  F[idx] \cap F[idy] = {}
  <2> SUFFICES ASSUME NEW cell \in F[idx] \cap F[idy] PROVE FALSE
    OBVIOUS
  <2>1. idx \in Nat /\ idy \in Nat
    OBVIOUS
  <2>2. Column(style, idx) \in Nat /\ Column(style, idy) \in Nat
    BY <2>1, ShiftTypes
  <2>3. /\ Shift(style, idx) = Shift(style, idy)
        /\ b + Column(style, idx) = b + Column(style, idy)
    BY <1>2
  <2> HIDE DEF b
  <2>4. Column(style, idx) = Column(style, idy)
    BY <1>1, <2>2, <2>3
  <2> QED
    BY <1>4, <2>1, <2>3, <2>4, PlacesDiffer
<1>5. Broadcast(style) \in Nat
  BY AddressAssumption DEF Broadcast, Partitions
<1>6. Cells(style, base, n) = UNION {F[idx] : idx \in 0..(n - 1)}
  BY DEF Cells
<1> HIDE DEF F
<1>7. Cardinality(Cells(style, base, n)) = n * Broadcast(style)
  <2> DEFINE c == Broadcast(style)
  <2>1. \A x \in 0..(n - 1) : IsFiniteSet(F[x]) /\ Cardinality(F[x]) = c
    BY <1>3
  <2>2. \A x, y \in 0..(n - 1) : x # y => F[x] \cap F[y] = {}
    BY <1>4
  <2>3. c \in Nat
    BY <1>5
  <2> HIDE DEF c
  <2>4. IsUnion(Cells(style, base, n), F, n)
    BY <1>6 DEF IsUnion
  <2> QED
    BY <2>1, <2>2, <2>3, <2>4, DisjointSets DEF c
<1>8. ASSUME NEW cell \in Cells(style, base, n)
      PROVE  /\ cell.ch = 0 /\ Depth(cell) \in Nat /\ b <= Depth(cell)
             /\ Depth(cell) < b + RowsOf(style, n) * Cols
  <2>1. PICK idx \in 0..(n - 1) : cell \in F[idx]
    BY <1>6
  <2>2. Depth(cell) = b + Column(style, idx) /\ cell.ch = 0
    BY <1>2, <2>1
  <2>3. Column(style, idx) \in Nat /\ RowsOf(style, n) \in Nat
        /\ Column(style, idx) < RowsOf(style, n) * Cols
    BY ShiftTypes, ColumnWithinRows
  <2> HIDE DEF b
  <2>4. RowsOf(style, n) * Cols \in Nat
    BY <2>3, AddressAssumption
  <2> QED
    BY <1>1, <2>2, <2>3, <2>4
<1> QED
  BY <1>7, <1>8

(***************************************************************************)
(* The columns of a matrix.                                                *)
(***************************************************************************)
LEMMA IndicesCover ==
    ASSUME NEW inner \in Nat \ {0}, NEW m \in Nat \ {0}
    PROVE  \A idx : (\E n \in 0..(m - 1) : idx \in Indices(n, inner)) <=> idx \in 0..(m * inner - 1)
<1> TAKE idx
<1>1. ASSUME NEW n \in 0..(m - 1), idx \in Indices(n, inner) PROVE idx \in 0..(m * inner - 1)
  <2>1. PICK k \in 0..inner - 1 : idx = k + n * inner
    BY <1>1 DEF Indices
  <2>2. (n + 1) * inner <= m * inner /\ (n + 1) * inner = n * inner + inner /\ n * inner \in Nat
    OBVIOUS
  <2>3. m * inner \in Nat
    OBVIOUS
  <2> QED
    BY <2>1, <2>2, <2>3
<1>2. ASSUME idx \in 0..(m * inner - 1) PROVE \E n \in 0..(m - 1) : idx \in Indices(n, inner)
  <2> DEFINE n == idx \div inner
             k == idx % inner
  <2>1. m * inner \in Nat
    OBVIOUS
  <2>2. idx \in Nat /\ idx < m * inner
    BY <1>2, <2>1
  <2>3. /\ n \in Nat /\ k \in 0..(inner - 1) /\ idx = n * inner + k
        /\ \A c \in Nat : idx < c * inner => n < c
    BY <2>2, Division
  <2>4. n < m
    BY <2>2, <2>3
  <2> HIDE DEF n, k
  <2>5. idx = k + n * inner /\ n \in 0..(m - 1) /\ k \in 0..inner - 1
    <3>1. n * inner \in Nat
      BY <2>3
    <3> QED
      BY <2>3, <2>4, <3>1
  <2> QED
    BY <2>5 DEF Indices
<1> QED
  BY <1>1, <1>2

LEMMA MatrixCells ==
    ASSUME p \in Params, NEW base
    PROVE  /\ Matrix("score-mac", base, Outputs - 1) = Cells(p.style, base, Outputs * Columns)
           /\ Matrix("context-mac", base, Columns - 1) = Cells(p.style, base, Outputs * Columns)
<1> DEFINE s == p.style
<1>1. s \in Styles /\ Outputs \in Nat \ {0} /\ Columns \in Nat \ {0}
  BY Sizes, TraceAssumption DEF Styles
<1>2. \A n : /\ Addresses(s, "score-mac", n, p.L, p.dhead)
                  = {PlaceOf(s, idx) : idx \in Indices(n, Columns)}
             /\ Addresses(s, "context-mac", n, p.L, p.dhead)
                  = {PlaceOf(s, idx) : idx \in Indices(n, Outputs)}
  <2> TAKE n
  <2>1. CASE s = "bank"
    <3>1. Columns = CeilDiv(p.dhead, Banks * Macs) /\ Outputs = CeilDiv(p.L, Pchs * Partitions)
      BY <2>1 DEF Columns, Outputs, Units
    <3>2. \A idx : PlaceOf(s, idx) = BankPlace(idx)
      BY <2>1 DEF PlaceOf
    <3>3. \A op : Addresses(s, op, n, p.L, p.dhead) = BankAddresses(op, n, p.L, p.dhead)
      BY <2>1 DEF Addresses
    <3>4. /\ BankAddresses("score-mac", n, p.L, p.dhead)
               = {BankPlace(idx) : idx \in Indices(n, Columns)}
          /\ BankAddresses("context-mac", n, p.L, p.dhead)
               = {BankPlace(idx) : idx \in Indices(n, Outputs)}
      BY <3>1 DEF BankAddresses
    <3> QED
      BY <3>2, <3>3, <3>4
  <2>2. CASE s = "bg"
    <3>1. Columns = CeilDiv(p.dhead, Macs) /\ Outputs = CeilDiv(p.L, Pchs * Partitions)
      BY <2>2 DEF Columns, Outputs, Units
    <3>2. \A idx : PlaceOf(s, idx) = BgPlace(idx)
      BY <2>2 DEF PlaceOf
    <3>3. \A op : Addresses(s, op, n, p.L, p.dhead) = BgAddresses(op, n, p.L, p.dhead)
      BY <2>2 DEF Addresses
    <3>4. /\ BgAddresses("score-mac", n, p.L, p.dhead)
               = {BgPlace(idx) : idx \in Indices(n, Columns)}
          /\ BgAddresses("context-mac", n, p.L, p.dhead)
               = {BgPlace(idx) : idx \in Indices(n, Outputs)}
      BY <3>1 DEF BgAddresses
    <3> QED
      BY <3>2, <3>3, <3>4
  <2>3. CASE s = "buffer"
    <3>1. Columns = CeilDiv(p.dhead, Macs) /\ Outputs = CeilDiv(p.L, Pchs)
      BY <2>3 DEF Columns, Outputs, Units
    <3>2. \A idx : PlaceOf(s, idx) = BufferPlace(idx)
      BY <2>3 DEF PlaceOf
    <3>3. \A op : Addresses(s, op, n, p.L, p.dhead) = BufferAddresses(op, n, p.L, p.dhead)
      BY <2>3 DEF Addresses
    <3>4. /\ BufferAddresses("score-mac", n, p.L, p.dhead)
               = {BufferPlace(idx) : idx \in Indices(n, Columns)}
          /\ BufferAddresses("context-mac", n, p.L, p.dhead)
               = {BufferPlace(idx) : idx \in Indices(n, Outputs)}
      BY <3>1 DEF BufferAddresses
    <3> QED
      BY <3>2, <3>3, <3>4
  <2> QED
    BY <1>1, <2>1, <2>2, <2>3 DEF Styles
<1>3. ASSUME NEW op, NEW inner \in Nat \ {0}, NEW m \in Nat \ {0}, m * inner = Outputs * Columns,
             \A n : Addresses(s, op, n, p.L, p.dhead) = {PlaceOf(s, idx) : idx \in Indices(n, inner)}
      PROVE  Matrix(op, base, m - 1) = Cells(s, base, Outputs * Columns)
  <2> DEFINE A == UNION {Addresses(s, op, n, p.L, p.dhead) : n \in 0..m - 1}
  <2>1. Matrix(op, base, m - 1) = UNION {Read(s, base + a) : a \in A}
    BY DEF Matrix
  <2>2. A = {PlaceOf(s, idx) : idx \in 0..(m * inner - 1)}
    <3>1. ASSUME NEW a \in A PROVE a \in {PlaceOf(s, idx) : idx \in 0..(m * inner - 1)}
      <4>1. PICK n \in 0..m - 1 : a \in {PlaceOf(s, idx) : idx \in Indices(n, inner)}
        BY <1>3, <3>1
      <4>2. PICK idx \in Indices(n, inner) : a = PlaceOf(s, idx)
        BY <4>1
      <4>3. idx \in 0..(m * inner - 1)
        BY IndicesCover
      <4> QED
        BY <4>2, <4>3
    <3>2. ASSUME NEW idx \in 0..(m * inner - 1) PROVE PlaceOf(s, idx) \in A
      <4>1. PICK n \in 0..(m - 1) : idx \in Indices(n, inner)
        BY IndicesCover
      <4>2. PlaceOf(s, idx) \in Addresses(s, op, n, p.L, p.dhead)
        BY <1>3, <4>1
      <4> QED
        BY <4>2
    <3> HIDE DEF A
    <3> QED
      BY <3>1, <3>2
  <2> HIDE DEF A
  <2>3. UNION {Read(s, base + a) : a \in A}
          = UNION {Read(s, base + PlaceOf(s, idx)) : idx \in 0..(m * inner - 1)}
    BY <2>2
  <2> QED
    BY <1>3, <2>1, <2>3 DEF Cells
<1> HIDE DEF s
<1>4. Columns * Outputs = Outputs * Columns
  BY <1>1
<1>5. Matrix("score-mac", base, Outputs - 1) = Cells(s, base, Outputs * Columns)
  BY <1>1, <1>2, <1>3
<1>6. Matrix("context-mac", base, Columns - 1) = Cells(s, base, Outputs * Columns)
  BY <1>1, <1>2, <1>3, <1>4
<1> QED
  BY <1>5, <1>6 DEF s

(***************************************************************************)
(* The commands that are no MACs.                                          *)
(***************************************************************************)
IsGrid(grid, a, c, step) ==
    grid = {x * step + col : x \in 0..a - 1, col \in 0..c - 1}
LEMMA GridOfPlaces ==
    ASSUME NEW a \in Nat \ {0}, NEW c \in Nat \ {0}, NEW step \in Nat \ {0}, c <= step,
           NEW grid, IsGrid(grid, a, c, step)
    PROVE  Cardinality(grid) = a * c
<1> DEFINE A == 0..a - 1
           C == 0..c - 1
           T == A \X C
           S == {x * step + col : x \in A, col \in C}
           g == [t \in T |-> t[1] * step + t[2]]
<1>1. IsFiniteSet(A) /\ Cardinality(A) = a /\ IsFiniteSet(C) /\ Cardinality(C) = c
  BY Intervals
<1>2. IsFiniteSet(T) /\ Cardinality(T) = a * c
  <2> HIDE DEF A, C
  <2>1. IsFiniteSet(A \X C) /\ Cardinality(A \X C) = Cardinality(A) * Cardinality(C)
    BY <1>1, FS_Product, Zenon
  <2> QED
    BY <1>1, <2>1
<1>3. g \in [T -> S] /\ \A y \in S : \E t \in T : g[t] = y
  <2>1. ASSUME NEW t \in T PROVE g[t] \in S
    <3>1. t[1] \in A /\ t[2] \in C /\ g[t] = t[1] * step + t[2]
      OBVIOUS
    <3> HIDE DEF A, C, T, g
    <3> QED
      BY <3>1
  <2>2. ASSUME NEW y \in S PROVE \E t \in T : g[t] = y
    <3>1. PICK x \in A, col \in C : y = x * step + col
      OBVIOUS
    <3>2. <<x, col>> \in T /\ g[<<x, col>>] = y
      BY <3>1
    <3> QED
      BY <3>2
  <2>3. g = [t \in T |-> g[t]]
    OBVIOUS
  <2> HIDE DEF T, S, g
  <2> QED
    BY <2>1, <2>2, <2>3
<1>4. \A s, t \in T : g[s] = g[t] => s = t
  <2> TAKE s, t \in T
  <2> HAVE g[s] = g[t]
  <2>1. /\ s = <<s[1], s[2]>> /\ t = <<t[1], t[2]>>
        /\ s[1] \in Nat /\ t[1] \in Nat
        /\ s[2] \in 0..(step - 1) /\ t[2] \in 0..(step - 1)
    OBVIOUS
  <2>2. s[1] * step + s[2] = t[1] * step + t[2]
    OBVIOUS
  <2> DEFINE q == s[1] r == s[2] u == t[1] v == t[2]
  <2>3. q \in Nat /\ u \in Nat /\ r \in 0..(step - 1) /\ v \in 0..(step - 1)
        /\ q * step + r = u * step + v
    BY <2>1, <2>2
  <2> HIDE DEF q, r, u, v
  <2>4. q = u /\ r = v
    BY <2>3, SameParts
  <2>5. s[1] = t[1] /\ s[2] = t[2]
    BY <2>4 DEF q, r, u, v
  <2> QED
    BY <2>1, <2>5
<1> HIDE DEF T, g, S
<1>5. IsFiniteSet(S) /\ Cardinality(S) = a * c
  BY <1>2, <1>3, <1>4, Listed
<1> QED
  BY <1>5 DEF S, IsGrid

LEMMA CommandsOfUnits ==
    ASSUME NEW c \in Nat \ {0}, c <= HBM_GS.bg
    PROVE  Cardinality(OfUnits(c)) = Partitions * c
<1> DEFINE step == HBM_GS.bg
           S == {x * step + col : x \in 0..Partitions - 1, col \in 0..c - 1}
<1>1. /\ {Ranks, Bgs, Banks, Rows, Cols, ColBytes} \subseteq Nat \ {0}
      /\ Partitions \in Nat \ {0} /\ Partitions = Ranks * Bgs
  BY AddressAssumption DEF Partitions
<1>2. step \in Nat \ {0} /\ HBM_GS.rank = Bgs * step
  <2>1. \A a, b \in Nat \ {0} : a * b \in Nat \ {0}
    OBVIOUS
  <2>2. Banks * (Rows * (Cols * ColBytes)) \in Nat \ {0}
    BY <1>1, <2>1
  <2> QED
    BY <2>2 DEF HBM_GS
<1> HIDE DEF step
<1>3. \A rank, bg, col \in Nat :
        rank * HBM_GS.rank + bg * step + col = (rank * Bgs + bg) * step + col
  <2> TAKE rank, bg, col \in Nat
  <2>1. rank * (Bgs * step) = (rank * Bgs) * step
    BY <1>1, <1>2
  <2> DEFINE x == rank * Bgs
  <2>2. x \in Nat
    BY <1>1
  <2> HIDE DEF x
  <2>3. (x + bg) * step = x * step + bg * step
    BY <1>2, <2>2
  <2> QED
    BY <1>2, <2>1, <2>3 DEF x
<1>4. ASSUME NEW a \in OfUnits(c) PROVE a \in S
  <2>1. PICK rank \in 0..Ranks - 1, bg \in 0..Bgs - 1, col \in 0..c - 1 :
           a = rank * HBM_GS.rank + bg * step + col
    BY DEF OfUnits, step
  <2>2. a = (rank * Bgs + bg) * step + col
    BY <1>3, <2>1
  <2>3. rank * Bgs + bg \in 0..Partitions - 1
    <3>1. (rank + 1) * Bgs <= Ranks * Bgs /\ (rank + 1) * Bgs = rank * Bgs + Bgs
          /\ rank * Bgs \in Nat
      BY <1>1
    <3> QED
      BY <1>1, <3>1
  <2> QED
    BY <2>2, <2>3
<1>5. ASSUME NEW a \in S PROVE a \in OfUnits(c)
  <2>1. PICK x \in 0..Partitions - 1, col \in 0..c - 1 : a = x * step + col
    OBVIOUS
  <2> DEFINE rank == x \div Bgs
             bg == x % Bgs
  <2>2. /\ rank \in Nat /\ bg \in 0..(Bgs - 1) /\ x = rank * Bgs + bg
        /\ \A y \in Nat : x < y * Bgs => rank < y
    <3>1. x \in Nat /\ Bgs \in Nat \ {0}
      BY <1>1, <2>1
    <3> HIDE DEF S, rank, bg
    <3>2. /\ x \div Bgs \in Nat /\ x % Bgs \in 0..(Bgs - 1)
          /\ x = (x \div Bgs) * Bgs + (x % Bgs)
          /\ \A y \in Nat : x < y * Bgs => x \div Bgs < y
      BY <3>1, Division
    <3> QED
      BY <3>2 DEF rank, bg
  <2>3. rank \in 0..Ranks - 1
    <3> HIDE DEF rank
    <3>1. x < Ranks * Bgs
      BY <1>1, <2>1
    <3>2. rank < Ranks
      BY <1>1, <2>2, <3>1
    <3> QED
      BY <1>1, <2>2, <3>2
  <2> HIDE DEF rank, bg
  <2>4. a = rank * HBM_GS.rank + bg * step + col
    <3>1. rank \in Nat /\ bg \in Nat /\ col \in Nat
      BY <1>1, <2>2
    <3>2. rank * HBM_GS.rank + bg * step + col = (rank * Bgs + bg) * step + col
      BY <1>3, <3>1
    <3> QED
      BY <2>1, <2>2, <3>2
  <2>5. bg \in 0..Bgs - 1
    BY <2>2
  <2> QED
    BY <2>1, <2>3, <2>4, <2>5 DEF OfUnits, step
<1>6. OfUnits(c) = S
  BY <1>4, <1>5
<1>7. Cardinality(S) = Partitions * c
  <2>1. IsGrid(S, Partitions, c, step)
    BY DEF IsGrid
  <2>2. c <= step
    BY DEF step
  <2> HIDE DEF S
  <2> QED
    BY <1>1, <1>2, <2>1, <2>2, GridOfPlaces
<1> QED
  BY <1>6, <1>7

(* A head that ends before another begins does so in columns as well.      *)
LEMMA ColumnsApart ==
    ASSUME NEW a \in Nat, NEW b \in Nat, NEW r \in Nat, a + r * HBM_GS.row <= b
    PROVE  a \div ColBytes + r * Cols <= b \div ColBytes
<1> DEFINE x == r * Cols
           q == a \div ColBytes
           s == b \div ColBytes
<1>1. {Cols, ColBytes} \subseteq Nat \ {0}
  BY AddressAssumption
<1>2. x \in Nat /\ r * HBM_GS.row = x * ColBytes
  BY <1>1 DEF HBM_GS
<1>3. q \in Nat /\ q * ColBytes <= a /\ s \in Nat /\ b < (s + 1) * ColBytes
  BY <1>1, DivBounds
<1> HIDE DEF x, q, s
<1>4. q + x <= s
  <2> SUFFICES ASSUME s + 1 <= q + x PROVE FALSE
    BY <1>2, <1>3
  <2>1. (s + 1) * ColBytes <= (q + x) * ColBytes
    BY <1>1, <1>2, <1>3
  <2>2. (q + x) * ColBytes = q * ColBytes + x * ColBytes
    BY <1>1, <1>2, <1>3
  <2>3. q * ColBytes \in Nat /\ x * ColBytes \in Nat /\ (s + 1) * ColBytes \in Nat
    BY <1>1, <1>2, <1>3
  <2> QED
    BY <1>2, <1>3, <2>1, <2>2, <2>3
<1> QED
  BY <1>4 DEF x, q, s

LEMMA HeadsApart ==
    ASSUME NEW style \in Styles, NEW n \in Nat, NEW a \in Nat, NEW b \in Nat,
           EndsInBank(style, a, n), EndsInBank(style, b, n),
           a + RowsOf(style, n) * HBM_GS.row <= b
    PROVE  Cells(style, a, n) \cap Cells(style, b, n) = {}
<1> SUFFICES ASSUME NEW cell \in Cells(style, a, n) \cap Cells(style, b, n) PROVE FALSE
  OBVIOUS
<1> DEFINE x == a \div ColBytes + RowsOf(style, n) * Cols
           y == b \div ColBytes
<1>1. RowsOf(style, n) \in Nat
  <2>1. n * Width(style) \in Nat /\ Cols * Banks \in Nat \ {0}
    BY AddressAssumption DEF Width
  <2> QED
    BY <2>1, CeilDivBounds DEF RowsOf
<1>2. x <= y
  BY <1>1, ColumnsApart
<1>3. x \in Nat /\ y \in Nat
  <2>1. a \div ColBytes \in Nat /\ b \div ColBytes \in Nat
    BY AddressAssumption, Parts
  <2>2. RowsOf(style, n) * Cols \in Nat
    BY <1>1, AddressAssumption
  <2> QED
    BY <2>1, <2>2
<1>4. Depth(cell) \in Nat /\ Depth(cell) < x /\ y <= Depth(cell)
  BY CellsOfHead
<1> HIDE DEF x, y
<1> QED
  BY <1>2, <1>3, <1>4

(* As many vector writes and moves as they have addresses.                 *)
LEMMA CommandsOfHead ==
    ASSUME p \in Params, EndsInBank(p.style, 0, Outputs * Columns), NEW h \in Nat
    PROVE  /\ Words(h) = Cardinality(Addresses(p.style, "score-wrgb", 0, p.L, p.dhead))
                             * ValidChannels(h)
           /\ Moves(h) = Cardinality(Addresses(p.style, "context-mvgb", 0, p.L, p.dhead))
                             * ValidChannels(h)
<1> DEFINE s == p.style
           n == Outputs * Columns
           r == RowsOf(s, n)
           c == CeilDiv(p.L, Units * Macs)
<1>1. /\ {Ranks, Bgs, Banks, Pchs, Rows, Cols, ColBytes, Macs} \subseteq Nat \ {0}
      /\ Partitions \in Nat \ {0} /\ s \in Styles /\ p.L \in Nat \ {0}
  BY AddressAssumption, TraceAssumption DEF Partitions, Styles
<1>2. Outputs \in Nat \ {0} /\ Columns \in Nat \ {0}
  BY Sizes
<1>3. n \in Nat \ {0} /\ Columns <= n /\ Outputs <= n
  BY <1>2
<1>4. Units \in Nat \ {0}
  BY <1>1 DEF Units
<1>5. c \in Nat \ {0} /\ c <= Outputs
  <2>1. Units * Macs \in Nat \ {0}
    BY <1>1, <1>4
  <2>2. c \in Nat \ {0}
    BY <1>1, <2>1, CeilDivBounds
  <2>3. (c - 1) * Macs < Outputs
    BY <1>1, <1>4, CeilDivTwice DEF Outputs
  <2> HIDE DEF c
  <2>4. (c - 1) * 1 <= (c - 1) * Macs /\ (c - 1) * Macs \in Int
    BY <1>1, <2>2
  <2> QED
    BY <1>2, <2>2, <2>3, <2>4
<1>6. /\ HBM_GS.row = Cols * ColBytes /\ HBM_GS.ba \in Nat \ {0}
      /\ HBM_GS.bg = Banks * HBM_GS.ba
  <2>1. \A a, b \in Nat \ {0} : a * b \in Nat \ {0}
    OBVIOUS
  <2>2. Rows * (Cols * ColBytes) \in Nat \ {0}
    BY <1>1, <2>1
  <2> QED
    BY <2>2 DEF HBM_GS
<1>7. r \in Nat /\ r * (Cols * Banks) >= n * Width(s)
  <2>1. n * Width(s) \in Nat /\ Cols * Banks \in Nat \ {0}
    BY <1>1, <1>3 DEF Width
  <2> QED
    BY <2>1, CeilDivBounds DEF RowsOf
<1>8. r * HBM_GS.row <= HBM_GS.ba
  <2>1. r * HBM_GS.row \in Nat
    BY <1>1, <1>6, <1>7
  <2> QED
    BY <2>1, <1>6 DEF EndsInBank
<1> HIDE DEF HBM_GS, r
<1>9. r * Cols \in Nat /\ r * Cols <= HBM_GS.ba
  <2> DEFINE x == r * Cols
  <2>1. x \in Nat /\ r * (Cols * ColBytes) = x * ColBytes
    BY <1>1, <1>7
  <2> HIDE DEF x
  <2>2. x * 1 <= x * ColBytes /\ x * ColBytes \in Nat
    BY <1>1, <2>1
  <2> QED
    BY <1>6, <1>8, <2>1, <2>2 DEF x
<1>10. n * Width(s) <= Banks * HBM_GS.ba
  <2> DEFINE x == r * Cols
  <2>1. x * Banks <= HBM_GS.ba * Banks /\ r * (Cols * Banks) = x * Banks
    <3>1. r * (Cols * Banks) = (r * Cols) * Banks
      BY <1>1, <1>7
    <3>2. x \in Nat /\ x <= HBM_GS.ba
      BY <1>9
    <3> HIDE DEF x
    <3>3. x * Banks <= HBM_GS.ba * Banks
      BY <1>1, <1>6, <3>2
    <3> QED
      BY <3>1, <3>3 DEF x
  <2>2. n * Width(s) \in Nat /\ x * Banks \in Nat /\ HBM_GS.ba * Banks = Banks * HBM_GS.ba
    BY <1>1, <1>3, <1>6, <1>9 DEF Width
  <2> QED
    BY <1>1, <1>6, <1>7, <2>1, <2>2
<1>11. n <= HBM_GS.bg
  <2>1. n * 1 <= n * Width(s)
    BY <1>1, <1>3 DEF Width
  <2>2. n * Width(s) \in Nat /\ Banks * HBM_GS.ba \in Nat
    BY <1>1, <1>3, <1>6 DEF Width
  <2> HIDE DEF n
  <2> QED
    BY <1>3, <1>6, <1>10, <2>1, <2>2
<1>12. ASSUME s = "bank" PROVE Columns <= HBM_GS.ba
  <2>1. n * Banks <= HBM_GS.ba * Banks
    <3>1. Width(s) = Banks /\ Banks * HBM_GS.ba = HBM_GS.ba * Banks
      BY <1>1, <1>6, <1>12 DEF Width
    <3> HIDE DEF n
    <3> QED
      BY <1>10, <3>1
  <2> HIDE DEF n
  <2>2. n <= HBM_GS.ba
    <3> SUFFICES ASSUME HBM_GS.ba + 1 <= n PROVE FALSE
      BY <1>3, <1>6
    <3>1. (HBM_GS.ba + 1) * Banks <= n * Banks
          /\ (HBM_GS.ba + 1) * Banks = HBM_GS.ba * Banks + Banks
      BY <1>1, <1>3, <1>6
    <3>2. HBM_GS.ba * Banks \in Nat /\ n * Banks \in Nat
      BY <1>1, <1>3, <1>6
    <3> QED
      BY <1>1, <2>1, <3>1, <3>2
  <2> QED
    BY <1>2, <1>3, <1>6, <2>2
<1> HIDE DEF n, c
<1>13. Cardinality(Addresses(s, "score-wrgb", 0, p.L, p.dhead))
         = (IF s = "bank" THEN Banks ELSE 1) * Columns
  <2>1. CASE s = "bank"
    <3> DEFINE A == {ba * HBM_GS.ba + col : ba \in 0..Banks - 1, col \in 0..Columns - 1}
    <3>1. Addresses(s, "score-wrgb", 0, p.L, p.dhead) = A
      <4>1. Columns = CeilDiv(p.dhead, Banks * Macs)
        BY <2>1 DEF Columns
      <4> QED
        BY <2>1, <4>1 DEF Addresses, BankAddresses
    <3>2. IsGrid(A, Banks, Columns, HBM_GS.ba)
      BY DEF IsGrid
    <3> HIDE DEF A
    <3>3. Cardinality(A) = Banks * Columns
      BY <1>1, <1>2, <1>6, <1>12, <2>1, <3>2, GridOfPlaces
    <3> QED
      BY <2>1, <3>1, <3>3
  <2>2. CASE s # "bank"
    <3>1. Columns = CeilDiv(p.dhead, Macs)
      BY <2>2 DEF Columns
    <3>2. Addresses(s, "score-wrgb", 0, p.L, p.dhead) = 0..Columns - 1
      <4>1. CASE s = "bg"
        BY <3>1, <4>1 DEF Addresses, BgAddresses
      <4>2. CASE s = "buffer"
        BY <3>1, <4>2 DEF Addresses, BufferAddresses
      <4> QED
        BY <1>1, <2>2, <4>1, <4>2 DEF Styles
    <3> QED
      BY <1>2, <2>2, <3>2, Intervals
  <2> QED
    BY <2>1, <2>2
<1>14. Cardinality(Addresses(s, "context-mvgb", 0, p.L, p.dhead))
         = (IF s = "buffer" THEN 1 ELSE Partitions) * c
  <2>1. CASE s = "buffer"
    <3>1. c = CeilDiv(p.L, Pchs * Macs)
      BY <2>1 DEF c, Units
    <3>2. Addresses(s, "context-mvgb", 0, p.L, p.dhead) = 0..c - 1
      BY <2>1, <3>1 DEF Addresses, BufferAddresses
    <3> QED
      BY <1>5, <2>1, <3>2, Intervals
  <2>2. CASE s # "buffer"
    <3>1. c = CeilDiv(p.L, (Pchs * Partitions) * Macs)
      BY <2>2 DEF c, Units
    <3>2. Addresses(s, "context-mvgb", 0, p.L, p.dhead) = OfUnits(c)
      <4>1. CASE s = "bank"
        BY <3>1, <4>1 DEF Addresses, BankAddresses
      <4>2. CASE s = "bg"
        BY <3>1, <4>2 DEF Addresses, BgAddresses
      <4> QED
        BY <1>1, <2>2, <4>1, <4>2 DEF Styles
    <3>3. c <= HBM_GS.bg
      <4>1. HBM_GS.bg \in Nat
        BY <1>1, <1>6
      <4> QED
        BY <1>2, <1>3, <1>5, <1>11, <4>1
    <3> QED
      BY <1>5, <2>2, <3>2, <3>3, CommandsOfUnits
  <2> QED
    BY <2>1, <2>2
<1>15. Words(h) = ((IF s = "bank" THEN Banks ELSE 1) * Columns) * ValidChannels(h)
  BY DEF Words
<1>16. Moves(h) = ((IF s = "buffer" THEN 1 ELSE Partitions) * c) * ValidChannels(h)
  BY DEF Moves, c
<1> QED
  BY <1>13, <1>14, <1>15, <1>16

(* A head has room for all the elements of its matrix.                     *)
LEMMA RoomForAll ==
    ASSUME p \in Params
    PROVE  Outputs * Columns * Units * Width(p.style) * Macs >= p.L * p.dhead
<1> DEFINE w == Width(p.style)
           wide == Columns * (w * Macs)
           units == Outputs * Units
<1>1. /\ {Pchs, Banks, Macs} \subseteq Nat \ {0} /\ Partitions \in Nat \ {0}
      /\ p.L \in Nat \ {0} /\ p.dhead \in Nat \ {0}
  BY AddressAssumption, TraceAssumption DEF Partitions
<1>2. Outputs \in Nat \ {0} /\ Columns \in Nat \ {0} /\ Units \in Nat \ {0} /\ w \in Nat \ {0}
  BY <1>1, Sizes DEF Units, Width
<1>3. units \in Nat /\ units >= p.L
  BY <1>1, <1>2, CeilDivBounds DEF Outputs
<1>4. wide \in Nat /\ wide >= p.dhead
  <2>1. w * Macs \in Nat \ {0}
    BY <1>1, <1>2
  <2>2. Columns = CeilDiv(p.dhead, w * Macs)
    BY <1>1 DEF Columns, Width
  <2> DEFINE x == w * Macs
  <2> HIDE DEF x
  <2>3. x \in Nat \ {0} /\ Columns = CeilDiv(p.dhead, x)
    BY <2>1, <2>2 DEF x
  <2>4. CeilDiv(p.dhead, x) * x >= p.dhead
    BY <1>1, <2>3, CeilDivBounds
  <2>5. Columns * x \in Nat /\ Columns * x >= p.dhead
    BY <1>2, <2>3, <2>4
  <2> QED
    BY <2>5 DEF x
<1>5. Outputs * Columns * Units * w * Macs = units * wide
  <2> HIDE DEF w
  <2> QED
    BY <1>1, <1>2
<1> HIDE DEF units, wide
<1>6. p.L * p.dhead <= units * p.dhead /\ units * p.dhead <= units * wide
  BY <1>1, <1>3, <1>4
<1>7. p.L * p.dhead \in Nat /\ units * p.dhead \in Nat /\ units * wide \in Nat
  BY <1>1, <1>3, <1>4
<1> QED
  BY <1>5, <1>6, <1>7 DEF w

(* Heads follow each other, keys before values. *)
LEMMA HeadAddresses ==
    ASSUME p \in Params
    PROVE  /\ PartitionSize(p.dhead) \in Nat
           /\ \A h \in Nat : KeyAddr(p.dhead, h) \in Nat /\ ValAddr(p.dhead, h) \in Nat
           /\ \A g, h \in Nat : g <= h => KeyAddr(p.dhead, g) <= KeyAddr(p.dhead, h)
           /\ \A g, h \in Nat : g < h =>
                 KeyAddr(p.dhead, g) + PartitionSize(p.dhead) <= KeyAddr(p.dhead, h)
           /\ ValOffset \in Nat
<1> DEFINE z == PartitionSize(p.dhead)
<1>1. z \in Nat
  <2>1. /\ {Pchs, Ranks, Bgs, Banks, MaxLen} \subseteq Nat \ {0} /\ p.dhead \in Nat \ {0}
    BY AddressAssumption, TraceAssumption
  <2>2. \A a, b \in Nat \ {0} : a * b \in Nat \ {0}
    OBVIOUS
  <2>3. MaxLen * p.dhead \in Nat /\ Pchs * Partitions * Banks \in Nat \ {0}
    BY <2>1, <2>2 DEF Partitions
  <2> QED
    BY <2>3, CeilDivBounds DEF PartitionSize
<1>2. ValOffset \in Nat
  BY AddressAssumption
<1>3. \A h \in Nat : KeyAddr(p.dhead, h) = h * z
  BY DEF KeyAddr
<1> HIDE DEF z
<1>4. \A h \in Nat : h * z \in Nat
  BY <1>1
<1>5. ASSUME NEW g \in Nat, NEW h \in Nat, g < h PROVE g * z + z <= h * z
  <2>1. (g + 1) * z <= h * z /\ (g + 1) * z = g * z + z
    BY <1>1, <1>5
  <2> QED
    BY <2>1
<1>6. ASSUME NEW g \in Nat, NEW h \in Nat, g <= h PROVE g * z <= h * z
  <2>1. CASE g = h
    BY <1>4, <2>1
  <2>2. CASE g # h
    BY <1>1, <1>4, <1>5, <1>6, <2>2
  <2> QED
    BY <2>1, <2>2
<1>7. \A h \in Nat : KeyAddr(p.dhead, h) \in Nat /\ ValAddr(p.dhead, h) \in Nat
  BY <1>2, <1>3, <1>4 DEF ValAddr
<1> QED
  BY <1>1, <1>2, <1>3, <1>5, <1>6, <1>7 DEF z

LEMMA HeadsEnd ==
    ASSUME p \in Params, HeadsFit, NEW h \in 0..NumItr - 1
    PROVE  LET n == Outputs * Columns
               rows == RowsOf(p.style, n) * HBM_GS.row
           IN  /\ EndsInBank(p.style, KeyAddr(p.dhead, h), n)
               /\ EndsInBank(p.style, ValAddr(p.dhead, h), n)
               /\ EndsInBank(p.style, 0, n)
               /\ \A g \in 0..NumItr - 1 :
                     KeyAddr(p.dhead, g) + rows <= ValAddr(p.dhead, h)
<1> DEFINE n == Outputs * Columns
           rows == RowsOf(p.style, n) * HBM_GS.row
           last == NumItr - 1
           Key(x) == KeyAddr(p.dhead, x)
           Val(x) == ValAddr(p.dhead, x)
<1>1. rows \in Nat /\ HBM_GS.ba \in Nat /\ ValOffset \in Nat
  <2>1. {Banks, Rows, Cols, ColBytes} \subseteq Nat \ {0}
    BY AddressAssumption
  <2>2. HBM_GS.row \in Nat /\ HBM_GS.ba \in Nat
    BY <2>1 DEF HBM_GS
  <2>3. n * Width(p.style) \in Nat /\ Cols * Banks \in Nat \ {0}
    BY <2>1, Sizes DEF Width
  <2>4. RowsOf(p.style, n) \in Nat
    BY <2>3, CeilDivBounds DEF RowsOf
  <2> QED
    BY <2>2, <2>4, AddressAssumption
<1>2. Key(last) + rows <= ValOffset /\ Val(last) + rows <= HBM_GS.ba
  BY DEF HeadsFit, RowsOf, Width
<1>3. NumItr \in Nat \ {0} /\ last \in Nat /\ h \in Nat
  BY Sizes
<1>4. \A x \in 0..NumItr - 1 : /\ Key(x) \in Nat /\ Key(x) <= Key(last)
                               /\ Val(x) = Key(x) + ValOffset
  <2>1. \A x \in 0..NumItr - 1 : x \in Nat /\ x <= last
    BY <1>3
  <2> QED
    BY <1>3, <2>1, HeadAddresses DEF ValAddr
<1> HIDE DEF rows, Key, Val
<1>5. last \in 0..NumItr - 1
  BY <1>3
<1>6. \A x \in 0..NumItr - 1 : Key(x) + rows <= ValOffset /\ Val(x) + rows <= HBM_GS.ba
  BY <1>1, <1>2, <1>4, <1>5
<1>7. /\ Key(h) + rows <= HBM_GS.ba /\ Val(h) + rows <= HBM_GS.ba /\ 0 + rows <= HBM_GS.ba
      /\ \A g \in 0..NumItr - 1 : Key(g) + rows <= Val(h)
  <2>1. Key(h) \in Nat /\ Val(h) = Key(h) + ValOffset
    BY <1>4
  <2> QED
    BY <1>1, <1>4, <1>6, <2>1
<1> QED
  BY <1>7 DEF EndsInBank, rows, Key, Val

LEMMA PlacesFit == p \in Params /\ HeadsFit => PlacesOfTheirOwn
<1> SUFFICES ASSUME p \in Params, HeadsFit PROVE PlacesOfTheirOwn
  OBVIOUS
<1> DEFINE s == p.style
           n == Outputs * Columns
           width == IF s = "bank" THEN Banks ELSE 1
           Keys(h) == Matrix("score-mac", KeyAddr(p.dhead, h), Outputs - 1)
           Values(h) == Matrix("context-mac", ValAddr(p.dhead, h), Columns - 1)
           rows == CeilDiv(Outputs * Columns * width, Cols * Banks) * HBM_GS.row
           all == Outputs * Columns * Units * width
           Key(h) == KeyAddr(p.dhead, h)
           Val(h) == ValAddr(p.dhead, h)
<1>1. s \in Styles /\ n \in Nat /\ width = Width(s) /\ rows = RowsOf(s, n) * HBM_GS.row
  BY Sizes, TraceAssumption DEF Styles, Width, RowsOf
<1>2. all * Macs >= p.L * p.dhead
  BY RoomForAll DEF Width
<1>3. n * Broadcast(s) = all
  <2>1. Broadcast(s) = Units * width
    BY DEF Broadcast, Units
  <2>2. Outputs \in Nat /\ Columns \in Nat /\ Units \in Nat /\ width \in Nat
    BY Sizes, AddressAssumption DEF Units, Partitions
  <2> HIDE DEF width, s
  <2> QED
    BY <2>1, <2>2
<1>4. ASSUME NEW h \in 0..NumItr - 1
      PROVE  /\ Key(h) \in Nat /\ Val(h) \in Nat
             /\ EndsInBank(s, Key(h), n) /\ EndsInBank(s, Val(h), n)
             /\ \A g \in 0..NumItr - 1 : Key(g) + rows <= Val(h)
  <2>1. h \in Nat
    OBVIOUS
  <2>2. Key(h) \in Nat /\ Val(h) \in Nat
    BY <2>1, HeadAddresses
  <2> QED
    BY <1>1, <2>2, HeadsEnd
<1>5. \A h : Keys(h) = Cells(s, Key(h), n) /\ Values(h) = Cells(s, Val(h), n)
  BY MatrixCells
<1>6. ASSUME NEW g \in 0..NumItr - 1, NEW h \in 0..NumItr - 1, g < h,
             rows <= PartitionSize(p.dhead)
      PROVE  Key(g) + rows <= Key(h) /\ Val(g) + rows <= Val(h)
  <2>1. g \in Nat /\ h \in Nat
    OBVIOUS
  <2>2. /\ Key(g) \in Nat /\ Key(h) \in Nat /\ PartitionSize(p.dhead) \in Nat
        /\ Key(g) + PartitionSize(p.dhead) <= Key(h)
        /\ Val(g) = Key(g) + ValOffset /\ Val(h) = Key(h) + ValOffset /\ ValOffset \in Nat
    BY <1>6, <2>1, HeadAddresses DEF ValAddr
  <2>3. rows \in Nat
    <3>1. n * Width(s) \in Nat /\ Cols * Banks \in Nat \ {0} /\ HBM_GS.row \in Nat
      BY <1>1, AddressAssumption DEF Width, HBM_GS
    <3>2. RowsOf(s, n) \in Nat
      BY <3>1, CeilDivBounds DEF RowsOf
    <3> QED
      BY <1>1, <3>1, <3>2
  <2> HIDE DEF rows, Key, Val
  <2> QED
    BY <1>6, <2>2, <2>3
<1> HIDE DEF rows, Key, Val, Keys, Values, n, s, all
<1>7. ASSUME NEW h \in 0..NumItr - 1
      PROVE  /\ Cardinality(Keys(h)) = all /\ Cardinality(Values(h)) = all
             /\ \A cell \in Keys(h) \cup Values(h) : cell.ch = 0
  BY <1>1, <1>3, <1>4, <1>5, CellsOfHead
<1>8. ASSUME NEW h \in 0..NumItr - 1, NEW g \in 0..NumItr - 1
      PROVE  Keys(g) \cap Values(h) = {}
  <2>1. /\ Key(g) \in Nat /\ Val(h) \in Nat
        /\ EndsInBank(s, Key(g), n) /\ EndsInBank(s, Val(h), n)
        /\ Key(g) + RowsOf(s, n) * HBM_GS.row <= Val(h)
    BY <1>1, <1>4
  <2>2. Cells(s, Key(g), n) \cap Cells(s, Val(h), n) = {}
    BY <1>1, <2>1, HeadsApart
  <2> QED
    BY <1>5, <2>2
<1>9. ASSUME NEW h \in 0..NumItr - 1, rows <= PartitionSize(p.dhead), NEW g \in 0..h - 1
      PROVE  Keys(g) \cap Keys(h) = {} /\ Values(g) \cap Values(h) = {}
  <2>1. g \in 0..NumItr - 1 /\ g < h
    BY Sizes
  <2>2. /\ Key(g) \in Nat /\ Val(g) \in Nat /\ Key(h) \in Nat /\ Val(h) \in Nat
        /\ EndsInBank(s, Key(g), n) /\ EndsInBank(s, Val(g), n)
        /\ EndsInBank(s, Key(h), n) /\ EndsInBank(s, Val(h), n)
        /\ Key(g) + RowsOf(s, n) * HBM_GS.row <= Key(h)
        /\ Val(g) + RowsOf(s, n) * HBM_GS.row <= Val(h)
    BY <1>1, <1>4, <1>6, <1>9, <2>1
  <2>3. Cells(s, Key(g), n) \cap Cells(s, Key(h), n) = {}
    BY <1>1, <2>2, HeadsApart
  <2>4. Cells(s, Val(g), n) \cap Cells(s, Val(h), n) = {}
    BY <1>1, <2>2, HeadsApart
  <2> QED
    BY <1>5, <2>3, <2>4
<1>10. ASSUME NEW h \in 0..NumItr - 1
       PROVE  /\ Words(h) = Cardinality(Addresses(p.style, "score-wrgb", 0, p.L, p.dhead))
                                * ValidChannels(h)
              /\ Moves(h) = Cardinality(Addresses(p.style, "context-mvgb", 0, p.L, p.dhead))
                                * ValidChannels(h)
  <2>1. EndsInBank(p.style, 0, Outputs * Columns) /\ h \in Nat
    BY HeadsEnd
  <2> QED
    BY <2>1, CommandsOfHead
<1> QED
  BY <1>2, <1>7, <1>8, <1>9, <1>10 DEF PlacesOfTheirOwn, Keys, Values, rows, all, s

(***************************************************************************)
(* Attention() gives every command a place of its own.  As long as its     *)
(* loops over idx run over addresses in which the keys of all heads end    *)
(* before v_offset and the values within their bank, HBM3PIMMap and the    *)
(* broadcasts make of a head's MACs a reading of every column of its keys  *)
(* and of its values once, in its channel, keys and values apart, heads    *)
(* apart where they fit into partition_size; vector writes and moves are   *)
(* as many as they have addresses.                                         *)
(***************************************************************************)
THEOREM Places == Spec => [](HeadsFit => PlacesOfTheirOwn)
<1>1. IInv => (HeadsFit => PlacesOfTheirOwn)
  <2>1. IInv => p \in Params
    BY DEF IInv, Where
  <2> QED
    BY <2>1, PlacesFit
<1> QED
  BY <1>1, Invariant, PTL
=============================================================================
