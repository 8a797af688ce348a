---------------------------- MODULE AttaccTrace ----------------------------
(***************************************************************************)
(* The trace generators gen_trace_attacc_{bank,bg,buffer}.py: they first   *)
(* list the commands of every iteration (a head per channel), then write   *)
(* the lists out, two iterations overlapped, with barriers in between.     *)
(*                                                                         *)
(* Commands written together are one block: the MACs of one output group,  *)
(* the moves after them, the softmax of an iteration, a barrier in every   *)
(* channel.  Commands of the two input vectors (WR_GB, MV_GB) are written  *)
(* in slices of a computed size and are kept apart.  The addresses of a    *)
(* block are in module TraceAddresses: the generators never read them back.*)
(***************************************************************************)
EXTENDS TraceAddresses, Sequences, SequencesExt

CONSTANTS
    Group,       \* outputs between two moves to the softmax buffer (16)
    Params       \* [style, L, dhead, heads] of the runs

ASSUME TraceAssumption ==
    /\ Group \in Nat \ {0}
    /\ Params \subseteq [style : {"bank", "bg", "buffer"}, L : Nat \ {0},
                         dhead : Nat \ {0}, heads : Nat \ {0}]

VARIABLES
    p,          \* the arguments of this run
    i,          \* the first of the two iterations being written
    section,    \* the part of the pipeline being written
    j,          \* its beat
    total_cmd   \* what has been written so far

vars == <<p, i, section, j, total_cmd>>

----------------------------------------------------------------------------
(* Sizes. *)

NumItr == CeilDiv(p.heads, Channels)
Units == IF p.style = "buffer" THEN Pchs ELSE Pchs * Partitions
Outputs == CeilDiv(p.L, Units)
Columns == IF p.style = "bank" THEN CeilDiv(p.dhead, Banks * Macs)
                               ELSE CeilDiv(p.dhead, Macs)
(* Mutant of Rounds: the last, partial group of outputs is forgotten. *)
RoundsRoundedDown == p.L \div (Units * Group)

Rounds == CeilDiv(p.L, Units * Group)

(* Iterations but the last fill every channel. *)
ValidChannels(h) ==
    IF p.heads < (h + 1) * Channels THEN p.heads % Channels ELSE Channels

Words(h) ==
    (IF p.style = "bank" THEN Banks ELSE 1) * Columns * ValidChannels(h)
Moves(h) ==
    (IF p.style = "buffer" THEN 1 ELSE Partitions)
        * CeilDiv(p.L, Units * Macs) * ValidChannels(h)

(* The lists of Attention(). *)
Block(op, h, n) == [op |-> op, head |-> h, n |-> n]
List(op, h, size) == [k \in 1..size |-> Block(op, h, k - 1)]
ScoreWrgb(h) == List("score-wrgb", h, Words(h))
ScoreMac(h) == List("score-mac", h, Outputs)
ContextMvgb(h) == List("context-mvgb", h, Moves(h))
ScoreMvsb(h, n) == <<Block("score-mvsb", h, n)>>
ContextMac(h, n) == <<Block("context-mac", h, n)>>
ContextMvsb(h, n) == <<Block("context-mvsb", h, n)>>
Sfm(h) == <<Block("sfm", h, 0)>>
Barrier == <<Block("barrier", 0, 0)>>

----------------------------------------------------------------------------
(* Slice n of a list cut into slices of a given size. *)
Slice(s, n, size) ==
    SubSeq(s, n * size + 1, IF (n + 1) * size < Len(s) THEN (n + 1) * size ELSE Len(s))

(* Mutant of LateSlice: the slices are counted from the first beat. *)
LateSliceFromFirstBeat(s, n, length) ==
    IF n < length /\ n >= length \div 2
    THEN Slice(s, n, Len(s) \div CeilDiv(length, 2)) ELSE <<>>

(* The second input vector is written in the beats from the middle on. *)
LateSlice(s, n, length) ==
    IF n < length /\ n >= length \div 2
    THEN Slice(s, n - length \div 2, Len(s) \div CeilDiv(length, 2)) ELSE <<>>

(* Mutant of Beat: the first beat, not the last, goes without a barrier.   *)
BeatBarrierTooLate(length, macs, mvsb, extra) ==
    (IF j < length THEN macs ELSE <<>>) \o (IF j > 0 THEN mvsb ELSE <<>>)
        \o extra \o (IF j > 0 THEN Barrier ELSE <<>>)

(* One beat: MACs of beat j, moves of beat j - 1, what is overlapped. *)
Beat(length, macs, mvsb, extra) ==
    (IF j < length THEN macs ELSE <<>>) \o (IF j > 0 THEN mvsb ELSE <<>>)
        \o extra \o (IF j < length THEN Barrier ELSE <<>>)

Loop(length, next, block) ==
    /\ total_cmd' = total_cmd \o block
    /\ IF j < length THEN j' = j + 1 /\ UNCHANGED section
                     ELSE j' = 0 /\ section' = next
    /\ UNCHANGED <<p, i>>

(* Mutant of Enter: the loop over pairs runs one iteration too far. *)
EnterTooFar(h) == IF h < NumItr THEN "write" ELSE "done"

Enter(h) == IF h + 1 < NumItr THEN "write"
            ELSE IF h < NumItr THEN "tail-write" ELSE "done"

Init ==
    /\ p \in Params
    /\ i = 0
    /\ j = 0
    /\ section = Enter(0)
    /\ total_cmd = <<>>

Straight(from, next, block) ==
    /\ section = from
    /\ total_cmd' = total_cmd \o block
    /\ section' = next
    /\ UNCHANGED <<p, i, j>>

(* Head0: WRGB, a dummy MAC in the very first beat. *)
WriteHead0 ==
    Straight("write", "score",
             ScoreWrgb(i) \o (IF i = 0 THEN <<Block("dummy-mac", 0, 0)>> ELSE <<>>)
                 \o Barrier)

(* Head0: Score, with the WRGB of Head1. *)
ScoreHead0 ==
    /\ section = "score"
    /\ Loop(Rounds, "softmax",
            Beat(Rounds, Slice(ScoreMac(i), j, Group), ScoreMvsb(i, j - 1),
                 IF j < Rounds
                 THEN Slice(ScoreWrgb(i + 1), j, Words(i + 1) \div Rounds) ELSE <<>>))

(* Head0: SoftMax, Head1: Score. *)
SoftmaxHead0 ==
    /\ section = "softmax"
    /\ Loop(Rounds, "context",
            Beat(Rounds, Slice(ScoreMac(i + 1), j, Group), ScoreMvsb(i + 1, j - 1),
                 (IF j = 0 THEN Sfm(i) ELSE <<>>) \o LateSlice(ContextMvgb(i), j, Rounds)))

(* Head0: Context, Head1: Softmax. *)
ContextHead0 ==
    /\ section = "context"
    /\ Loop(Columns, "context1",
            Beat(Columns, ContextMac(i, j), ContextMvsb(i, j - 1),
                 (IF j = 0 THEN Sfm(i + 1) ELSE <<>>)
                     \o LateSlice(ContextMvgb(i + 1), j, Columns)))

(* Head1: Context; the commands are those of Head0 once more. *)
ContextHead1 ==
    /\ section = "context1"
    /\ total_cmd' = total_cmd \o Beat(Columns, ContextMac(i, j), ContextMvsb(i, j - 1), <<>>)
    /\ IF j < Columns THEN j' = j + 1 /\ UNCHANGED <<i, section>>
                      ELSE j' = 0 /\ i' = i + 2 /\ section' = Enter(i + 2)
    /\ UNCHANGED p

(* The last iteration of an odd number of them is written on its own. *)
TailWrite == Straight("tail-write", "tail-score", ScoreWrgb(i) \o Barrier)

TailScore ==
    /\ section = "tail-score"
    /\ Loop(Rounds, "tail-softmax",
            Beat(Rounds, Slice(ScoreMac(i), j, Group), ScoreMvsb(i, j - 1), <<>>))

TailSoftmax ==
    Straight("tail-softmax", "tail-context", Sfm(i) \o ContextMvgb(i) \o Barrier)

TailContext ==
    /\ section = "tail-context"
    /\ Loop(Columns, "done",
            Beat(Columns, ContextMac(i, j), ContextMvsb(i, j - 1), <<>>))

Done == section = "done" /\ UNCHANGED vars

Next == \/ WriteHead0 \/ ScoreHead0 \/ SoftmaxHead0 \/ ContextHead0 \/ ContextHead1
        \/ TailWrite \/ TailScore \/ TailSoftmax \/ TailContext \/ Done

Spec == Init /\ [][Next]_vars
----------------------------------------------------------------------------
Ops == {"score-wrgb", "score-mac", "score-mvsb", "sfm", "context-mvgb",
        "context-mac", "context-mvsb", "dummy-mac", "barrier"}

TypeOK ==
    /\ p \in Params
    /\ i \in 0..NumItr + 1
    /\ j \in Nat
    /\ section \in {"write", "score", "softmax", "context", "context1", "tail-write",
                    "tail-score", "tail-softmax", "tail-context", "done"}
    /\ total_cmd \in Seq([op : Ops, head : 0..NumItr - 1, n : Nat])

Emitted == ToSet(total_cmd)
BarrierBetween(a, b) == \E k \in a + 1..b - 1 : total_cmd[k] = Barrier[1]

(* The blocks whose results block y uses, and which a barrier must keep    *)
(* before it; the others only have to come first.                          *)
Feeds(x, y) ==
    /\ x.head = y.head
    /\ \/ x.op = "score-wrgb" /\ y.op = "score-mac"
       \/ x.op = "score-mac" /\ y.op = "score-mvsb" /\ x.n \div Group = y.n
       \/ x.op = "context-mvgb" /\ y.op = "context-mac"
       \/ x.op = "context-mac" /\ y.op = "context-mvsb" /\ x.n = y.n
ComesFirst(x, y) ==
    /\ x.head = y.head
    /\ \/ x.op = "score-mvsb" /\ y.op = "sfm"
       \/ x.op = "sfm" /\ y.op = "context-mvgb"

(***************************************************************************)
(* The overlapping of two iterations keeps the dataflow of each: a block   *)
(* is written after every block it takes input from, with a barrier in     *)
(* between (the controller orders PIM requests across barriers only), and  *)
(* softmax after the last score is moved and before its results are.       *)
(***************************************************************************)
DataflowKept ==
    \A b \in DOMAIN total_cmd : \A x \in Emitted :
        /\ Feeds(x, total_cmd[b]) =>
              \E a \in 1..b - 1 : total_cmd[a] = x /\ BarrierBetween(a, b)
        /\ ComesFirst(x, total_cmd[b]) => \E a \in 1..b - 1 : total_cmd[a] = x

(***************************************************************************)
(* For every length, head size and number of heads the beats cut the       *)
(* scores of every iteration into slices that cover them once: no MAC, no  *)
(* move and no softmax is left out or written twice at a partial group, a  *)
(* partial iteration or an odd number of iterations.                       *)
(***************************************************************************)
Copies(x) == Cardinality({k \in DOMAIN total_cmd : total_cmd[k] = x})
ScoresCoveredOnce ==
    section = "done" =>
        \A h \in 0..NumItr - 1 :
            /\ \A n \in 0..Outputs - 1 : Copies(Block("score-mac", h, n)) = 1
            /\ \A n \in 0..CeilDiv(Outputs, Group) - 1 : Copies(Block("score-mvsb", h, n)) = 1
            /\ Copies(Block("sfm", h, 0)) = 1

(***************************************************************************)
(* The input vectors overlapped with another head are written in order,    *)
(* nothing twice.  The size of their slices is rounded down, so the end of *)
(* a vector is left out: fewer commands than the beats it is cut over.     *)
(***************************************************************************)
Written(op, h) == {k \in DOMAIN total_cmd : total_cmd[k].op = op /\ total_cmd[k].head = h}
InOrderUpTo(op, h, n) ==
    /\ {total_cmd[k].n : k \in Written(op, h)} = 0..n - 1
    /\ \A k, l \in Written(op, h) : k < l => total_cmd[k].n < total_cmd[l].n
VectorsInOrder ==
    \A h \in 0..NumItr - 1 :
        /\ \E n \in 0..Words(h) :
              /\ InOrderUpTo("score-wrgb", h, n)
              /\ section = "done" => n + (IF h % 2 = 0 THEN 1 ELSE Rounds) > Words(h)
        /\ \E n \in 0..Moves(h) :
              /\ InOrderUpTo("context-mvgb", h, n)
              /\ section = "done" =>
                    n + CeilDiv(IF h % 2 = 0 THEN Rounds ELSE Columns, 2) > Moves(h)

(***************************************************************************)
(* Attention() gives every command a place of its own.  Through the mapper *)
(* and the broadcasts of the device, the MACs of a head read every column  *)
(* of its keys and of its values once, in the channel of the head, enough  *)
(* of them for L * dhead elements, keys and values never the same; moves   *)
(* and vector writes differ in their addresses as their number says.  The  *)
(* heads that follow each other in a channel are apart as long as the      *)
(* rows a head takes fit into partition_size.                              *)
(***************************************************************************)
Matrix(op, base, last) ==
    UNION {Read(p.style, base + a) :
              a \in UNION {Addresses(p.style, op, n, p.L, p.dhead) : n \in 0..last}}
PlacesOfTheirOwn ==
    total_cmd = <<>> =>
      LET width == IF p.style = "bank" THEN Banks ELSE 1
          Keys(h) == Matrix("score-mac", KeyAddr(p.dhead, h), Outputs - 1)
          Values(h) == Matrix("context-mac", ValAddr(p.dhead, h), Columns - 1)
          rows == CeilDiv(Outputs * Columns * width, Cols * Banks) * HBM_GS.row
          Commands(op) == Cardinality(Addresses(p.style, op, 0, p.L, p.dhead))
          all == Outputs * Columns * Units * width
      IN  /\ all * Macs >= p.L * p.dhead
          /\ \A h \in 0..NumItr - 1 :
                /\ Cardinality(Keys(h)) = all /\ Cardinality(Values(h)) = all
                /\ \A cell \in Keys(h) \cup Values(h) : cell.ch = 0
                /\ \A g \in 0..NumItr - 1 : Keys(g) \cap Values(h) = {}
                /\ rows <= PartitionSize(p.dhead) =>
                      \A g \in 0..h - 1 : Keys(g) \cap Keys(h) = {} /\ Values(g) \cap Values(h) = {}
                /\ Words(h) = Commands("score-wrgb") * ValidChannels(h)
                /\ Moves(h) = Commands("context-mvgb") * ValidChannels(h)

(* The keys of all heads end before the values begin, and the values       *)
(* within their bank; v_offset is half of a bank.                          *)
HeadsFit ==
    LET width == IF p.style = "bank" THEN Banks ELSE 1
        rows == CeilDiv(Outputs * Columns * width, Cols * Banks) * HBM_GS.row
    IN  /\ KeyAddr(p.dhead, NumItr - 1) + rows <= ValOffset
        /\ ValAddr(p.dhead, NumItr - 1) + rows <= HBM_GS.ba
----------------------------------------------------------------------------
(* What comments of the generators say and their code does not do; the     *)
(* run that checks this property ends in a violation.                      *)

(* gen_trace_attacc_bank.py:299 says "Head1: Context"; the loop below it   *)
(* writes the context commands of Head0 again.                             *)
ContextOfEveryHead ==
    section = "done" =>
        \A h \in 0..NumItr - 1, n \in 0..Columns - 1 : ContextMac(h, n)[1] \in Emitted
=============================================================================
