------------------------------ MODULE MCSystem ------------------------------
(* Traces for the runs of the system: all traces up to a length over small *)
(* sets of lines.                                                          *)
EXTENDS PIMSystem

At(p, k) == [pch |-> p, rank |-> 0, bg |-> 0, bk |-> k]
Line(t, b, r, c) == [type |-> t, bank |-> b, row |-> r, col |-> c]
UpTo(n, S) == UNION {[1..k -> S] : k \in 1..n}

Barrier == Line("pim-barrier", At(0, 0), 0, 0)
MacAB(r) == Line("pim-mac-all-bank", At(0, 0), r, 0)
MacSB(r) == Line("pim-mac-same-bank", At(0, 0), r, 0)
MacPB(r) == Line("pim-mac-per-bank", At(0, 0), r, 0)
WrGB == Line("pim-write-to-gemv-buffer", At(0, 0), 0, 0)
SetHead == Line("pim-set-head", At(0, 0), 0, 0)
Load(p, k, r, c) == Line("read", At(p, k), r, c)
Store(p, k, r, c) == Line("write", At(p, k), r, c)

(* The three PIM placements: MACs of one kind on two rows, data movement,  *)
(* barriers.                                                               *)
PimTraces ==
    UNION {UpTo(3, {mac[0], mac[1], WrGB, Barrier}) :
               mac \in {[r \in {0, 1} |-> MacAB(r)], [r \in {0, 1} |-> MacSB(r)],
                        [r \in {0, 1} |-> MacPB(r)]}}
    \cup {t \in [1..4 -> {MacAB(0), MacAB(1), Barrier}] : t[2] = Barrier}
(* Loads and stores to two rows of two banks. *)
LoadStoreTraces ==
    UpTo(3, {Load(0, k, r, 0) : k, r \in {0, 1}} \cup {Store(0, k, r, 0) : k, r \in {0, 1}})
    \cup [1..4 -> {Load(0, 0, 0, 1), Store(0, 0, 0, 0), Store(0, 0, 1, 0), Store(0, 1, 0, 0)}]

MixedTraces ==
    PimTraces \cup UpTo(3, {Load(1, 0, 1, 0), Store(0, 0, 1, 0), MacAB(0), Barrier, SetHead})

(* Traces that must end: PIM lines without loads and stores, or the latter *)
(* alone, in two pseudochannels.                                           *)
EndingTraces ==
    UpTo(3, {MacAB(0), MacAB(1), Barrier})
    \cup UpTo(2, {Load(0, 0, 0, 0), Load(1, 0, 1, 0), Load(0, 0, 1, 0), Store(0, 0, 0, 0)})
    \cup UpTo(3, {Load(0, 0, 0, 0), Store(0, 0, 1, 0)})

(* A MAC and a data movement, which the timing table lets go together. *)
MacThenMove == {<<MacAB(0), WrGB>>}

(* One load in pseudochannel 1 and an all-bank MAC on another row. *)
LoadThenMac == {<<Load(1, 0, 1, 0), MacAB(0)>>}
=============================================================================
