--------------------------- MODULE TraceAddresses ---------------------------
(***************************************************************************)
(* The addresses in the traces: what Attention() of the three generators   *)
(* computes from the granularities of their table HBM_GS, and what the     *)
(* mapper and the broadcast commands of the device make of it.             *)
(*                                                                         *)
(* An operator <Style>Addresses returns the addresses of one block (see    *)
(* AttaccTrace) in channel 0, as offsets from the address of its head's    *)
(* keys or values; the other channels get the same, HBM_GS.ch apart.       *)
(***************************************************************************)
EXTENDS Naturals, FiniteSets

CONSTANTS
    Channels,    \* n_channel
    Pchs,        \* n_pch
    Ranks,       \* n_rank
    Bgs,         \* n_bg
    Banks,       \* n_bank
    Rows,        \* n_row
    Cols,        \* n_col
    ColBytes,    \* prefetch_size
    Macs,        \* n_mac, the elements of a column
    MaxLen,      \* max_L
    ValOffset    \* v_offset

ASSUME AddressAssumption ==
    {Channels, Pchs, Ranks, Bgs, Banks, Rows, Cols, ColBytes, Macs, MaxLen, ValOffset}
        \subseteq Nat \ {0}

CeilDiv(a, b) == (a + b - 1) \div b
Partitions == Ranks * Bgs

HBM_GS ==
    LET row == Cols * ColBytes
        ba == Rows * row
        bg == Banks * ba
        rank == Bgs * bg
        pch == Ranks * rank
    IN  [col |-> ColBytes, row |-> row, ba |-> ba, bg |-> bg, rank |-> rank, pch |-> pch,
         ch |-> Pchs * pch]

(* In elements, although addresses are in bytes. *)
PartitionSize(dhead) == CeilDiv(MaxLen * dhead, Pchs * Partitions * Banks)
KeyAddr(dhead, itr) == itr * PartitionSize(dhead)
ValAddr(dhead, itr) == KeyAddr(dhead, itr) + ValOffset

----------------------------------------------------------------------------
(* Blocks of an attention of length L and head size dhead. *)

(* idx of the MACs of a block: n_idx of the outer loop, all of the inner. *)
Indices(n, inner) == {k + n * inner : k \in 0..inner - 1}

(* A bank has every column of its share in a row of addresses. *)
BankPlace(idx) == idx * HBM_GS.col

(* Columns of a row of one bank first, then the next bank, then the row. *)
BgPlace(idx) ==
    LET rows == idx \div Cols IN
    (rows % Banks) * HBM_GS.ba + (rows \div Banks) * HBM_GS.row + (idx % Cols) * HBM_GS.col

(* Mutant of BufferPlace: the column moves on before all banks are used. *)
BufferPlaceColumnFirst(idx) ==
    LET bgs == idx \div Partitions
        banks == bgs \div Banks
    IN  (idx % Partitions) * HBM_GS.bg + (bgs % Banks) * HBM_GS.ba
          + (banks \div Cols) * HBM_GS.row + (bgs % Cols) * HBM_GS.col

(* Bank groups (of all ranks) first, then banks, then the columns of a row. *)
BufferPlace(idx) ==
    LET bgs == idx \div Partitions
        banks == bgs \div Banks
    IN  (idx % Partitions) * HBM_GS.bg + (bgs % Banks) * HBM_GS.ba
          + (banks \div Cols) * HBM_GS.row + (banks % Cols) * HBM_GS.col

OfUnits(sizes) ==
    {rank * HBM_GS.rank + bg * HBM_GS.bg + col :
        rank \in 0..Ranks - 1, bg \in 0..Bgs - 1, col \in 0..sizes - 1}

BankAddresses(op, n, L, dhead) ==
    LET share == Pchs * Partitions
        columns == CeilDiv(dhead, Banks * Macs)
    IN  CASE op = "score-wrgb" ->
               {ba * HBM_GS.ba + col : ba \in 0..Banks - 1, col \in 0..columns - 1}
          [] op = "score-mac" -> {BankPlace(idx) : idx \in Indices(n, columns)}
          [] op = "score-mvsb" -> OfUnits(1)
          [] op = "context-mvgb" -> OfUnits(CeilDiv(L, share * Macs))
          [] op = "context-mac" -> {BankPlace(idx) : idx \in Indices(n, CeilDiv(L, share))}
          [] op = "context-mvsb" ->
               {rank * HBM_GS.rank + ba * HBM_GS.ba : rank \in 0..Ranks - 1, ba \in 0..Banks - 1}

BgAddresses(op, n, L, dhead) ==
    LET share == Pchs * Partitions
        columns == CeilDiv(dhead, Macs)
    IN  CASE op = "score-wrgb" -> 0..columns - 1
          [] op = "score-mac" -> {BgPlace(idx) : idx \in Indices(n, columns)}
          [] op = "score-mvsb" -> OfUnits(1)
          [] op = "context-mvgb" -> OfUnits(CeilDiv(L, share * Macs))
          [] op = "context-mac" -> {BgPlace(idx) : idx \in Indices(n, CeilDiv(L, share))}
          [] op = "context-mvsb" -> {rank * HBM_GS.rank : rank \in 0..Ranks - 1}

BufferAddresses(op, n, L, dhead) ==
    LET columns == CeilDiv(dhead, Macs) IN
    CASE op = "score-wrgb" -> 0..columns - 1
      [] op = "score-mac" -> {BufferPlace(idx) : idx \in Indices(n, columns)}
      [] op = "context-mvgb" -> 0..CeilDiv(L, Pchs * Macs) - 1
      [] op = "context-mac" -> {BufferPlace(idx) : idx \in Indices(n, CeilDiv(L, Pchs))}
      [] op \in {"score-mvsb", "context-mvsb"} -> {0}

Addresses(style, op, n, L, dhead) ==
    CASE style = "bank" -> BankAddresses(op, n, L, dhead)
      [] style = "bg" -> BgAddresses(op, n, L, dhead)
      [] style = "buffer" -> BufferAddresses(op, n, L, dhead)

----------------------------------------------------------------------------
(* HBM3PIMMap::apply cuts an address into fields, the lowest first. *)
Mapped(addr) ==
    LET co == addr \div ColBytes
        ro == co \div Cols
        ba == ro \div Rows
        bg == ba \div Banks
        ra == bg \div Bgs
        pch == ra \div Ranks
    IN  [ch |-> (pch \div Pchs) % Channels, pch |-> pch % Pchs, rank |-> ra % Ranks,
         bg |-> bg % Bgs, ba |-> ba % Banks, row |-> ro % Rows, col |-> co % Cols]

(* The columns that a MAC of a style reads: the banks it is broadcast to    *)
(* differ in the fields listed.                                             *)
Read(style, addr) ==
    LET at == Mapped(addr)
        Spread(places, field, size) == {[q EXCEPT ![field] = x] : q \in places, x \in 0..size - 1}
        ofPchs == Spread({at}, "pch", Pchs)
        ofUnits == Spread(Spread(ofPchs, "rank", Ranks), "bg", Bgs)
    IN  CASE style = "buffer" -> ofPchs
          [] style = "bg" -> ofUnits
          [] style = "bank" -> Spread(ofUnits, "ba", Banks)
=============================================================================
