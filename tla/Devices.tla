------------------------------ MODULE Devices -------------------------------
(***************************************************************************)
(* The devices of src/src/devices.py: what time and energy an xPU (a GPU   *)
(* or the host CPU) and a PIM accelerator report for a layer.  Rates are   *)
(* integers per unit of time and quotients are rounded down; an energy is  *)
(* the list the code returns: off-chip memory, L2, L1, registers,          *)
(* arithmetic, communication.                                              *)
(***************************************************************************)
EXTENDS ModelGraph

CONSTANTS
    Cores,        \* NUM_CORE
    L1Capacity,   \* L1_CAP_PER_CORE, in elements
    L2Capacity,   \* L2_CAP_PER_DEVICE, in elements
    PeakFlops,    \* operations per unit of time
    OffBandwidth, \* elements per unit of time, off chip
    L2Bandwidth,
    LinkBandwidth,
    Pj,           \* energies per element: mem, l2, l1, reg, alu, comm
    Unit          \* units of time; every rate divides into it

ASSUME DevicesAssumption ==
    /\ {Cores, L1Capacity, L2Capacity, PeakFlops, OffBandwidth, L2Bandwidth,
        LinkBandwidth, Unit} \subseteq Nat \ {0}
    /\ 16 * 32 + 64 <= L1Capacity
    /\ Pj \in [{"mem", "l2", "l1", "reg", "alu", "comm"} -> Nat]

Sum3(s) == s[1] + s[2] + s[3]
Lexicographic(a, b) == a[1] < b[1] \/ (a[1] = b[1] /\ a[2] < b[2])
(* The first of the tiles, in the order of the loops, that none is cheaper than. *)
FirstBest(tiles, Cheaper(_, _)) ==
    LET best == {a \in tiles : \A b \in tiles : ~Cheaper(b, a)}
    IN  CHOOSE a \in best : \A b \in best \ {a} : Lexicographic(a, b)

----------------------------------------------------------------------------
(* Tiles of a matrix product. *)

TileSizes == {8, 16, 32, 64, 128, 192, 256, 320, 384, 448, 512}

(* Elements read of both inputs and written when the output is cut into tiles. *)
TrafficForTile(l, tile) ==
    << CeilDiv(l.n, tile[2]) * l.m * l.k * l.ops,
       CeilDiv(l.m, tile[1]) * l.n * l.k * l.ops, l.m * l.n * l.ops >>

ThreadBlocks(l, tile) ==
    l.ops * (IF l.type = "FC" THEN CeilDiv(l.m, tile[1]) * CeilDiv(l.n, tile[2]) ELSE 1)
Slots(l, tile) == CeilDiv(ThreadBlocks(l, tile), Cores) * Cores

(* L2 traffic over the square of the share of the cores in use. *)
L1Cheaper(l, a, b) ==
    LET Busy(t) == ThreadBlocks(l, t) * ThreadBlocks(l, t)
        All(t) == Slots(l, t) * Slots(l, t)
    IN  Sum3(TrafficForTile(l, a)) * All(a) * Busy(b)
          < Sum3(TrafficForTile(l, b)) * All(b) * Busy(a)
L1Tile(l) ==
    LET Clipped == {<<Least(a, l.m), Least(b, l.n)>> : a, b \in TileSizes}
        Fits(t) == (t[1] + t[2]) * 32 + t[1] * t[2] <= L1Capacity
    IN  FirstBest({t \in Clipped : Fits(t)}, LAMBDA a, b : L1Cheaper(l, a, b))

(* L2 tiles are multiples of the L1 tile, or all; the L1 tile needs no room. *)
L2Tile(l, l1) ==
    LET Multiples(size, step) == {step * i : i \in 1..(size \div step)} \cup {size}
        Fits(t) == (t[1] + t[2]) * l.k + 64 * t[1] * t[2] <= 64 * L2Capacity
        Access(t) == Sum3(TrafficForTile([l EXCEPT !.ops = 1], t))
    IN  FirstBest({t \in Multiples(l.m, l1[1]) \X Multiples(l.n, l1[2]) : t = l1 \/ Fits(t)},
                  LAMBDA a, b : Access(a) < Access(b))

OptimalTile(l) == LET l1 == L1Tile(l) IN [l1 |-> l1, l2 |-> L2Tile(l, l1)]

----------------------------------------------------------------------------
(* An xPU: a GPU, whose idle cores slow it down, or a CPU. *)

(* Mutant of Traffic: the tiles of the two caches are swapped. *)
TrafficSwapped(l, tile) ==
    IF l.type \in {"FC", "MATMUL"}
    THEN [off |-> Sum3(TrafficForTile(l, tile.l1)), l2 |-> Sum3(TrafficForTile(l, tile.l2)),
          l1 |-> Sum3(TrafficForTile(l, <<16, 16>>)), reg |-> 3 * l.m * l.n * l.k]
    ELSE LET data == Sum3(Size(l)) IN [off |-> data, l2 |-> data, l1 |-> data, reg |-> data]
Traffic(l, tile) ==
    IF l.type \in {"FC", "MATMUL"}
    THEN [off |-> Sum3(TrafficForTile(l, tile.l2)), l2 |-> Sum3(TrafficForTile(l, tile.l1)),
          l1 |-> Sum3(TrafficForTile(l, <<16, 16>>)), reg |-> 3 * l.m * l.n * l.k]
    ELSE LET data == Sum3(Size(l)) IN [off |-> data, l2 |-> data, l1 |-> data, reg |-> data]

(* Time at a rate of which only the busy cores have their share. *)
Stretched(device, l, tile, time) ==
    IF device = "gpu" THEN (time * Slots(l, tile.l1)) \div ThreadBlocks(l, tile.l1) ELSE time
ComputeTime(device, l, tile) == Stretched(device, l, tile, (Unit * Flops(l)) \div PeakFlops)
MemTime(device, l, tile) ==
    LET data == Traffic(l, tile)
        off == (Unit * data.off) \div OffBandwidth
    IN  IF device = "gpu" /\ l.type \in {"ACT", "NORM"} THEN off + Unit
        ELSE Most(Stretched(device, l, tile, off), (Unit * data.l2) \div L2Bandwidth)

XpuEnergy(device, l, tile) ==
    LET data == Traffic(l, tile)
        alu == (Flops(l) \div 2) * Pj["alu"]
    IN  IF device = "cpu" THEN << data.off * Pj["mem"], 0, 0, 0, alu, 0 >>
        ELSE << data.off * Pj["mem"], data.l2 * Pj["l2"], data.l1 * Pj["l1"],
                data.reg * Pj["reg"], alu, 0 >>

Moved(l) == l.m * l.n * l.ops
Transfer(elements, rounds, energy) ==
    [time |-> ((2 * Unit * elements) \div LinkBandwidth) * rounds, bound |-> "link",
     energy |-> <<0, 0, 0, 0, 0, energy>>]
(* The link to a host CPU has no energy; a reduction passes a share of the *)
(* sums on in a round per other GPU.                                       *)
IoTimeEnergy(device, l, num) ==
    CASE device = "cpu" -> Transfer(Moved(l), 1, 0)
      [] device = "gpu" /\ l.type = "X2G" -> Transfer(Moved(l), 1, num * Moved(l) * Pj["comm"])
      [] device = "gpu" /\ l.type = "G2G" ->
             Transfer(CeilDiv(Moved(l), num), num - 1, num * Moved(l) * Pj["comm"])

XpuTimeEnergy(device, l, num, tile) ==
    IF l.type \in {"X2G", "G2G"} THEN IoTimeEnergy(device, l, num)
    ELSE LET compute == ComputeTime(device, l, tile)
             memory == MemTime(device, l, tile)
         IN  [time |-> Most(compute, memory),
              bound |-> IF compute > memory THEN "compute" ELSE "memory",
              energy |-> [e \in 1..6 |-> num * XpuEnergy(device, l, tile)[e]]]

----------------------------------------------------------------------------
(* A PIM accelerator answers a score layer with what Ramulator says of the *)
(* whole attention; what belongs to it but comes later is free.            *)

Nothing == [time |-> 0, bound |-> "memory", energy |-> <<0, 0, 0, 0, 0, 0>>]

PimTimeEnergy(l, num) ==
    CASE l.type = "X2G" -> Transfer(Moved(l), 1, num * Moved(l) * Pj["comm"])
      [] l.type = "MATMUL" /\ l.name = "score" ->
             [time |-> Unit * l.n * l.pim, bound |-> "memory",
              energy |-> << num * 2 * l.n * l.pim * Pj["mem"], 0, 0, 0,
                            num * (Flops(l) \div 2) * Pj["alu"], 0 >>]
      [] l.type = "MATMUL" /\ l.name # "score" -> Nothing
      [] l.type = "SOFTMAX" -> Nothing
=============================================================================
