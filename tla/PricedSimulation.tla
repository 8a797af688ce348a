-------------------------- MODULE PricedSimulation ---------------------------
(***************************************************************************)
(* A run of the simulator and the formulas of its devices: what a device   *)
(* answers for a layer of a run, and what its tiles make of the layer that *)
(* is priced next.                                                         *)
(***************************************************************************)
EXTENDS Simulation, Devices

(* get_time_and_energy: an xPU searches for tiles unless the layer is a    *)
(* transfer.                                                               *)
Answer(device, num, l) ==
    IF device = "pim" THEN PimTimeEnergy(l, num)
    ELSE XpuTimeEnergy(device, l, num,
                       IF Memoised(l) THEN OptimalTile(l) ELSE [l1 |-> <<1, 1>>, l2 |-> <<1, 1>>])

(* The sizes of an image and of the tower and the projector that read it.  *)
Sizes == Nat \ {0}
VisionSized(model, image) ==
    /\ model.image.tokens \in Nat
    /\ model.image.tokens # 0 =>
         /\ {model.image.patch, model.image.size, model.image.merge} \subseteq Sizes
         /\ {model.vit.layers, model.vit.hidden, model.vit.heads, model.vit.ff} \subseteq Sizes
         /\ model.vit.heads <= model.vit.hidden
         /\ model.vit.act \in {"vit_gelu", "vit_silu", "vit_relu"}
         /\ model.image.pinpoints \in Seq(Sizes \X Sizes)
         /\ image = <<>> \/ image \in Sizes \X Sizes
ASSUME VisionAssumption == \A c \in Calls : VisionSized(c.model, c.image)

(* The sizes of a model by which the key of the memo of tiles, which leaves *)
(* the type of a layer out, still tells it: several heads of attention on a *)
(* GPU, so that it is no single operation as a linear layer is, shards of   *)
(* more than one column, and a size of a head that is no width of the tower.*)
HeadsTell(c) ==
    LET t == Transformer(c.model, c.ngpu)
        v == c.model.vit
    IN  /\ c.batch * (t.info.q \div t.attn_tp) > 1
        /\ t.info.hdim \div t.fc_tp > 1 /\ t.info.ff \div t.fc_tp > 1
        /\ c.model.image.tokens # 0 =>
              /\ v.heads > 1 /\ v.hidden > 1 /\ v.ff > 1
              /\ c.model.dhead \notin {v.hidden, 3 * v.hidden, v.ff}

(* What a matrix product reads and writes with the tiles found for it.   *)
TilesFit(l) ==
    LET t == OptimalTile(l)
        data == Traffic(l, t)
    IN  /\ data.off <= data.l2
        /\ data.off >= l.ops * (l.m * l.k + l.n * l.k + l.m * l.n)

(* The search is quick for layers of these sizes.                          *)
TileBound == 24
Small(l) == l.m <= TileBound /\ l.n <= TileBound /\ l.k <= TileBound /\ l.ops <= 8

(* The two searches for tiles fit together: what a matrix product reads    *)
(* and writes off chip is no more than what passes the L2 cache and no     *)
(* less than its operands and its result once.                             *)
OffChipWithinL2 ==
    (pc \in {"vision", "sum", "gen"} /\ Len(ran) < Len(graph)) =>
      LET l == graph[Len(ran) + 1] IN
      l.type \in {"FC", "MATMUL"} /\ Small(l) => TilesFit(l)
=============================================================================
