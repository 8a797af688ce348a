----------------------------- MODULE ModelGraph -----------------------------
(***************************************************************************)
(* The graphs of src/src/model.py and the model table of src/src/config.py *)
(* : which layers a decoder, a generation stage and a vision tower consist *)
(* of, with their sizes in one tensor-parallel shard, and how the decoder  *)
(* layers are routed to groups.  A layer keeps the fields the simulation   *)
(* reads: name, type, m, n, k, ops (numOp) and pim (pim_numOp).            *)
(***************************************************************************)
EXTENDS Naturals, Sequences, FiniteSets

CeilDiv(a, b) == (a + b - 1) \div b
Least(a, b) == IF a < b THEN a ELSE b
Most(a, b) == IF a < b THEN b ELSE a
When(condition, layers) == IF condition THEN layers ELSE <<>>

LayerTypes == {"FC", "MATMUL", "ACT", "SOFTMAX", "NORM", "G2G", "X2G"}
Layer(name, type, m, n, k, ops) ==
    [name |-> name, type |-> type, m |-> m, n |-> n, k |-> k, ops |-> ops, pim |-> ops]
FeedForward(l) == l.name \in {"ff1", "ff2", "ff3", "vit_ff1", "vit_ff2"}

(* The operations of a layer, and the elements of its two inputs and its output. *)
Flops(l) ==
    LET elements == l.m * l.n * l.ops IN
    CASE l.type \in {"SOFTMAX", "NORM"}   -> 5 * elements
      [] l.type \in {"FC", "MATMUL"}      -> 2 * elements * l.k
      [] l.type \in {"G2G", "X2G"}        -> 0
      [] l.type = "ACT" /\ l.name = "glu" -> 9 * elements
      [] l.type = "ACT" /\ l.name \in {"relu", "vit_relu"} -> elements
      [] OTHER -> 8 * elements
Size(l) ==
    LET mn == l.ops * l.m * l.n IN
    CASE l.type \in {"FC", "MATMUL"}       -> <<l.ops * l.m * l.k, l.ops * l.n * l.k, mn>>
      [] l.type = "NORM" \/ l.name = "glu" -> <<mn, mn, mn>>
      [] OTHER                             -> <<mn, 0, mn>>

----------------------------------------------------------------------------
(* The model table.  ff is ff_intermediate; deepstack is empty unless the  *)
(* model has_deepstack; vision.projector is "none" for a language model.   *)

Vit(layers, hidden, heads, ff, act) ==
    [layers |-> layers, hidden |-> hidden, heads |-> heads, ff |-> ff, act |-> act]
Image(patch, size, merge, tokens, projector, pinpoints) ==
    [patch |-> patch, size |-> size, merge |-> merge, tokens |-> tokens,
     projector |-> projector, pinpoints |-> pinpoints]
NoImage == Image(0, 0, 1, 0, "none", <<>>)

Completed(ndec, hdim, q, kv, dhead, ff, gated, deepstack, vit, image) ==
    [ndec |-> ndec, hdim |-> hdim, q |-> q, kv |-> kv, dhead |-> dhead, ff |-> ff,
     gated |-> gated, deepstack |-> deepstack, vit |-> vit, image |-> image,
     floor |-> IF image = NoImage THEN 0 ELSE 22]
NoVit == Vit(0, 0, 1, 0, "vit_gelu")

Legacy(ndec, hdim, heads, dhead, ff) ==
    Completed(ndec, hdim, heads, heads, dhead, ff, FALSE, {}, NoVit, NoImage)
Gated(ndec, hdim, q, kv, ff, deepstack, vit, image) ==
    Completed(ndec, hdim, q, kv, 128, ff, TRUE, deepstack, vit, image)

Clip24 == Vit(24, 1024, 16, 4096, "vit_gelu")
Pinpoints == << <<336, 672>>, <<672, 336>>, <<672, 672>>, <<1008, 336>>, <<336, 1008>> >>

LanguageModels ==
    [GPT_175B  |-> Legacy(96, 12288, 96, 128, 49152),
     GPT_89B   |-> Legacy(48, 12288, 96, 128, 49152),
     GPT_13B   |-> Legacy(40, 5120, 40, 128, 20480),
     LLAMA_7B  |-> [Legacy(32, 4096, 32, 128, 11008) EXCEPT !.gated = TRUE],
     LLAMA_65B |-> [Legacy(80, 8192, 64, 128, 22016) EXCEPT !.gated = TRUE],
     MT_76B    |-> Legacy(60, 10240, 40, 128, 40960),
     MT_146B   |-> Legacy(80, 12288, 80, 128, 49152),
     MT_310B   |-> Legacy(96, 16384, 128, 128, 65536),
     MT_530B   |-> Legacy(105, 20480, 128, 160, 81920),
     MT_1008B  |-> Legacy(128, 25600, 160, 160, 102400),
     OPT_66B   |-> Legacy(64, 9216, 72, 128, 36864)]
TextModels ==
    [Qwen3_4B   |-> Gated(36, 2560, 32, 8, 9728, {}, NoVit, NoImage),
     Vicuna_7B  |-> Gated(32, 4096, 32, 32, 11008, {}, NoVit, NoImage),
     Mistral_7B |-> Gated(32, 4096, 32, 8, 14336, {}, NoVit, NoImage)]
VisionModels ==
    [Qwen3_VL_4B |-> Gated(36, 2560, 32, 8, 9728, {5, 11, 17}, Clip24,
                           Image(16, 672, 2, 441, "merger", <<>>)),
     Qwen2_5_VL_7B |-> Gated(28, 3584, 28, 4, 18944, {}, Vit(32, 1280, 16, 3420, "vit_silu"),
                             Image(14, 672, 2, 576, "merger", <<>>)),
     InternVL3_8B |-> Gated(28, 3584, 28, 4, 18944, {}, Clip24,
                            Image(14, 448, 2, 256, "pixel_shuffle", <<>>)),
     LLaVA_1_5_7B |-> Gated(32, 4096, 32, 32, 11008, {}, Clip24,
                            Image(14, 336, 1, 576, "mlp", <<>>)),
     LLaVA_Next_7B |-> Gated(32, 4096, 32, 8, 14336, {}, Clip24,
                             Image(14, 336, 1, 2880, "mlp", Pinpoints))]

(* A Transformer: the model with the shards of its linear layers and of its attention. *)
Transformer(model, tp) == [info |-> model, fc_tp |-> tp, attn_tp |-> Least(tp, model.kv)]
QOut(t) == t.info.q * t.info.dhead
KvOut(t) == t.info.kv * t.info.dhead
QkvOut(t) == QOut(t) + 2 * KvOut(t)

(* _split asserts that every size it shares out is a multiple of the shards. *)
Splits(t) ==
    /\ \A size \in {QkvOut(t), QOut(t), KvOut(t), t.info.hdim, t.info.ff} : size % t.fc_tp = 0
    /\ \A size \in {t.info.q, t.info.kv, QOut(t)} : size % t.attn_tp = 0

----------------------------------------------------------------------------
(* The vision tower.  An image is <<width, height>>, or <<>> for the default. *)

AnyRes(image) == image.pinpoints # <<>>
Square(side) == <<side, side>>
SizeOf(image, size) == IF size = <<>> THEN Square(image.size) ELSE size
Patches(image, size) == (size[1] \div image.patch) * (size[2] \div image.patch)

(* The pixels of an image that survive its reduction to a resolution. *)
Effective(size, resolution) ==
    LET byWidth == resolution[1] * size[2] <= resolution[2] * size[1]
        width == IF byWidth THEN resolution[1] ELSE (size[1] * resolution[2]) \div size[2]
        height == IF byWidth THEN (size[2] * resolution[1]) \div size[1] ELSE resolution[2]
    IN  Least(width * height, size[1] * size[2])

(* The first pinpoint that keeps the most pixels and, among these, wastes the fewest. *)
BestResolution(size, pinpoints) ==
    LET Area(i) == pinpoints[i][1] * pinpoints[i][2]
        Kept(i) == Effective(size, pinpoints[i])
        Beats(i, j) == \/ Kept(i) > Kept(j)
                       \/ Kept(i) = Kept(j) /\ Area(i) < Area(j)
        Best(i) == \A j \in DOMAIN pinpoints :
                       ~Beats(j, i) /\ (j < i => Beats(i, j))
    IN  pinpoints[CHOOSE i \in DOMAIN pinpoints : Best(i)]

VisualTokens(image, size) ==
    LET grid == BestResolution(SizeOf(image, size), image.pinpoints) IN
    CASE image.tokens = 0 -> 0
      [] image.tokens # 0 /\ AnyRes(image) ->
             Patches(image, grid) + grid[2] \div image.patch + Patches(image, Square(image.size))
      [] image.tokens # 0 /\ ~AnyRes(image) /\ size = <<>> -> image.tokens
      [] OTHER -> Most(1, Patches(image, size) \div (image.merge * image.merge))

VitTokens(image, size) ==
    CASE image.tokens = 0 -> 0
      [] image.tokens # 0 /\ AnyRes(image) -> Patches(image, Square(image.size))
      [] image.tokens # 0 /\ ~AnyRes(image) /\ size = <<>> /\ image.merge > 1 ->
             image.tokens * image.merge * image.merge
      [] OTHER -> Patches(image, SizeOf(image, size))

VitImages(image, size) ==
    LET grid == BestResolution(SizeOf(image, size), image.pinpoints) IN
    CASE image.tokens = 0 -> 0
      [] image.tokens # 0 /\ AnyRes(image) ->
             1 + CeilDiv(Patches(image, grid), Most(1, Patches(image, Square(image.size))))
      [] OTHER -> 1

BuildVit(t, batch, size) ==
    LET v == t.info.vit
        tokens == VitTokens(t.info.image, size)
        rows == batch * tokens
        blocks == v.layers * Most(1, VitImages(t.info.image, size))
        heads == v.heads * batch * blocks
        dhead == v.hidden \div v.heads
    IN  When(tokens # 0 /\ v.layers # 0,
          << Layer("vit_qkv", "FC", rows, 3 * v.hidden, v.hidden, blocks),
             Layer("vit_score", "MATMUL", tokens, tokens, dhead, heads),
             Layer("vit_softmax", "SOFTMAX", tokens, tokens, 1, heads),
             Layer("vit_context", "MATMUL", tokens, dhead, tokens, heads),
             Layer("vit_proj", "FC", rows, v.hidden, v.hidden, blocks),
             Layer("vit_norm1", "NORM", rows, v.hidden, 1, blocks),
             Layer("vit_ff1", "FC", rows, v.ff, v.hidden, blocks),
             Layer(v.act, "ACT", rows, v.ff, 1, blocks),
             Layer("vit_ff2", "FC", rows, v.hidden, v.ff, blocks),
             Layer("vit_norm2", "NORM", rows, v.hidden, 1, blocks) >>)

(* The projectors differ in what they read: a merged square of patches or one patch. *)
BuildProjector(t, batch, size) ==
    LET image == t.info.image
        tokens == batch * VisualTokens(image, size)
        hdim == t.info.hdim
        merge == IF image.projector = "mlp" THEN 1 ELSE image.merge
    IN  When(tokens # 0 /\ image.projector # "none",
          << Layer("proj_fc1", "FC", tokens, hdim, t.info.vit.hidden * merge * merge, 1),
             Layer("proj_act", "ACT", tokens, hdim, 1, 1),
             Layer("proj_fc2", "FC", tokens, hdim, hdim, 1) >>
          \o When(t.fc_tp > 1, << Layer("vit_broadcast", "G2G", tokens, hdim, 1, 1) >>))

BuildVision(t, batch, size) == BuildVit(t, batch, size) \o BuildProjector(t, batch, size)

----------------------------------------------------------------------------
(* A decoder layer. *)

(* Attention over `keys` keys for `queries` queries of every request; PIM  *)
(* runs an operation per KV head, the others one per query head.           *)
Attention(t, batch, queries, keys) ==
    LET heads == batch * (t.info.q \div t.attn_tp)
        OnPim(l) == [l EXCEPT !.pim = batch * (t.info.kv \div t.attn_tp)]
    IN  << OnPim(Layer("score", "MATMUL", queries, keys, t.info.dhead, heads)),
           OnPim(Layer("softmax", "SOFTMAX", queries, keys, 1, heads)),
           OnPim(Layer("context", "MATMUL", queries, t.info.dhead, keys, heads)) >>

FeedForwardLayers(t, tokens) ==
    LET ff == t.info.ff \div t.fc_tp
        hdim == t.info.hdim
        Up(name) == Layer(name, "FC", tokens, ff, hdim, 1)
        Down(name) == Layer(name, "FC", tokens, hdim, ff, 1)
        Act(name) == Layer(name, "ACT", tokens, ff, 1, 1)
    IN  IF t.info.gated THEN << Up("ff1"), Up("ff2"), Act("glu"), Down("ff3") >>
                        ELSE << Up("ff1"), Act("gelu"), Down("ff2") >>

(* From the output projection to the end of the layer. *)
AfterAttention(t, tokens) ==
    LET hdim == t.info.hdim
        Reduce == Layer("comm_g2g", "G2G", tokens, hdim, 1, 1)
        Norm(name) == Layer(name, "NORM", tokens, hdim, 1, 1)
    IN  << Layer("proj", "FC", tokens, hdim, hdim \div t.fc_tp, 1), Reduce, Norm("norm1") >>
        \o FeedForwardLayers(t, tokens) \o << Reduce, Norm("norm2") >>

Qkv(t, tokens) == Layer("qkv", "FC", tokens, QkvOut(t) \div t.fc_tp, t.info.hdim, 1)
Move(name, tokens, width) == Layer(name, "X2G", tokens, width, 1, 1)
(* Mutant of Return: what comes back is shared out like the linear layers. *)
ReturnByFcTp(t, tokens) == Move("comm_x2g_return", tokens, QOut(t) \div t.fc_tp)
Return(t, tokens) == Move("comm_x2g_return", tokens, QOut(t) \div t.attn_tp)

(* The decoder layer over the whole prompt; idx is the set with its number, if known. *)
BuildSum(t, batch, lin, hetero, idx) ==
    LET tokens == batch * lin IN
    << Qkv(t, tokens) >>
    \o When(hetero, << Move("comm_x2g_kv", tokens, 2 * (KvOut(t) \div t.fc_tp)),
                       Move("comm_x2g_q", tokens, QOut(t) \div t.fc_tp) >>)
    \o Attention(t, batch, lin, lin)
    \o When(idx \cap t.info.deepstack # {},
            << Layer("deepstack_add", "ACT", tokens, t.info.hdim, 1, 1) >>)
    \o When(hetero, << Return(t, tokens) >>)
    \o AfterAttention(t, tokens)

(* The decoder layer for the token generated at a stage. *)
BuildGenStage(t, batch, lin, stage, hetero) ==
    << Qkv(t, batch) >>
    \o When(hetero, << Move("comm_x2g_qkv", batch, QkvOut(t) \div t.fc_tp) >>)
    \o Attention(t, batch, 1, lin + stage)
    \o When(hetero, << Return(t, batch) >>)
    \o AfterAttention(t, batch)

----------------------------------------------------------------------------
(* Routing.  A group is a device, a number of decoder layers it stands for *)
(* and the set with the index of its layer, if it is one layer.            *)

Group(device, count, idx) == [device |-> device, count |-> count, idx |-> idx]
(* Mutant of LayerByLayer: the layers of the list are counted from one. *)
LayerByLayerFromOne(ndec, accelerated, acc) ==
    [n \in 1..ndec |-> Group(IF n \in accelerated THEN acc ELSE "gpu", 1, {n - 1})]
LayerByLayer(ndec, accelerated, acc) ==
    [n \in 1..ndec |-> Group(IF n - 1 \in accelerated THEN acc ELSE "gpu", 1, {n - 1})]

DefaultLayerList == {0, 8, 31, 33} \cup 12..29

(* Routing: an empty list stands for the default one, and a DeepStack      *)
(* model, whose layers must keep their numbers, is routed by list.         *)
ToGroups(mode, list, acc, model) ==
    LET layers == IF list = {} THEN DefaultLayerList ELSE list
        accelerated == layers \cap 0..(model.ndec - 1)
        count == Cardinality(accelerated)
        kind == IF model.deepstack # {} THEN "list" ELSE mode
    IN  CASE kind = "conservative" -> << Group(acc, model.ndec, {}) >>
          [] kind = "optimistic" ->
                 When(count > 0, << Group(acc, count, {}) >>)
                 \o When(model.ndec > count, << Group("gpu", model.ndec - count, {}) >>)
          [] kind = "list" -> LayerByLayer(model.ndec, accelerated, acc)

(* Mutant of Groups: by default all layers are one group, whatever the model. *)
GroupsInOne(mode, list, acc, model) ==
    IF mode = "default" THEN << Group(acc, model.ndec, {}) >>
    ELSE ToGroups(mode, list, acc, model)
(* The groups of a run: routed as asked, or else all layers to the accelerator. *)
Groups(mode, list, acc, model) ==
    CASE mode # "default" -> ToGroups(mode, list, acc, model)
      [] mode = "default" /\ model.deepstack # {} ->
             LayerByLayer(model.ndec, 0..(model.ndec - 1), acc)
      [] OTHER -> << Group(acc, model.ndec, {}) >>
=============================================================================
