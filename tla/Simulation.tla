----------------------------- MODULE Simulation -----------------------------
(***************************************************************************)
(* One run of the simulator, from main.py to the row it writes: main()     *)
(* sets a System up (src/src/system.py), simulate() builds the graph of    *)
(* the model, prices its layers one by one on the device they are sent to, *)
(* and adds them up into the columns of output.csv.                        *)
(*                                                                         *)
(* What a device answers is the constant Cost; module Devices has the      *)
(* formulas.  Times are integers, quotients are rounded down.              *)
(***************************************************************************)
EXTENDS Integers, FiniteSetsExt, ModelGraph

CONSTANTS
    Calls,         \* the command lines
    Cost(_, _, _), \* <<device, its number, layer>>: [time, bound, energy]
    Hbms,          \* num_hbm
    GpuFlops,      \* peak_flops and peak_memory_bandwidth of a GPU and of
    GpuBandwidth,  \* the accelerator, for parallel feed-forward layers
    AccBandwidth,
    GpuCapacity,   \* memory of a GPU and of a stack of the accelerator, in
    HbmCapacity    \* elements

VARIABLES
    call,   \* the arguments of this run
    pc,     \* the next part of main and simulate
    xpus,   \* GPU.num_xpu
    shard,  \* the Transformer of the model
    acc,    \* the device of devices['Acc']
    groups, \* the groups of decoder layers, by device
    group,  \* the one being priced
    stage,  \* and its generation stage
    graph,  \* the layers being priced: a vision tower or a decoder layer
    ran,    \* what those of them that are priced cost
    time,   \* in _simulate_sum_group: the time so far,
    wrt_io_busy, \* and when the link is free again
    tiles,  \* the memo of optimal tiles of the GPU: key, inserted for an FC?
    s_perf, \* the columns of the prompt,
    g_perf, \* of generation,
    energy, \* and of its energy
    csv     \* the rows of output.csv; <<>> when there is no such file

(* The numbers and names of a command line and of the model it asks for. *)
ASSUME CallsAssumption ==
    /\ {Hbms, GpuFlops, GpuBandwidth, AccBandwidth, GpuCapacity, HbmCapacity}
           \subseteq Nat \ {0}
    /\ \A c \in Calls :
        /\ {c.ngpu, c.batch, c.lin, c.lout, c.model.ndec, c.model.hdim, c.model.q, c.model.kv,
            c.model.dhead, c.model.ff} \subseteq Nat \ {0}
        /\ {c.tp, c.num_attacc, c.chunk, c.samples, c.model.floor} \subseteq Nat
        /\ c.system \in {"dgx", "dgx-cpu", "dgx-attacc"}
        /\ c.routing \in {"default", "conservative", "optimistic", "list"}
        /\ c.model.deepstack \subseteq 0..(c.model.ndec - 1)
        /\ {c.pipe, c.ffopt, c.model.gated} \subseteq BOOLEAN

(* What the devices are asked in a run, and that they answer with numbers: *)
(* the layers of its graphs and, in chunks, the scores of its prompt.      *)
DefaultGpus == 8
OneQuery(l, keys) == [l EXCEPT !.m = 1, !.n = keys]
Elements(s) == {s[i] : i \in DOMAIN s}
BlocksOfRun(c) ==
    LET t == Transformer(c.model, c.ngpu) IN
    {BuildVision(t, c.batch, c.image)}
    \cup {BuildSum(t, c.batch, c.lin, hetero, idx) :
              hetero \in BOOLEAN, idx \in {{}, c.model.deepstack}}
    \cup {BuildGenStage(t, c.batch, c.lin, s, hetero) :
              s \in 1..(c.lout - 1), hetero \in BOOLEAN}
LayersOfRun(c) == UNION {Elements(block) : block \in BlocksOfRun(c)}
ChunksOfRun(c) == {OneQuery(l, keys) :
    l \in {l \in LayersOfRun(c) : l.name = "score"}, keys \in 1..c.lin}
Answers == [time : Nat, bound : {"compute", "memory", "link"}, energy : [1..6 -> Nat]]
(* A transfer spends its energy on the link alone, and the two norms of a  *)
(* decoder layer cost the same.                                            *)
WellAnswered(l, answer, ofNorm1) ==
    /\ answer \in Answers
    /\ l.type \in {"X2G", "G2G"} => \A unit \in 1..5 : answer.energy[unit] = 0
    /\ l.name = "norm2" => answer = ofNorm1
AnswersWell(device, number, l) ==
    WellAnswered(l, Cost(device, number, l), Cost(device, number, [l EXCEPT !.name = "norm1"]))
ASSUME AnswersAssumption ==
    \A c \in {c \in Calls : Splits(Transformer(c.model, c.ngpu))} :
        \A l \in LayersOfRun(c) \cup ChunksOfRun(c), device \in {"gpu", "cpu", "pim"},
           number \in {2, c.ngpu, DefaultGpus} :
              device = "gpu" \/ l.type \in {"MATMUL", "SOFTMAX", "X2G"}
                  => AnswersWell(device, number, l)

vars == <<call, pc, xpus, shard, acc, groups, group, stage, graph, ran, time,
          wrt_io_busy, tiles, s_perf, g_perf, energy, csv>>

SKeys == {"all", "matmul", "fc", "comm", "x2g", "softmax", "act", "norm"}
GKeys == SKeys \cup {"etc", "qkv", "prj", "ff", "g2g"}
EKeys == {"all", "offmem", "l2", "l1", "reg", "alu", "fc_mem", "fc_comp", "attn_mem",
          "attn_comp", "etc_mem", "etc_comp", "comm"}

(* The sum of a sequence of numbers. *)
Total(f) ==
    LET sum[i \in 0..Len(f)] == IF i = 0 THEN 0 ELSE sum[i - 1] + f[i] IN sum[Len(f)]

----------------------------------------------------------------------------
(* The columns a layer is added to, by its type and its name. *)

SColumnOf == [FC |-> {"fc"}, MATMUL |-> {"matmul"}, G2G |-> {"comm"}, X2G |-> {"comm", "x2g"},
              SOFTMAX |-> {"softmax"}, ACT |-> {"act"}, NORM |-> {"norm"}]
(* Mutant of SColumns: the transfers are missing from the column of all links. *)
SColumnsWithoutComm(l) == {"all"} \cup (IF l.type = "X2G" THEN {"x2g"} ELSE SColumnOf[l.type])
SColumns(l) == {"all"} \cup SColumnOf[l.type]
GColumns(l) ==
    {"all"} \cup CASE l.type = "FC" /\ FeedForward(l) -> {"fc", "ff"}
                   [] l.type = "FC" /\ l.name = "qkv" -> {"fc", "qkv"}
                   [] l.type = "FC" /\ l.name = "proj" -> {"fc", "prj"}
                   [] l.type = "MATMUL" -> {"matmul"}
                   [] l.type = "G2G" -> {"comm", "g2g"}
                   [] l.type = "X2G" -> {"comm", "x2g"}
                   [] l.type = "ACT" -> {"etc", "act"}
                   [] l.type = "NORM" -> {"etc", "norm"}
                   [] l.type = "SOFTMAX" -> {"softmax"}

Collect(keys, Columns(_), block, times) ==
    [k \in keys |-> Total([i \in DOMAIN block |-> IF k \in Columns(block[i]) THEN times[i] ELSE 0])]
(* Mutant of Accumulate: a group counts as one layer. *)
AccumulateOnce(dst, src, count) == [k \in DOMAIN dst |-> dst[k] + src[k]]
Accumulate(dst, src, count) == [k \in DOMAIN dst |-> dst[k] + src[k] * count]
Zero(keys) == [k \in keys |-> 0]

(* The energy of a layer by unit and, for each kind of layer, by use. *)
EnergyOf(l, e) ==
    LET computed == e[2] + e[3] + e[4] + e[5]
        Of(types, amount) == IF l.type \in types THEN amount ELSE 0
    IN  [all |-> e[1] + computed + e[6], offmem |-> e[1], l2 |-> e[2], l1 |-> e[3],
         reg |-> e[4], alu |-> e[5], comm |-> e[6],
         fc_mem |-> Of({"FC"}, e[1]), fc_comp |-> Of({"FC"}, computed),
         attn_mem |-> Of({"MATMUL", "SOFTMAX"}, e[1]),
         attn_comp |-> Of({"MATMUL", "SOFTMAX"}, computed),
         etc_mem |-> Of({"ACT", "NORM"}, e[1]), etc_comp |-> Of({"ACT", "NORM"}, computed)]

----------------------------------------------------------------------------
(* A prompt on PIM is priced in chunks, some of them sampled and the rest  *)
(* interpolated.                                                           *)

RoundHalfEven(a, b) ==
    LET q == a \div b r == a % b IN
    IF 2 * r > b \/ (2 * r = b /\ q % 2 = 1) THEN q + 1 ELSE q
SampleIndices(n, samples) ==
    IF n <= samples THEN 0..(n - 1)
    ELSE {0, n - 1} \cup {RoundHalfEven((n - 1) * (2 ^ pos - 1), Most(1, 2 ^ (samples - 1) - 1)) :
                              pos \in 0..(samples - 1)}
(* The value of y at x, or on the line through the sampled ones around it. *)
Interpolate(points, y, last, x) ==
    IF x \in points THEN y[x]
    ELSE LET below == points \cap 0..x
             above == points \cap x..last
             x0 == CHOOSE p \in below : \A q \in below : q <= p
             x1 == CHOOSE p \in above : \A q \in above : p <= q
         IN  y[x0] + ((y[x1] - y[x0]) * (x - x0)) \div (x1 - x0)

ChunkSize(length, chunk) == Most(1, Least(chunk, length))
(* Mutant of ChunkTokens: the last chunk is as long as the others. *)
ChunkTokensFull(length, size, c) == size
ChunkTokens(length, size, c) == Least(size, length - c * size)
AccumulatedL(length, size, c) == Least(length, (c + 1) * size)
Chunks(length, chunk) == CeilDiv(length, ChunkSize(length, chunk))

(* PerQuery is the price of one query against a number of keys. *)
ChunkPrices(length, chunk, PerQuery(_)) ==
    LET size == ChunkSize(length, chunk) IN
    [c \in 0..(Chunks(length, chunk) - 1) |->
        PerQuery(AccumulatedL(length, size, c)) * ChunkTokens(length, size, c)]
PrefillScore(n, samples, prices) ==
    Total([i \in 1..n |-> Interpolate(SampleIndices(n, samples), prices, n - 1, i - 1)])

----------------------------------------------------------------------------
(* What overlaps on PIM. *)

(* A time stretched by the share of a lone request's heads in the stacks. *)
ByEfficiency(t, heads, batch) ==
    LET perHbm == CeilDiv(heads, Hbms)
        stacks5 == IF perHbm <= 1 THEN 7 * Hbms ELSE 5 * Hbms * perHbm
    IN  IF batch >= 2 \/ heads <= 0 \/ stacks5 <= 5 * heads THEN t
        ELSE (t * stacks5) \div (5 * heads)
ApplyEffLat(block, times) ==
    LET heads == (CHOOSE l \in {block[i] : i \in DOMAIN block} : l.name = "score").pim
    IN  [i \in DOMAIN times |-> IF block[i].name \in {"score", "softmax", "context"}
                                THEN ByEfficiency(times[i], heads, call.batch) ELSE times[i]]

(* Attention hides the transfers and, at the upper level, the linear layers *)
(* around it, but for the share of one head of a GPU.                       *)
Pipeline(block, times, level) ==
    LET Of(Is(_)) == Total([i \in DOMAIN block |-> IF Is(block[i]) THEN times[i] ELSE 0])
        Named(name) == Of(LAMBDA l : l.name = name)
        heads == Most(1, shard.info.kv \div xpus)
        attn == Named("score") + Named("context") + Named("softmax")
        fc == Named("qkv") + Named("proj")
        x2g == Of(LAMBDA l : l.type = "X2G")
        moves == Cardinality({i \in DOMAIN block : block[i].type = "X2G"})
        Share(t) == t \div heads
        Hidden(num, den) == (attn * (heads - 1) * num) \div (heads * den)
        hideFc == level /\ attn > fc
        fcLonger == level /\ attn <= fc /\ fc > x2g
        x2gLonger == level /\ attn <= fc /\ fc <= x2g
        After(l, t) ==
            CASE l.name = "qkv" ->
                     IF hideFc \/ x2gLonger THEN Share(t)
                     ELSE IF fcLonger THEN t - Hidden(3, 4) ELSE t
              [] l.name = "proj" ->
                     IF hideFc \/ x2gLonger THEN Share(t)
                     ELSE IF fcLonger THEN t - Hidden(1, 4) ELSE t
              [] l.type = "X2G" ->
                     (IF fcLonger \/ (attn > x2g /\ ~x2gLonger) THEN Share(x2g)
                      ELSE x2g - Hidden(1, 1)) \div Most(1, moves)
              [] l.name = "softmax" -> 0
              [] OTHER -> t
    IN  [i \in DOMAIN times |-> After(block[i], times[i])]

(* The accelerator takes a share of the feed-forward layers. *)
(* Mutant of FfShare: the accelerator's time is added instead of its speed. *)
FfShareUpsideDown(bound, t) ==
    IF bound = "compute" THEN (t * (GpuFlops + AccBandwidth)) \div GpuFlops
    ELSE (t * (GpuBandwidth * call.batch + AccBandwidth)) \div (GpuBandwidth * call.batch)
FfShare(bound, t) ==
    IF bound = "compute" THEN (t * GpuFlops) \div (GpuFlops + AccBandwidth)
    ELSE (t * GpuBandwidth * call.batch) \div (GpuBandwidth * call.batch + AccBandwidth)
FfParallel(block, times, bounds) ==
    [i \in DOMAIN times |-> IF FeedForward(block[i]) THEN FfShare(bounds[i], times[i])
                            ELSE times[i]]

----------------------------------------------------------------------------
(* The groups of this run, and the layers of a vision tower, of a prompt   *)
(* and of a generation stage.                                              *)

AcceleratorRoutingName == acc
Routed == Groups(call.routing, call.list, AcceleratorRoutingName, call.model)
Device == groups[group].device
Vision == BuildVision(shard, call.batch, call.image)
SumBlock(part) == BuildSum(shard, call.batch, call.lin, part.device # "gpu", part.idx)
GenBlock(part, s) == BuildGenStage(shard, call.batch, call.lin, s, part.device # "gpu")

(* _select_acc_device *)
SelectDevice(l) ==
    IF pc # "vision" /\ Device # "gpu" /\ l.type \in {"MATMUL", "SOFTMAX", "X2G"}
    THEN acc ELSE "gpu"
Number(device) == IF device = "cpu" THEN 2 ELSE xpus
Price(device, l) ==
    LET answer == Cost(device, Number(device), l)
        PerQuery(keys) == Cost(device, Number(device), OneQuery(l, keys))
        Sampled(Part(_)) == PrefillScore(Chunks(l.n, call.chunk), call.samples,
            ChunkPrices(l.n, call.chunk, LAMBDA keys : Part(PerQuery(keys))))
    IN  IF pc = "sum" /\ Device = "pim" /\ l.name = "score"
        THEN [answer EXCEPT !.time = Sampled(LAMBDA a : a.time),
                            !.energy = [e \in 1..6 |-> Sampled(LAMBDA a : a.energy[e])]]
        ELSE answer

Memoised(l) == l.type \notin {"X2G", "G2G"}
(* Mutant of TileKeyOf: the inner size is left out of the key. *)
TileKeyOfOutput(l) == <<l.m, l.n, l.ops>>
TileKeyOf(l) == <<l.m, l.n, l.k, l.ops>>
RememberTile(device, l) ==
    IF device = "gpu" /\ Memoised(l) /\ \A t \in tiles : t.key # TileKeyOf(l)
    THEN tiles \cup {[key |-> TileKeyOf(l), fc |-> l.type = "FC"]} ELSE tiles

Times == [i \in DOMAIN ran |-> ran[i].time]
Bounds == [i \in DOMAIN ran |-> ran[i].bound]
BlockEnergy ==
    [k \in EKeys |-> Total([i \in DOMAIN ran |-> EnergyOf(graph[i], ran[i].energy)[k]])]

----------------------------------------------------------------------------
(* main *)

Row(run) == [run |-> run, gpus |-> xpus, s |-> s_perf, g |-> g_perf, energy |-> energy]

(* Any earlier run may have left its row behind. *)
Init ==
    /\ call \in Calls
    /\ pc = "main" /\ acc = "gpu" /\ xpus = call.ngpu
    /\ shard = Transformer(call.model, call.ngpu)
    /\ groups = <<>> /\ group = 1 /\ stage = 1
    /\ graph = <<>> /\ ran = <<>> /\ time = 0 /\ wrt_io_busy = 0 /\ tiles = {}
    /\ s_perf = Zero(SKeys) /\ g_perf = Zero(GKeys) /\ energy = Zero(EKeys)
    /\ csv \in {<<>>, <<Row("earlier")>>}

Priced == <<groups, group, stage, graph, ran, time, wrt_io_busy, tiles, s_perf, g_perf,
            energy>>
Simulated == <<Priced, csv>>

(* shared/sim_runner.py removes the file before it starts main, and takes   *)
(* the last row of it when main has ended well.                             *)
StartBySimRunner ==
    /\ pc = "main" /\ csv # <<>>
    /\ csv' = <<>>
    /\ UNCHANGED <<call, pc, xpus, shard, acc, Priced>>
LastRow == csv[Len(csv)]

(* Only deployments with as many accelerators and shards as GPUs are        *)
(* supported; for others the assertion comes before the old file goes.      *)
Supported == call.num_attacc = call.tp /\ call.tp = call.ngpu
Main ==
    /\ pc = "main"
    /\ IF Supported
       THEN /\ pc' = CASE call.system = "dgx" -> "build"
                       [] call.system = "dgx-cpu" -> "set_xpu"
                       [] call.system = "dgx-attacc" -> "set_accelerator"
            /\ csv' = <<>>
       ELSE pc' = "failed" /\ UNCHANGED csv
    /\ UNCHANGED <<call, xpus, shard, acc, Priced>>

(* dgx-cpu replaces the GPUs by the default number of them; the model keeps *)
(* the shards it was built with (only its field tp, which nothing below     *)
(* reads, is assigned).                                                     *)
SetXpu ==
    /\ pc = "set_xpu"
    /\ xpus' = DefaultGpus
    /\ pc' = "set_accelerator"
    /\ UNCHANGED <<call, shard, acc, Simulated>>

SetAccelerator ==
    /\ pc = "set_accelerator"
    /\ acc' = IF call.system = "dgx-attacc" THEN "pim" ELSE "cpu"
    /\ pc' = "build"
    /\ UNCHANGED <<call, xpus, shard, Simulated>>

(* Transformer.build; _split asserts. *)
Build ==
    /\ pc = "build"
    /\ groups' = Routed
    /\ \/ ~Splits(shard) /\ pc' = "failed" /\ graph' = <<>>
       \/ /\ Splits(shard)
          /\ IF Vision # <<>> THEN pc' = "vision" /\ graph' = Vision
             ELSE pc' = "sum" /\ graph' = SumBlock(groups'[1])
    /\ UNCHANGED <<call, xpus, shard, acc, group, stage, ran, time, wrt_io_busy, tiles,
                   s_perf, g_perf, energy, csv>>

----------------------------------------------------------------------------
(* simulate *)

Run == <<call, xpus, shard, acc, groups>>
Kept == <<Run, group, stage, graph, csv>>

(* The next layer of the vision tower or of the prompt's decoder layer. *)
SumLayer ==
    /\ pc \in {"vision", "sum"} /\ Len(ran) < Len(graph)
    /\ LET l == graph[Len(ran) + 1]
           device == SelectDevice(l)
           price == Price(device, l)
           wait == IF l.type = "X2G" THEN Most(wrt_io_busy - time, 0) ELSE 0
       IN  /\ ran' = Append(ran, [price EXCEPT !.time = @ + wait])
           /\ time' = time + price.time + wait
           /\ wrt_io_busy' = IF l.type = "X2G" THEN time + price.time + wait ELSE wrt_io_busy
           /\ tiles' = RememberTile(device, l)
    /\ UNCHANGED <<Kept, pc, s_perf, g_perf, energy>>

LayersOf(next, g, s) ==
    CASE next = "sum" -> SumBlock(groups[g])
      [] next = "gen" -> GenBlock(groups[g], s)
      [] OTHER -> <<>>
(* Mutant of NextBlock: the link's clock survives its block. *)
NextBlockKeepsLink(next, g, s) ==
    /\ pc' = next /\ group' = g /\ stage' = s
    /\ graph' = LayersOf(next, g, s) /\ ran' = <<>> /\ time' = 0 /\ UNCHANGED wrt_io_busy
NextBlock(next, g, s) ==
    /\ pc' = next /\ group' = g /\ stage' = s
    /\ graph' = LayersOf(next, g, s) /\ ran' = <<>> /\ time' = 0 /\ wrt_io_busy' = 0

(* A vision tower costs its layers and a floor, once. *)
EndVision ==
    /\ pc = "vision" /\ Len(ran) = Len(graph)
    /\ s_perf' = [Accumulate(s_perf, Collect(SKeys, SColumns, graph, Times), 1)
                      EXCEPT !.all = @ + call.model.floor]
    /\ NextBlock("sum", group, stage)
    /\ UNCHANGED <<Run, tiles, g_perf, energy, csv>>

(* After the last stage of a group comes the next group, or the row. *)
(* Mutant of Advance: the groups are counted past the last. *)
AdvancePastLast == NextBlock(IF group < Len(groups) THEN "sum" ELSE "write", group + 1, 1)
Advance == IF group < Len(groups) THEN NextBlock("sum", group + 1, 1)
           ELSE NextBlock("write", group, 1)

EndSum ==
    /\ pc = "sum" /\ Len(ran) = Len(graph)
    /\ LET times == IF Device = "pim" THEN ApplyEffLat(graph, Times) ELSE Times
       IN  s_perf' = Accumulate(s_perf, Collect(SKeys, SColumns, graph, times),
                                groups[group].count)
    /\ IF call.lout > 1 THEN NextBlock("gen", group, 1) ELSE Advance
    /\ UNCHANGED <<Run, tiles, g_perf, energy, csv>>

GenLayer ==
    /\ pc = "gen" /\ Len(ran) < Len(graph)
    /\ LET l == graph[Len(ran) + 1]
           device == SelectDevice(l)
       IN  /\ ran' = Append(ran, Price(device, l))
           /\ tiles' = RememberTile(device, l)
    /\ UNCHANGED <<Kept, pc, time, wrt_io_busy, s_perf, g_perf, energy>>

(* What the layers of a stage take once they overlap. *)
Overlapped ==
    LET slowed == ApplyEffLat(graph, Times)
        piped == Pipeline(graph, slowed, call.pipe)
    IN  IF Device # "pim" THEN Times
        ELSE IF call.ffopt THEN FfParallel(graph, piped, Bounds) ELSE piped

EndStage ==
    /\ pc = "gen" /\ Len(ran) = Len(graph)
    /\ g_perf' = Accumulate(g_perf, Collect(GKeys, GColumns, graph, Overlapped),
                            groups[group].count)
    /\ energy' = Accumulate(energy, BlockEnergy, groups[group].count)
    /\ IF stage < call.lout - 1 THEN NextBlock("gen", group, stage + 1) ELSE Advance
    /\ UNCHANGED <<Run, tiles, s_perf, csv>>

(* The throughput printed at the end of simulate is a quotient by the time *)
(* of generation: where nothing is generated that raises ZeroDivisionError, *)
(* and main ends without a row.                                             *)
GeneratesNothing == g_perf.all = 0
NoThroughput ==
    /\ pc = "write" /\ GeneratesNothing
    /\ pc' = "raised"
    /\ UNCHANGED <<call, xpus, shard, acc, Simulated>>

(* write_csv appends to what is there. *)
(* Mutant of WriteRow: a row is written for a run that generates nothing. *)
WriteRowAnyway ==
    /\ pc = "write"
    /\ csv' = Append(csv, Row("this"))
    /\ pc' = "done"
    /\ UNCHANGED <<call, xpus, shard, acc, Priced>>
WriteRow ==
    /\ pc = "write" /\ ~GeneratesNothing
    /\ csv' = Append(csv, Row("this"))
    /\ pc' = "done"
    /\ UNCHANGED <<call, xpus, shard, acc, Priced>>

Finished == pc \in {"done", "raised", "failed"} /\ UNCHANGED vars

Next == \/ StartBySimRunner \/ Main \/ SetXpu \/ SetAccelerator \/ Build
        \/ SumLayer \/ EndVision \/ EndSum \/ GenLayer \/ EndStage
        \/ NoThroughput \/ WriteRow \/ Finished

Spec == Init /\ [][Next]_vars

----------------------------------------------------------------------------
(* Memory, in elements of a shard: _compute_mem_components and its callers. *)

WeightsPerLayer(model) ==
    LET t == Transformer(model, 1) IN
    model.hdim * QkvOut(t) + QOut(t) * model.hdim
        + model.hdim * model.ff * (IF model.gated THEN 3 ELSE 2)
WeightMemory == (call.model.ndec * WeightsPerLayer(call.model)) \div shard.fc_tp
(* Mutant of KvMemory: the last token is kept although nothing reads it. *)
KvMemoryWithLast(batch) ==
    batch * ((call.model.ndec * 2 * (call.lin + call.lout) * KvOut(shard)) \div shard.attn_tp)
KvMemory(batch) ==
    batch * ((call.model.ndec * 2 * (call.lin + call.lout - 1) * KvOut(shard))
                 \div shard.attn_tp)
(* The largest of the intermediate results of a layer, next to the scores. *)
TempMemory(batch) ==
    LET hdim == call.model.hdim
        scores == (call.lin + call.lout - 1) * call.model.q
    IN  batch * (Max({hdim + scores, 2 * hdim, 2 * scores, call.model.ff + hdim}) + scores)

KvOnAttacc == acc = "pim"
KvOnGpu(batch) == IF KvOnAttacc THEN 0 ELSE KvMemory(batch)
AttaccKvCapacity(batch) == IF KvOnAttacc THEN KvMemory(batch) ELSE 0

(* get_capacity_breakdown: the largest batch, as seen from a given one. *)
Truncated(a, b) == IF a >= 0 THEN a \div b ELSE -((-a) \div b)
(* Mutant of KvPerRequest: what a batch keeps counts for each request. *)
KvPerRequestOfBatch(kv, batch) == kv
KvPerRequest(kv, batch) == kv \div batch
MaxBatch(batch) ==
    IF KvOnAttacc
    THEN (HbmCapacity * Hbms * call.num_attacc)
             \div KvPerRequest(AttaccKvCapacity(batch), batch)
    ELSE Truncated(GpuCapacity - WeightMemory - TempMemory(batch),
                   KvPerRequest(KvOnGpu(batch), batch))

----------------------------------------------------------------------------
(* Properties. *)

(* Every variable stays in its type: the columns are numbers, the memo is  *)
(* keyed by sizes, the answers kept are those of a prefix of the block.    *)
TypeOK ==
    /\ pc \in {"main", "set_xpu", "set_accelerator", "build", "vision", "sum", "gen",
               "write", "done", "raised", "failed"}
    /\ xpus \in Nat \ {0} /\ acc \in {"gpu", "cpu", "pim"}
    /\ groups # <<>> => group \in DOMAIN groups
    /\ stage \in 1..Most(1, call.lout - 1)
    /\ time \in Nat /\ wrt_io_busy \in Nat
    /\ pc \in {"vision", "sum", "gen"} => Len(ran) <= Len(graph)
    /\ DOMAIN s_perf = SKeys /\ DOMAIN g_perf = GKeys /\ DOMAIN energy = EKeys

(* The time at which the link is free again (wrt_io_busy) never lies ahead *)
(* of the time of the layers, so no transfer of a prompt ever waits.       *)
LinkNeverWaits == wrt_io_busy <= time

(* A run that writes its row generates tokens (lout > 1) and leaves it as  *)
(* the only row of output.csv, with every decoder layer in it exactly      *)
(* once: the two norms that each has, on whatever device its attention     *)
(* runs, add up over the groups.  A run that ends in ZeroDivisionError     *)
(* leaves no row, neither its own nor one of an earlier run.               *)
CountsEveryLayer ==
    /\ pc = "raised" => csv = <<>>
    /\ pc = "done" =>
      LET row == LastRow
          Norms(tokens) ==
              2 * call.model.ndec
                * Cost("gpu", xpus, Layer("norm1", "NORM", tokens, call.model.hdim, 1, 1)).time
          OfVision == Total([i \in DOMAIN Vision |->
              IF Vision[i].type = "NORM" THEN Cost("gpu", xpus, Vision[i]).time ELSE 0])
      IN  /\ call.lout > 1
          /\ Len(csv) = 1 /\ row.run = "this"
          /\ row.s.norm = OfVision + Norms(call.batch * call.lin)
          /\ row.g.norm = (call.lout - 1) * Norms(call.batch)

(* The columns of output.csv add up to its totals, those of the energy in  *)
(* two ways, by unit and by kind of layer; the floor of a vision model is  *)
(* in the total only.                                                      *)
ColumnsAddUp ==
    LET S == s_perf G == g_perf E == energy
        floor == IF call.model.floor > 0 /\ pc \in {"sum", "gen", "write", "done", "raised"}
                    /\ Vision # <<>> THEN call.model.floor ELSE 0
    IN  /\ S.all = S.fc + S.matmul + S.comm + S.softmax + S.act + S.norm + floor
        /\ G.all = G.fc + G.matmul + G.comm + G.etc + G.softmax
        /\ G.fc = G.ff + G.qkv + G.prj /\ G.comm = G.g2g + G.x2g /\ G.etc = G.act + G.norm
        /\ E.all = E.offmem + E.l2 + E.l1 + E.reg + E.alu + E.comm
        /\ E.all = E.fc_mem + E.fc_comp + E.attn_mem + E.attn_comp + E.etc_mem + E.etc_comp
                     + E.comm

(* _pipeline and _ff_parallel only hide time: no layer gets slower, and    *)
(* unless linear layers are hidden too (pipe) none gets below nothing.     *)
PipelineOnlyShortens ==
    (pc = "gen" /\ Len(ran) = Len(graph) /\ Device = "pim") =>
      LET slowed == ApplyEffLat(graph, Times)
          times == Overlapped
      IN  \A i \in DOMAIN times :
              /\ graph[i].type # "X2G" => times[i] <= slowed[i]
              /\ ~call.pipe => times[i] >= 0
              /\ times[i] <= Total(slowed)

(* Sampling the chunks of a prompt (_sample_indices, _interp_scalar) never *)
(* charges more queries than it has, at a price that is constant or grows  *)
(* with the keys, and charges all when no chunk is short or none skipped.  *)
PrefillPricesThePrompt ==
    pc = "build" =>
    LET chunks == Chunks(call.lin, call.chunk)
        Estimate(samples, PerQuery(_)) ==
            PrefillScore(chunks, samples, ChunkPrices(call.lin, call.chunk, PerQuery))
        Exact(PerQuery(_)) == Estimate(chunks, PerQuery)
        noneShort == call.lin % ChunkSize(call.lin, call.chunk) = 0
        Prices(PerQuery(_)) ==
            /\ Estimate(call.samples, PerQuery) <= Exact(PerQuery)
            /\ noneShort \/ chunks <= call.samples =>
                   Estimate(call.samples, PerQuery) = Exact(PerQuery)
    IN  /\ Exact(LAMBDA keys : 1) = call.lin
        /\ Prices(LAMBDA keys : 1) /\ Prices(LAMBDA keys : keys)

(* The memo of tiles ignores the type of a layer, which decides how many   *)
(* thread blocks a tile makes: no tile searched for a linear layer is ever *)
(* served to another layer, or the other way round.                        *)
TileMemoAgrees ==
    (pc \in {"vision", "sum", "gen"} /\ Len(ran) < Len(graph)) =>
      LET l == graph[Len(ran) + 1] IN
      SelectDevice(l) = "gpu" /\ Memoised(l) =>
        \A t \in tiles : t.key = TileKeyOf(l) => t.fc = (l.type = "FC")

(* The KV cache that the capacity formula counts, on the GPU or on the     *)
(* accelerator, is what the last generation stage reads in all layers.     *)
KvAsRead ==
    (pc = "gen" /\ stage = call.lout - 1 /\ ran = <<>>) =>
      KvOnGpu(call.batch) + AttaccKvCapacity(call.batch)
        = call.model.ndec * Total([i \in DOMAIN graph |->
              IF graph[i].type = "MATMUL" THEN graph[i].n * graph[i].k * graph[i].pim ELSE 0])

(* The ceiling get_capacity_breakdown reports turns no batch away that      *)
(* fits: whose weights, KV cache and intermediate results are within the    *)
(* memory of the GPU, and of the stacks of its accelerator, that hold them. *)
Fits(batch) ==
    /\ WeightMemory + KvOnGpu(batch) + TempMemory(batch) <= GpuCapacity
    /\ AttaccKvCapacity(batch) <= HbmCapacity * Hbms
CeilingTurnsNobodyAway(batches) ==
    pc = "build" => \A b, c \in batches : b <= c /\ Fits(c) => c <= MaxBatch(b)

(* CeilingTurnsNobodyAway for the models whose weights TLC's integers can  *)
(* count: a batch that fits is never above max_batch_at_default_L.         *)
CeilingOfSmallModels == call.model.hdim <= 16 => CeilingTurnsNobodyAway(1..8)

(* A token sends the same to the accelerator in the prompt and in          *)
(* generation, all shards of Q, K and V together, and gets back what the   *)
(* heads of an attention shard produce.                                    *)
TransfersAgree ==
    (pc = "sum" /\ ran = <<>> /\ Device # "gpu") =>
      LET Moves(block) == {i \in DOMAIN block : block[i].type = "X2G"}
          Sent(block) == Total([i \in DOMAIN block |->
              IF i \in Moves(block) /\ block[i].name # "comm_x2g_return" THEN block[i].n ELSE 0])
          Returned(block) == Total([i \in DOMAIN block |->
              IF block[i].name = "comm_x2g_return" THEN block[i].n ELSE 0])
          Heads(block) == Total([i \in DOMAIN block |->
              IF block[i].name = "context" THEN block[i].ops * block[i].n ELSE 0])
      IN  \A block \in {graph, GenBlock(groups[group], 1)} :
              /\ Sent(block) * shard.fc_tp = QkvOut(shard)
              /\ Returned(block) * call.batch = Heads(block)

(* However a DeepStack model is routed, each of its DeepStack layers adds  *)
(* the features of the vision tower in exactly one group.                  *)
DeepStackOnce ==
    (pc = "sum" /\ group = 1 /\ ran = <<>>) =>
      Total([g \in DOMAIN groups |-> groups[g].count
          * Cardinality({i \in DOMAIN SumBlock(groups[g]) : SumBlock(groups[g])[i].name = "deepstack_add"})])
        = Cardinality(call.model.deepstack)

(* The linear layers of a decoder layer hold the weights that              *)
(* _compute_mem_components counts.                                         *)
WeightsInGraph ==
    (pc = "sum" /\ ran = <<>>) =>
      shard.fc_tp * Total([i \in DOMAIN graph |->
          IF graph[i].type = "FC" THEN graph[i].n * graph[i].k ELSE 0])
        = WeightsPerLayer(call.model)

(* Routing promises the accelerator all layers, or those of its list.      *)
Promise ==
    LET layers == IF call.list = {} THEN DefaultLayerList ELSE call.list
        listed == Cardinality(layers \cap 0..(call.model.ndec - 1))
        all == \/ call.routing = "default"
               \/ call.routing = "conservative" /\ call.model.deepstack = {}
        n == IF call.system = "dgx" THEN 0 ELSE IF all THEN call.model.ndec ELSE listed
    IN  [acc |-> n, gpu |-> call.model.ndec - n]

(* The decoder layers on a side of the groups that are yet to be priced.   *)
Pending(past) ==
    IF pc \in {"main", "set_xpu", "set_accelerator", "build", "failed"} THEN Promise
    ELSE [side \in {"gpu", "acc"} |-> Total([g \in DOMAIN groups |->
             IF g \notin past /\ (groups[g].device = "gpu" <=> side = "gpu")
             THEN groups[g].count ELSE 0])]

Over == pc \in {"write", "done", "raised"}
TokensPast == {g \in DOMAIN groups : g < group \/ Over}
PromptPast == TokensPast \cup {g \in DOMAIN groups : g = group /\ pc = "gen"}
Ledger == INSTANCE WorkLedger WITH
    promise <- Promise,
    prompt <- Pending(PromptPast),
    tokens <- IF call.lout = 1 THEN [side \in {"gpu", "acc"} |-> 0]
              ELSE Pending(TokensPast),
    row <- \E k \in DOMAIN csv : csv[k].run = "this"

(* The loop over the groups implements the ledger: no decoder layer is     *)
(* left out, priced twice or priced on the other device, and a row is      *)
(* written only when none is left to price.                                *)
ImplementsLedger == Ledger!Spec
=============================================================================
