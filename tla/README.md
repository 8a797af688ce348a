# A TLA+ model of the AttAcc VLM simulator

The repository estimates the latency and energy of language and vision-language
models on GPUs with HBM-based processing in memory (AttAcc). A Python program
builds the layers of a model, costs them device by device, and for the attention
layers that run in memory generates a command trace, runs a cycle-level
simulation of an HBM3-PIM memory (ramulator2 with the sources of
`src/pim_ramulator_src`) and keeps the result in a table on disk.

This directory holds TLA+ modules for the parts of it whose correctness depends
on state, order or failure, the configurations TLC checks them with, and proofs
TLAPS checks. `PROJECT.json` maps every definition to the lines it models.

Contents: [inventory](#1-the-system), [modules](#2-modules-and-how-they-correspond-to-the-code),
[runs](#3-runs), [bounds](#4-bounds), [assumptions](#5-abstractions-and-assumptions),
[fairness](#6-fairness), [proofs](#7-proofs), [divergences](#8-where-code-and-text-disagree),
[not modelled](#9-not-modelled), [plan](#10-plan).

## 1. The system

    run_all -> run_calibration, sweeps -> sim_runner (one process per cell)
      |           |-> vLLM, results/*.json          |-> output.csv
      v                                             v
    main.py -> System -> Model graph (layers)
                 |-> devices: xPU (roofline), PIM
                                 |-> Ramulator wrapper <-> ramulator.out
                                        |-> trace generator -> trace file
                                        |-> ramulator2 process
                                              trace frontend -> PIM DRAM system
                                                 -> controller (one per channel)
                                                      scheduler, refresh manager
                                                      -> HBM3-PIM device

| component (source) | state it keeps | operations | what makes it correct |
|---|---|---|---|
| HBM3-PIM device (`HBM3-PIM.cpp`, `patches/src_dram_lambdas_{action,preq}.patch`) | open rows of every bank; earliest issue times | prerequisite of a command, issue, readiness, row hit | a bank has one row open; banks a broadcast drives agree; a request's open/close commands lead to its final one |
| PIM scheduler (`pim_scheduler.cpp`) | none | best request of a buffer | barriers hold PIM requests back; nobody is overtaken wrongly |
| Controller (`hbm3_pim_controller.cpp`) | active, priority, read, write and PIM buffers; pending reads; write mode; `is_pim` | `send`, `priority_send`, `tick` (complete a read, refresh, two command slots) | no request lost or served twice; active rows kept; writes to one address in order; nobody starved |
| Refresh manager (`all_bank_refresh_hbm3.cpp`, `no_refresh.cpp`) | clock | queue one refresh per pseudochannel when due | refreshes get through and let the others go on |
| DRAM system, frontend, main loop (`PIM_DRAM_system.cpp`, `pim_loadstore_trace.cpp`, `patches/src_main.patch`) | position in the trace | send until a buffer is full; tick; stop when drained | every line sent once; the simulation ends |
| Trace generators (`trace_gen/gen_trace_attacc_{bank,bg,buffer}.py`) | lists of commands, output so far | list the commands of each iteration; overlap two iterations | each command after what it depends on, with a barrier; each output computed once |
| Ramulator wrapper (`src/src/ramulator_wrapper.py`) | `ramulator.out`, the table in memory, temporary files | look up, generate, simulate, parse, log | an answer is the result of simulating what was asked; no failed run logged; nothing logged is lost |
| Command line (`main.py`) | the arguments, `output.csv` | set the deployment up, simulate, append a row | one row, of this run, or an error and none |
| System (`src/src/system.py`) | number of GPUs, the device behind "Acc", columns of times and energies, clock of the link | set_xpu, set_accelerator, simulate group by group (vision tower, prompt, generation stages), overlap, sampling of prompts, memory and ceilings | every decoder layer is routed, priced and counted once; columns agree with their totals; overlap only hides time; samples charge the whole prompt; formulas count the memory the layers read |
| Model graph and routing (`model.py`, `config.py`) | shards (`tp`, `fc_tp`, `attn_tp`), the decoder | build prompt, generation and vision layers; cut the decoder into groups | sizes of neighbouring layers, of transfers and of the memory formulas agree |
| Devices (`devices.py`) | the memo of optimal tiles | tile search, traffic, time and energy of a layer | a memoised tile is the one a search would find; traffic of the caches is nested |
| Experiments of May (`260511_additional_exp`) | `results/*.json`, models on the GPU, the summary of a run | run_all step by step, run_calibration cell by cell, sweeps, framing of a sweep | files say what they were made of; nothing stale is read as fresh; every cell is kept once; cells asked for are feasible |
| Experiments of June, tests, documents, results | csv files | measure, compare | - |

How they interact: the wrapper starts generators and simulator as processes and
reads their output; frontend, system and controller call each other within one
main loop (one call of `tick` each per cycle); the controller hands a read's
completion back through a callback; refresh manager and frontend share the
controller's buffers. The experiment scripts run one after the other and share
only the files in `results/`; each detects the GPU of the machine for itself, and
each cell is a process of its own that removes `output.csv`, runs `main.py` and
reads the last row.

What is hard in it: two command slots per cycle working on buffers the first one
has just changed; requests moved between buffers while iterators point at them;
closing commands that reach more banks than they address; requests that can be
overtaken by others of higher priority; barriers that opening and closing
commands may pass; loops over pairs of heads with partial groups at their ends;
a file rewritten in place by processes that may be killed; sizes that are written
down several times (graph, transfers, memory, sweeps) and must agree; accumulators
and clocks that must be reset between groups and blocks; sums over groups that are
simulated once and multiplied; files a later script reads although the step that
refreshes them was skipped, failed or was killed. `PROJECT.json` lists
each hazard at its line with the property that watches it.

## 2. Modules and how they correspond to the code

| module | models |
|---|---|
| `HBM3PIM` | banks, commands, `PreqCommand` (the `Preq` lambdas), `RowsAfter` (the `Action` lambdas), row hits; pure operators |
| `HBM3PIMDevice` | the device driven in any order by any set of requests: what holds of row states whatever the scheduler does |
| `PIMScheduler` | `BestRequest` = `get_best_request`, `Better` = `compare`; pure operators |
| `HBM3PIMController` | the controller of a channel with its refresh manager |
| `PIMSystem` | one simulation: frontend, memory system of one channel, main loop; the properties of the whole |
| `PIMService` | the abstract specification: what the memory system promises the frontend |
| `AttaccTrace` | the three trace generators: order and number of their commands |
| `TraceAddresses` | the addresses of those commands, and the banks and columns a command reaches there; pure operators |
| `RamulatorCache` | the wrapper's memo over a sequence of processes |
| `ModelGraph` | the table of models, the shards, the layers of prompt, generation and vision tower, visual tokens, routing; pure operators |
| `Devices` | tile search, traffic, times and energies of GPU, CPU and PIM; pure operators |
| `Simulation` | one run of `main.py`: setup, pricing layer by layer, overlap, sampling, columns, the row; the memory formulas |
| `PricedSimulation` | a run whose layers are priced by the formulas of `Devices`, and what its tiles promise |
| `WorkLedger` | the abstract specification: what a run promises about decoder layers |
| `Sweeps` | what each script of run_all asks the simulator for; pure operators |
| `ExperimentRunner` | run_all, run_calibration and the scripts that share files, run after run on one machine |
| `MCDevice`, `MCSystem`, `MCTrace`, `MCCache`, `MCSim`, `MCRunner` | instances for TLC: traffic classes, traces, arguments, configurations, command lines, machines |
| `HBM3PIMDevice_proofs`, `PIMSystem_proofs`, `AttaccTrace_proofs`, `RamulatorCache_proofs`, `Simulation_proofs`, `Devices_proofs`, `ExperimentRunner_proofs` | theorems |
| `InductionLemmas` | lemmas the theorems rest on: induction over finite sets, largest members, folds |

They compose like this: `HBM3PIM` <- `PIMScheduler` <- `HBM3PIMController` <-
`PIMSystem`, which implements `PIMService`; `TraceAddresses` <- `AttaccTrace`;
`ModelGraph` <- `Simulation`, which implements `WorkLedger`; `Simulation` and `Devices`
<- `PricedSimulation`; `ModelGraph` <- `Sweeps` <- `ExperimentRunner`.

**Device.** `rows[b]` is the key set of `m_row_state` of bank b; the bank is
`Opened` iff it is not empty. It is a set because `ACTAB`, `ACTSB`, `ACTPB` and
`ACT` add a row without removing one: that at most one is ever there is a
property, not a type. `FirstLackingIsClosed` is the return from inside the nested
loops over the node tree: the first bank in visiting order that lacks the row
decides between opening and closing.

**Controller.** A memory cycle is three steps: `Cycle` or
`CycleWithRefresh` (completion of a read, then the refresh manager), and
`Slot` twice. `Slot` has one alternative per outcome of `schedule_request` /
`schedule_sec_request`: `ServeActive`, `ServePriority`, `WaitForPriority` (the
early return), `ServePim`, `ServeReadWrite`, `ServeNone`; what follows in `tick`
- issue, leave or move to the active buffer, pending - is part of the same step
(`Issue`), the veto of closing commands as well (`IssueUnlessVetoed`). `first` is
the type of the first command as the second slot reads it; after the first slot
has removed its request that is a read from an erased list node, so `first` is
any type then. `served`, `completed` and `slots` record what happened; `slots`
also keeps two row commands out of one cycle after an opening one.

**System.** The frontend sends one line per step while it can (`FrontendSend`)
and then yields (`FrontendDone`): its `tick` loops until a send fails. Requests
sent in one tick share their arrival time (`burst`). The main loop ends when the
frontend is finished and nothing is pending (`turn = "exit"`); a refresh that
finds no room in the priority buffer throws (`phase = "thrown"`).

**Service.** `PIMService` has no buffers: lines are accepted in order, served at
most once, PIM lines in barrier order, reads forwarded only from an unserved
write to their address, data delivered once after service. `PIMSystem` implements
it with `trace, sent, served, completed` mapped to themselves.

**Trace generators.** Commands that are written together are one block
(the MACs of an output group, the moves after them, a softmax, a barrier in every
channel), named by what it is, its iteration and its number; commands of the two
input vectors are kept single since they are written in slices of computed size.
The sections are the loops of `run_attention`, one beat per step. The three
generators share this structure; they differ in the counts (`Units`, `Columns`,
`Words`, `Moves`).

`TraceAddresses` keeps the arithmetic on the table `HBM_GS` and takes the mapper
as cutting an address into those fields.

**One run of the simulator.** `Main`, `SetXpu`, `SetAccelerator` and `Build` are
the parts of `main()` up to `simulate`; `groups` is what `Routing` made, `graph`
the list of layers the loops walk (the vision tower, a prompt's decoder layer, or
that of a generation stage) and `ran` what those priced so far have cost.
`SumLayer` and `GenLayer` are one turn of `_simulate_sum_group` and
`_simulate_gen_stage`, with the choice of the device, the wait for the link and
the memo of tiles; `EndVision`, `EndSum` and `EndStage` are what follows the loop:
`_apply_eff_lat`, `_pipeline`, `_ff_parallel`, `_collect_*` and `_accumulate`.
`Price` samples the score layer of a prompt on PIM (`PrefillScore`). `shard` is the
Transformer as it was constructed; it stays when `set_xpu` replaces the GPUs. What
a device answers is the constant `Cost`. Once all groups are priced `simulate` prints a
throughput, a quotient by the time of generation, before the row exists:
`NoThroughput` is the ZeroDivisionError of a run whose time of generation is zero (always
so with `--lout 1`, which has no stage) and leaves no row; `WriteRow` is what follows
otherwise. Times are rounded down in the model, so other runs might end there too if
everything they generate cost less than a unit; in run `sim` none but those with
`lout = 1` do.

**Ledger.** `WorkLedger` counts, by device, decoder layers whose prompt or tokens
are yet to be priced. A step takes some of them away, tokens never before their
prompt; a row is written only when nothing is left. The refinement computes the
promise from the command line alone (`Promise`: all layers, or those of the list,
on the accelerator) and what is pending from the groups and the loop's position.

**Experiments.** `Skip`, `RunStep`, `RunSummary` are the loop of `run_all.main`
over `STEPS`. The two scripts that share a file have actions of their own
(`SloSweep`, `Frame`, then `Save` file by file); `run_calibration` goes group by
group (`Load`, `Simulate`, `Measure`, `Unload`, `SaveCells`), alone or as a step of
run_all; the others are `OtherScript`. A file is what it was simulated for (`of`),
on which machine (`on`) and in which run (`from`); the last two are history.
`nvidia-smi` may fail for one script and answer the next, so each detects a host
of its own.

**Wrapper.** One step per stage of a request: `output`, `Hit`/`Miss`, `Generate`,
`Simulate` (which ends with the truncation of the file), `Written`; failures
after each stage, kills at each, restarts with another configuration.
A row is a key, the key it was simulated for (`of`, history) and the
state of its counts.

## 3. Runs

| run | question | answer |
|---|---|---|
| `device` | do row states stay sound in every order of prerequisites, for loads/stores, all-bank, per-bank and mixed traffic? | yes: `TypeOK`, `OneRowPerBank`, `BroadcastInStep`, `RequestsConverge` |
| `sys_loadstore` | do forwarding, active buffer, veto, write mode and two slots keep loads and stores sound? | yes: `ActiveRequestsHoldTheirRow`, `WritesKeepOrder`, `ImplementsService` |
| `sys_mixed` | do barriers, MACs of all kinds, mixed traces and refreshes that may overflow the priority buffer? | yes: `TypeOK`, `NoRequestLost`, `ImplementsService`, `RefreshHoldsOffActivation` |
| `sys_live` | does every simulation end? | yes, for PIM traces and for load/store traces, with a refresh: `Terminates` |
| `trace` | do the overlapped traces keep every head's dataflow, cover its scores once and read every key and value once? | yes, for 1008 combinations of arguments: `TypeOK`, `DataflowKept`, `ScoresCoveredOnce`, `VectorsInOrder`, `PlacesOfTheirOwn` |
| `cache` | do failures, kills, restarts and old files ever make the wrapper answer with what was not simulated, or lose a row? | no: `TypeOK`, `AnswersAreSimulated`, `NoZeroCycleRow`, `NothingSimulatedAgain`, `MemoInStep` |
| `sim` | does a run of the simulator price every decoder layer once on the device promised, and do its columns, transfers, samples, memo and memory formulas agree with the layers? | yes: `TypeOK`, `LinkNeverWaits`, `CountsEveryLayer`, `ColumnsAddUp`, `PipelineOnlyShortens`, `PrefillPricesThePrompt`, `TileMemoAgrees`, `OffChipWithinL2`, `KvAsRead`, `TransfersAgree`, `DeepStackOnce`, `CeilingOfSmallModels`, `ImplementsLedger` |
| `runner` | are results what their labels say, framings fresh, cells complete and feasible, over two runs with failures and kills? | yes: `FilesAreOfTheirHost`, `FramingIsFresh`, `EveryCellOnce`, `OneModelLoaded`, `SweptCellsFit` |
| `sys_slots` | are two commands of a cycle of different types? | no: section 8 |
| `sys_active_stuck` | is the active buffer always drained? | no: section 8 |
| `trace_context1` | is the context of every head computed? | no: section 8 |
| `sim_proj` | do the linear layers hold the weights the capacity formula counts? | no: section 8 |

What the properties of `sim` are about: `CountsEveryLayer` follows the norms of
each decoder layer into the row that is written, if one is: a run that generates nothing
has none; `ImplementsLedger` follows the
layers through the groups. `ColumnsAddUp` holds in every state, for times in one
way and for energies in two. `KvAsRead` and `TransfersAgree` compare formulas of
`system.py` with sizes `model.py` gives to layers, where KV heads are replicated
or not. `TileMemoAgrees` justifies a key of the memo that leaves the type of the
layer out; for which models, section 7 says. `PrefillPricesThePrompt` bounds the
sampled price of a prompt by the exact one, and gives the cases in which they are equal: a long prompt whose last
chunk is short may be priced below.

Every property of a passing run has a mutant in `PROJECT.json`: a definition
changed the way a plausible bug would change the code (the variants stand beside
the definitions, under "Mutant of"), for which the same run fails.

Deadlock is checked in every run. A finished simulation stutters through
`Terminated` (`Done` for a written trace, `Finished` for a command line and for a
user who starts nothing more); nothing else may stop.

## 4. Bounds

| bound | value | why it is enough |
|---|---|---|
| banks (`NPch, NRank, NBg, NBk`) | 2 to 4 banks | `device`: two pseudochannels and two bank groups, so that broadcast, same-bank and single reach differ; `sys_mixed`, `sys_live`: two pseudochannels, so that a refresh queues two requests and PREA reaches a bank it does not address; `sys_loadstore`: two banks of one pseudochannel. The proofs cover all sizes |
| `Row` | 2 | a row and another one |
| `QueueSize` | 2 or 3 | traces of 3 and 4 lines overrun it, so sends fail; the watermarks 0.2 and 0.8 are both crossed (write mode is entered with a full buffer, left with an empty one) |
| `ActiveSize` | 2 or 3 | at least the number of banks, as 32 entries are to be for the rows a trace keeps active at a time (section 5) |
| `PrioritySize` | 2 | one refresh of two pseudochannels fits, a second one due before the first is served does not: the exception of `tick` is reached |
| `ReadLatency` | 2 | longer than the latency 1 of a forwarded read, so that one waits behind an older read |
| `MaxRefresh` | 0, 1, 2 | none, one in the middle, one due while another waits |
| `MaxQuiet` | 1 | every subset of commands may be ready in every cycle but after one idle cycle: the orders of readiness are all there, only waiting times are shortened |
| traces | all of up to 3 lines over 4 to 8 kinds of line, and of 4 lines over smaller sets (PIM ones with a barrier as the second line) | two requests that contend, a barrier between or after them, a store behind a full queue |
| generator sizes | 2 channels, 2 partitions, 2 banks, 2 MACs, groups of 2; L 1..14, dhead 1, 4, 10, heads 1..8 | every remainder of L, heads and dhead by the sizes that divide them; up to four iterations, odd and even |
| address sizes | 2 channels, bank groups and banks, 4 columns of 4 bytes and 2 elements, `max_L` 32 | every level of the address is used, and a head's last row is partly filled |
| small models | 2 to 4 layers, hidden size 8 or 16, 2 or 4 KV heads, on 1, 2, 4 GPUs | heads divided, replicated (more GPUs than KV heads) and not divisible; a gated and an ungated model, one with DeepStack and vision tower, one whose image is cut into tiles |
| models of the table | all of `config.py`, on 1, 2, 8 GPUs | shards, groups, transfers and sums of the real sizes; their layers have a price that differs from layer to layer instead of the formulas of the devices, whose products exceed TLC's integers |
| command lines | batches 1, 2; prompts 1..14 tokens with chunks of 1, 2, 3 and 512 and 1 to 8 samples; 1 to 4 output tokens; all routings; images none, square, wide, tall | one chunk and many, the last one short or full, all of them sampled or not; the vision tower with and without an image; lone requests and batches |
| `TileBound`, `Unit`, rates | 24; 16; small numbers | both limits (compute, memory) are met, cores idle or not, L2 tiles of one or several L1 tiles; a layer above the bound has the surrogate price |
| `GpuCapacity`, `HbmCapacity`, `Hbms` | 2500, 100, 5 | some batches of 1..8 fit and others do not |
| `MaxRuns` | 2 | a run that leaves files, and one that finds them; the proofs cover any number |
| old results | those the repository holds of the scripts that share files | of an A6000 without a label, of an H100 with one |
| machines, configurations | an H100 with and without vLLM, an unknown GPU; three configurations of two models, two batches | a label of its own or the default one; a model listed twice, apart |
| `MaxRows` | 3 (2) | a first row, one appended, one more; the file may be cut after each |
| cache configurations | 5 | two values of `max_L`, of heads per stack and of PIM type, a fast one that shares its key with a normal one |

`MaxRows` appears as a guard of `output`, `MaxRuns` as one of `Start`, `MaxRefresh`
as one of `MemoryCycleWithRefresh`; the rest are the sizes the code is parameterised by.

## 5. Abstractions and assumptions

- **Timing** is an oracle. `check_ready` compares the clock with times computed
  from a table of constraints; `Readiness` lets any subset of the commands that
  are wanted be ready. What is kept of the table: commands without constraints
  are always ready, no row command goes in the cycle of an opening one
  (`RowBusTaken`), and after `MaxQuiet` cycles in which nothing was issued
  everything is ready, since every constraint is a finite delay after an issued
  command. Safety shown for the oracle holds for every table.
- **Columns, data, statistics, plugins** are left out of the device: no
  prerequisite or action reads them. Columns are kept in requests, where
  forwarding compares them.
- **Channels.** One channel is modelled. Channels share only the frontend, which
  stops sending when the channel of its next line is full.
- **A full active buffer.** `tick` ignores the result of
  `m_active_buffer.enqueue` and removes the request from its own buffer, so with
  32 active requests one would be lost. `Issue` models that, and the theorems on
  requests say when it does not happen: `NothingLost` and `WritesServedInOrder`
  are about the behaviours in which no activation is dropped
  (`ActivationDropped`), `LoadsAndStoresKept` and `FewBanksWritesInOrder` show
  that loads and stores drop none if the trace addresses no more banks of the
  channel than the buffer has entries. That is a condition on traces for a preset
  with two ranks (64 banks for 32 entries) and none for those with one.
- **Undefined behaviour.** `req_it->command` is read after `buffer->remove`
  erased the node (line 151); the model lets the value be of any type.
- **A kill while `to_csv` writes** leaves nothing, or some of the rows with the
  last one cut, or the whole file. A cut row may have lost columns (`"missing"`: a
  request for its key raises) or digits of its last number (`"short"`).
- **Processes** use `ramulator.out` one after the other; nothing locks it, and
  nothing in the repository runs two at once on one file.
- **Prices.** Times and energies are integers and every quotient is rounded down,
  where Python has floats; the rates divide `Unit`, which keeps the quotients of
  one layer exact. The prices of PIM are an integer per key and head: that
  Ramulator's answer is the one asked for is the matter of `RamulatorCache`.
- **One batch.** `simulate` is modelled for the batch it is called with; the
  scaling of the generation columns by the number of stages and of all columns to
  other units when the row is written is left out.
- **Sweeps.** A cell is feasible when its prompt has room for the visual tokens of
  its image and, on PIM, prompt and output fit into `max_L`. Batches are left out.
- **Experiments.** A script that shares no file either ends well or fails. What
  vLLM measures is the model that answered or a failure. `nvidia-smi` answers the
  machine's GPU or nothing. A kill cuts the file being written, or nothing; it also
  ends the process that holds the models. Old results are sound
  (`RunnerAssumption`).
- `dhead` of a layer is that of the model (`model.py` builds it so).

## 6. Fairness

`FairSpec` has weak fairness of `Next`: the main loop of `main` runs until its
exit condition and every part of the model is called from it. It also has strong
fairness of `ServeOpenRow`, which is about timing: an active request whose row is
open, again and again, is served at some time. In the table RD and WR may follow
ACT after nRCDRD / nRCDWR, the closing commands only after the longer nRAS, so a
column command is ready before the row it needs may be closed. Without it the
oracle allows a PREA of a refresh to close the row of an active request just when
it was opened, for ever. That the oracle cannot keep everything unready for ever
is the `MaxQuiet` rule. No fairness is put on single requests, on refreshes or
on a slot: that they get their turn is what `Terminates` is about.
`AttaccTrace`, `RamulatorCache`, `Simulation` and `ExperimentRunner` state no
liveness: their loops are bounded by the lists they walk, and deadlock is checked.

## 7. Proofs

| theorem | statement | rests on |
|---|---|---|
| `HBM3PIMDevice_proofs!TypeCorrect` | `Spec => []TypeOK` | - |
| `HBM3PIMDevice_proofs!OneRowAndInStep` | `Spec => [](OneRowPerBank /\ BroadcastInStep)` | `IInv`, the conjunction of the two with `TypeOK` |
| `HBM3PIMDevice_proofs!Convergence` | `Spec => []RequestsConverge` | `TypeOK` only |
| `HBM3PIMDevice_proofs!BroadcastsAgree` | `Spec => []BroadcastInStep` | `OneRowAndInStep` |
| `PIMSystem_proofs!TypeCorrect` | `Spec => []TypeOK` | - |
| `PIMSystem_proofs!RefreshesHoldOff` | `Spec => RefreshHoldsOffActivation` | `TypeOK` |
| `PIMSystem_proofs!LinesInPlace` | `Spec => []Inv` | - |
| `PIMSystem_proofs!Implements` | `Spec => ImplementsService` | `Inv`, `OrderKept` |
| `PIMSystem_proofs!NeverDoubled` | `Spec => []NothingDoubled` | `LinesInPlace` |
| `PIMSystem_proofs!NothingLost` | `NoRequestLost`, as long as no activation is dropped | `Inv`, `Kept` |
| `PIMSystem_proofs!ActiveRowsHeld` | `LoadsAndStoresOnly` implies `Spec => []ActiveRequestsHoldTheirRow` | `LoadStoreInv` |
| `PIMSystem_proofs!LoadsAndStoresKept` | with `FewBanks` also `Spec => []NoRequestLost` | `LoadStoreInv`, `NothingLost` |
| `PIMSystem_proofs!WritesServedInOrder` | `LoadsAndStoresOnly` implies `WritesKeepOrder`, as long as no activation is dropped | `LoadStoreInv`, `Kept`, `WritesPassed` |
| `PIMSystem_proofs!FewBanksWritesInOrder` | with `FewBanks` also `Spec => []WritesKeepOrder` | `WritesServedInOrder` |
| `AttaccTrace_proofs!TypeCorrect`, `Dataflow`, `ScoresOnce`, `Vectors` | `TypeOK`, `DataflowKept`, `ScoresCoveredOnce`, `VectorsInOrder` | `IInv` |
| `AttaccTrace_proofs!Places` | `Spec => [](HeadsFit => PlacesOfTheirOwn)` | `IInv` (the arguments are those of a run) |
| `RamulatorCache_proofs!TypeCorrect`, `OnlySimulatedAnswers`, `NoFailedRows`, `MemoKept`, `NoSecondSimulation` | the five invariants of run `cache` | `IInv` |
| `Simulation_proofs!TypeCorrect`, `LinkIsFree`, `TotalsAddUp` | `TypeOK`, `LinkNeverWaits`, `ColumnsAddUp` | `IInv` (`Inv /\ Columns`) |
| `Simulation_proofs!HidesTimeOnly` | `Spec => []PipelineOnlyShortens` | `IInv` |
| `Simulation_proofs!KeepsTheLedger` | `Spec => ImplementsLedger` | `LInv` (`IInv /\ Sited /\ Rows`) |
| `Simulation_proofs!CountsAllLayers` | `Spec => []CountsEveryLayer` | `LInv /\ Norms` |
| `Simulation_proofs!SameTransfers`, `CountsKvAsRead`, `AddsDeepStackOnce` | `TransfersAgree`, `KvAsRead`, `DeepStackOnce` | `Inv` or `LInv`, sums over blocks |
| `Simulation_proofs!PromptNotOvercharged` | `Spec => []PrefillPricesThePrompt` | `IInv` |
| `Simulation_proofs!CeilingIsNotTooLow` | `Spec => []CeilingOfSmallModels`, for batches of any size and models of any size | `IInv`, `Asserted` |
| `Devices_proofs!FormulasAnswerWell` | what `AnswersAssumption` asks of a cost holds of `Answer` | `VisionAssumption` |
| `Devices_proofs!TilesFitTogether` | `Spec => []OffChipWithinL2`, for layers of any size | `IInv` |
| `Devices_proofs!MemoTellsTypes` | `Spec => [](HeadsTell(call) => TileMemoAgrees)` | `IInv`, `MemoOfRun` |
| `ExperimentRunner_proofs!CellsOnce` | `Spec => []EveryCellOnce` | `CellsInv` |
| `ExperimentRunner_proofs!OneModel` | `Spec => []OneModelLoaded` | `LoadedInv` |
| `ExperimentRunner_proofs!FilesOfTheirHost` | `Spec => []FilesAreOfTheirHost` | `HostInv` |
| `ExperimentRunner_proofs!FramingFresh` | `Spec => []FramingIsFresh` | `FreshInv` |

They hold for every organisation, every buffer size, every trace, every length,
head size and number of heads of a generated trace, every model, command line and
price of a layer, every set of
configurations, layers and old files, every set of machines and every number of
runs that satisfy the named assumptions
(`OrganizationAssumption`, `TrafficAssumption`, `ControllerAssumption`,
`SystemAssumption`, `AddressAssumption`, `TraceAssumption`, `CacheAssumption`,
`CallsAssumption`, `AnswersAssumption`, `DevicesAssumption`, `VisionAssumption`, `RunnerAssumption`, `ListsAssumption`;
TLC evaluates them in
the runs). These say that sizes are positive, that traces are well-formed,
that old files hold whole rows and old results are of the host on their label, and
that no configuration and no batch is listed twice (`ListsAssumption`; `configs.py`
lists none twice, batches given by a user are assumed not to). `CallsAssumption` is what
`main`'s parser accepts (known systems and routings, positive batches and lengths)
and what the table of models holds (positive sizes, DeepStack layers
within the decoder). `AnswersAssumption` is about `Cost`, the price of a layer the devices
are asked for: it is a time, a bound and an energy per unit, natural numbers; a transfer
spends energy on the link alone; and the two norms of a decoder layer, which differ in their
name only, which no device reads, cost the same. `FormulasAnswerWell` shows that the
formulas of the devices do, whatever their capacities, rates and energies
(`DevicesAssumption`: positive rates, and an L1 that holds the smallest tile), for every
layer of every run whose shards divide. `VisionAssumption` says that a vision tower, its
image and its projector have positive sizes.
Some theorems have a hypothesis of their own: `LoadsAndStoresOnly` (the traces
have no PIM line and there is no refresh) and `FewBanks`, which the constants of
run `sys_loadstore` satisfy; the absence of dropped activations, without
which the code does lose requests (section 5); `HeadsTell`, that the sizes of a model and
its deployment tell linear layers from the others (more than one query head in the batch
of a GPU, shards wider than one, and a head size that is no width of the vision tower),
which every model of the table satisfies on up to 8 GPUs, as 925 of the 1000 command
lines of run `sim` whose shards divide do (the others are of the tiny model), and without
which the statement is false (section 8); and `HeadsFit`, that the keys of all heads
end before `v_offset` and the values within their bank. The generators do not check
the latter: with their own constants, `max_L` of 2048 and heads of 128 it holds for
about 2000 iterations (some 32000 heads); it holds for every argument of run `trace`.

*Device.* `OneRowPerBank` alone is not inductive: an all-bank activation asks
only the first bank that lacks the row, so without `BroadcastInStep` it might open
a row over an open one elsewhere; and `BroadcastInStep` needs the reach of each
command. `IssueKeepsIInv` goes by the kind of traffic, then by the command that is
issued (`AccessStep`: it is final, or opens banks that are all closed, or closes).
`Convergence` follows two prerequisites symbolically: after a closer all banks of
the reach are closed, so the next is the opener, after which every bank has
the row. That argument fails for PRESB, as it must.

*System.* One lemma per part of a cycle shows that it preserves types
(`SendType`, `StartCycleType`, `SlotType`, ...), with `IssueType` and
`IssueBuffers` for the moves between buffers. `RefreshesHoldOff` is an action
property: while the priority buffer is not empty its head is a row command, so
the first slot stops at it, and the second slot passes it only to column
commands (`OfferPastRefresh`), which open nothing.

*Service.* The refinement needs to know where lines are. `Inv` says that every
entry of a buffer stands for a line of its kind that was sent and not served,
that no line is in two places and that queues are in trace order (`Placed`), that
every PIM line not served is in the PIM buffer (`PimKept`), and that `pending` has
the reads that were served and not completed, each once (`Delivering`). Every part of `Slot` is seen as one removal, with one
move or none (`Issued` and the lemmas on removal), so that preservation is proved
once and not per alternative. Order across barriers is `OrderKept`: a PIM line is
served only when all those before the barriers it waits for are, since what the
scheduler may choose lies before the first barrier of the PIM buffer.
`Implements` then maps a step of the frontend to an acceptance, a slot to a
service or to nothing, a completion to a delivery.

Nothing lost needs `Kept` (a line not served is in some buffer) beside `Inv`; it
is inductive only while no activation is dropped. For loads and stores
`ActiveRequestsHoldTheirRow` is inductive with `Inv` and an empty priority buffer:
the veto keeps every closing command off the banks of active requests, and
without broadcasts and refreshes a command closes no bank but its own. Two active
requests are then on two banks, so the buffer holds at most as many as the trace
has banks (`FewBanks`). `WritesPassed` orders writes: where two writes to one
address are under way the earlier one wins in `compare`, since the later one is
not older and needs the same command, so the later one is neither served nor
active before the earlier one is served.

*Generators.* What a beat appends depends on divisions of the length, the head size
and the number of beats, and two heads interleave. `IInv` separates numbers, order and
barriers. `Reach(op, h)` is the number of blocks of a kind that a head has
got when section and beat are what they are; `Progress` says that the numbers
written are `0..Reach-1`, `Rising` that they came in this order, `Sealed` that a barrier
follows every block that feeds another. `DataflowKept` is not inductive
alone: it speaks of the blocks that are there, and that the inputs of the next
block are all there is `Progress`, that a barrier lies between is `Sealed`. One
lemma, `BeatStep`, covers all beats: what is appended is at most four runs of
consecutive blocks and perhaps a barrier (`Pieces`), each starting where `Reach`
was and ending where it will be. `Handover` shows that the last beat of a section
leaves `Reach` where the first of the next one finds it; the arithmetic of slices
is in `SliceBounds`, `CeilDivTwice` and `LateBounds`. `ScoresOnce` and `Vectors`
follow from `Progress` and `Rising` when the trace is done.

*Addresses.* `PlacesOfTheirOwn` counts cells of sets of addresses that pass through
divisions twice, in the generator and in the mapper. `Division` and `Quotient` (a number has one
quotient and remainder) show that an index, its address and the cell it is mapped to
determine each other: `Shift` is the bank it selects and `Column` how deep it
lies (`PlaceParts`), the mapper gives both back (`MappedPlace`), as long as the head ends within its
bank (`EndsInBank`; adding the address of a head must not carry into the bank), and two
indices differ in one of them (`PlacesDiffer`). So the MACs of a head read disjoint
sets of one size, that of the broadcast (`CellsOfMac`, the product of the fields it
spreads over), and their union has as many cells as the product says
(`DisjointSets`, `CellsOfHead`). The blocks of keys and of values run over the same indices
(`IndicesCover`, `MatrixCells`). Heads are apart because they are at different depths
(`HeadsApart`).

*Induction.* `InductionLemmas` proves induction over finite sets of numbers from the
largest and least members of such sets, in a form without operators as
parameters (`SetInduction`), and what a fold over a set is for one more member
(`FoldExists`, `Peels`). `MaxOfFinite` serves the scheduler's choice.

*Wrapper.* No invariant of the run is inductive. `IInv` adds `RowsSound` (every
row in memory and on disk answers only for keys it stands for and has
whole or cut counts), `OldUnstamped` (a file without the column holds
unstamped rows), and `MissedFirst` (what is being simulated is not in the table).
One lemma per action; `CutSound` and `LoggedSound` treat the file.

*Simulation.* `Total` is a fold over an arbitrary order of positions; `Sums` and
`SetInduction` make it a sum one can split, compare and change in one place
(`TotalOfSums`, `TotalBetween`, `TotalOfChange`). The layers of a block are
concatenated from parts that depend on the model and the routing, so what a block
weighs is proved part by part (`WeightOfConcat`); `SumTyped`, `GenTyped` and
`VisionTyped` say what layers blocks have.

`Inv` says where a run is (`Deployed`, `Placed`), that `graph` is the block of that
place (`Layered`), and that what is priced so far is what the devices answer
(`Running`). `LinkIsFree` is part of it: the link is charged with transfers only, as
is the block, and both start at zero. `Columns` says that the columns are numbers that
add up; an inductive step splits the times of a block by the kind of a layer, each
column taking the sum of its kind, however they were stretched, hidden or shared
out (`ApplyEffLatTyped`, `PipelineTyped`, `FfParallelTyped`). That the hidden times
are no longer (`HidesTimeOnly`) is a matter of quotients that round down, and of
the attention hiding no more of a transfer than it takes itself.

`KeepsTheLedger` needs that the groups stand for the layers the routing promises
(`Sited`: counts per side add up to `Promise`, by `SidesOfRouted` for each routing)
and that no row is written before the end (`Rows`). Pending layers are those of the
groups not yet past (`Left`); `OneGroupLess` takes one away. `EndSum` maps to
the pricing of prompts, the last `EndStage` of a group to that of tokens, `WriteRow`
to the row, everything else, `NoThroughput` included, to stuttering.

`CountsEveryLayer` is about the end of a run and not inductive. `Norms` says it of
every moment: the norm columns hold two norms for each decoder layer of the
groups whose prompt is past (`LayersPast`), and for each stage of those and of the
present group that is past (`StagesPast`); when no group is left this is what
`CountsEveryLayer` says of the row. That a run with a row has more than one token to
generate is `Generated`: without a stage the columns of generation stay at zero. For the transfers, the KV cache and the DeepStack layers the sums of
two blocks, or of a block and a formula, are each reduced to what one layer counts
(`Counted`, `CountIn`), where the shards divide (`Splits`).

`PromptNotOvercharged` is about a sum of rounded quotients. The prices of chunks lie on a
line, and the last, perhaps shorter chunk on or below it (`PricesAreOnLines`: a full
chunk costs its size when a query costs one, and `size^2 * (c + 1)` for chunk `c` when a
query costs its keys). Between two points of a line, or one on it and one below,
what is interpolated and rounded down is at most the line (`BetweenPoints`,
`InterpolateOnLine`). With at least as many samples as chunks every chunk is
sampled (`EverythingSampled`), and that the tokens of the chunks are those of the prompt is
induction over the chunks (`TokensOfPrompt`).

`CeilingIsNotTooLow` compares a quotient with a batch: past the assertion of `main`
there are as many accelerators as GPUs (`Asserted`), so every request keeps at least
one element (`EveryRequestKeepsSomething`), memory is linear in the batch
(`MemoryOfBatch`), and a batch that fits is at most what is left divided by what a request keeps
(`RoomForBatch`).

*Devices.* The search for tiles takes a tile with the least fraction of traffic and
cores; that there is one (`LeastFraction`) and that it is taken in the order of the loops
(`LexicographicFirst`) is induction over finite sets. There always is a tile to
search among: the smallest, clipped to the layer, fits L1 by `DevicesAssumption`
(`FoundInL1`), and the L1 tile itself is one of the candidates for L2 (`FoundInL2`). With a tile no
larger than the layer the traffic of each operand is its size times the number of tiles
of the dimension it lacks, and never fewer tiles in L1 than in L2 (`TrafficOfOne`,
`TilesOfSolid`). `LayersArePriced` goes through the layers of prompt,
generation and vision tower and shows that their sizes are positive; it needs the
sharding (`Splits`) and `VisionAssumption`.

`MemoTellsTypes` needs to know which tile was put into the memo when: `MemoOfRun` says that
every entry was searched for some layer of this run, of whatever block, with that
layer's kind. So it is enough that no two layers of a run with one key are of different
kinds (`KeysTell`), whatever the length and the stage. `Told` says what tells
them apart: a linear layer is one operation with an inner size above one, or belongs to
the tower and has one of its widths among its sizes; any other has inner size one, or is
one operation per head with the head size among its sizes. `DecoderIsTold` and
`VisionIsTold` go through the layers of the two, and `LayersAreTold` takes them together.

*Experiments.* Each of the four properties has its own strengthening.
`LoadedInv`: what occupies the GPU is the model of the group, and nothing does
outside the cells of a group. `HostInv`: the files about to be saved are sound
as well, and a calibration's label was detected on this machine. `FreshInv` is a
walk along the steps: `InStep` ties each part of a script to its step, `SweepInv`
says that the line of the sweep is settled before the framing starts and that the
file it left is still the one of this run, `SaveInv` what the two scripts are
about to save. `NextStep` and `Stop` carry it over the end of any script. The
argument needs that the sweep and its framing are in one phase (`StepNames`).
`CellsInv` is about one calibration: the cells are those of the groups done,
each plan of theirs once, and the first `InGroup` of the group being filled, and what
was measured was measured while the model of the group was loaded. That there is an
order in which to list the members of a finite set is proved by induction over
the set.

Model-checked only:

- liveness and its fairness (`Terminates`): `ENABLED` and fairness are out of the
  prover's reach;
- `SweptCellsFit`: it evaluates the tables of models and sweeps, constants without
  a parameter, so TLC's evaluation is all there is to know;
- `NoRequestLost` for traces with PIM lines that fill the active buffer: there it
  is false in general, and `sys_mixed` shows it for a buffer as large as the banks.

## 8. Where code and text disagree

Shown by a run:

- `sys_slots`: two column commands in a cycle (`MACAB` and `WRGB`), against
  `hbm3_pim_controller.cpp:147`, from the read of an erased node at line 151.
- `sys_active_stuck`: a load and an all-bank MAC to another row in one trace: the
  load keeps its place in the active buffer, needs a PRE and is vetoed for its own
  sake; nothing is ever served again.
- `trace_context1`: `gen_trace_attacc_bank.py:299` says "Head1: Context", the loop
  writes the context commands of Head0 once more (all three generators). The
  number of commands is right, so cycle counts differ little.
- `sim_proj`: the output projection of the graph has `hdim` inputs
  (`model.py:513`), the capacity formula counts `q_proj_out * hdim` weights for it.
  They differ for models whose heads are wider together than the hidden size, such
  as Qwen3-4B.

Found in reading and while modelling, without a run of their own.

*Memory simulator.*

- PRESB (`action.patch:84`) closes the banks of one bank group, ACTSB opens those of
  all, so a same-bank MAC on a new row repeats PRESB/ACTSB for ever.
  `HBM3-PIM.cpp:516` lists PRESB as a same-bank action. A request addressed to the
  first bank group does go on, since the first bank looked at is one PRESB has
  closed; it leaves the other groups with two rows open. The bg generator writes
  such requests. `RequestsConverge` leaves same-bank MACs out for this reason.
- A forwarded read departs after every older read in `pending` and not "at the next
  cycle" (`hbm3_pim_controller.cpp:62`); a write that has moved to the active
  buffer is not forwarded from (line 56).
- The veto protects the bank a closing command addresses and not the others it
  closes, so the PREA of a refresh does interrupt active requests (line 292).

*Trace generators.*

- Slices of input vectors are rounded down, so that at the default length 569 two
  of 128 WR_GB of an overlapped head are never written
  (`gen_trace_attacc_bank.py:238`; `VectorsInOrder` states the bound the code
  keeps).
- `partition_size` counts elements and separates addresses, which are in bytes of
  `dbyte` each (line 184): with lengths above half of `max_L` (at 2 bytes) the keys
  of one iteration reach into those of the next. `PlacesOfTheirOwn` is about the
  lengths whose rows fit. Only commands and counts reach the simulator, no data.

*Wrapper.*

- Rows of a file without `max_L` are stamped with the process's own value and
  served, where the implementation report says they are discarded.
- BUFFER accesses are scaled by 2 in a cached answer and by 1 in a fresh one
  (`ramulator_wrapper.py:229, 292`), where the plan says by 1 in both; in fast mode
  a fresh answer's time is not multiplied by the number of groups, a cached
  one's is (lines 243, 299; the plan, line 559, says both are).
- A trace file is left behind when the simulator binary is missing (line 144; the
  plan, lines 550-554, says otherwise).

*System and model.*

- `get_capacity_breakdown` never turns away a batch that fits (the property), but
  the ceiling is above what fits in two cases: with the KV cache on the accelerators
  it divides the memory of all of them by the KV bytes of one shard
  (`system.py:784-802`), and the GPU's intermediate results are counted for the
  batch asked about and not for the ceiling.
- `set_xpu` leaves `fc_tp` and `attn_tp` of a model built for other GPUs
  (`system.py:108`): dgx-cpu prices the shard of `--ngpu` devices on eight.
- The memo of tiles (`devices.py:41`) is keyed without the type of the layer, which the
  search depends on. Where a GPU is left with one query head at batch 1, `score` or
  `context` may have the sizes of a linear layer: LLAMA-7B in 32 shards with a prompt of
  4096 tokens has one key, 4096 x 4096 x 128, for `score` and `proj`, and `proj` is
  served the tile of `score`. `HeadsTell` (section 7) excludes it; no experiment
  of the repository uses so many shards.
- `main.py --lout 1` passes the parser, removes `output.csv`, prices the prompt and
  raises ZeroDivisionError: there is no generation stage (`model.py:620`), and
  `system.py:663` divides the batch by the time of generation before the row is
  appended. No script of the repository asks for it.
- The routing "conservative" sends all layers to the accelerator, its list of layers
  is not read (`model.py:118`); models with DeepStack are forced to "list".

*Experiments.*

- Two scripts of run_all ask for cells that are not feasible: `vit_recalibration`
  simulates prompts of 334 tokens with an image of 576 visual tokens, and 1979 with one of
  2928; `upstream_baseline` asks for 2048 + 128 tokens on PIM at the default
  `max_L` of 2048. `SweptCellsFit` is about the others.
- `sim_runner.run` raises when a simulation fails (`strict=True`, `sim_runner.py:48`);
  its callers test for `None`, and one cell that fails loses the sweep.
- `run_calibration` saves at its end only, and a run with a filter or in one mode
  replaces the file of the host by what it has selected.
- `run_all_h100x1.sh` pipes each step into `tee` without `pipefail`: a step that
  fails is reported OK.

## 9. Not modelled

- **Timing tables** (`m_timing_cons`, clocks, nREFI): replaced by the oracle; their
  sizes make state spaces too large. Cycle counts are therefore not checked.
- **`hbm3_controller.cpp`**, the twin for plain HBM3; **trace recorder**: no state
  of their own beyond what the PIM controller shows.
- **The mapper's bits**: `TraceAddresses` starts from the fields the mapper cuts an
  address into.
- **System**: the columns of operations (flops), the dtype W8A8 and its weights,
  batches made of `num_reqs` requests (no caller passes any), the scaling of columns
  when the row is written, its header and the columns that repeat the arguments.
- **Configuration**: the tables of GPUs, bandwidths and energies are constants of
  the model; only the table of models is taken over.
- **Experiments of May**: the scripts run_all does not start (other figures of
  tier 1 and 2, measurements with vLLM of tier 2), prompts made for vLLM of a given
  length (`_make_prompt_for_lin`), `cross_hw_compare`, plotting. They keep no state
  that another part reads.
- **Experiments of June**: measurements and analysis of another model.
- **ramulator2**: a submodule the repository does not contain; what is used of it
  (request buffer, tree of nodes, plugin calls) is modelled where it is used.
- **Tests, documents, results**: read as references.

## 10. Plan

Done: device, scheduler, controller, system and service; generators and their
addresses; wrapper; one run of the simulator with graph, devices and ledger; the
experiments with their sweeps; proofs of the device, of the service and
its refinement, of the order, number and addresses of generated commands, of the
wrapper, of the simulator's sums and its refinement, of its sampling of prompts and
its capacity ceiling, of the devices' tiles and formulas, and of the experiments' files
and cells. Of the invariants the runs check, `SweptCellsFit` alone is without a theorem;
what else is only model-checked is listed at the end of section 7.

Next, in order of importance:

1. Proofs: type correctness of `ExperimentRunner`.
2. Two channels in `PIMSystem` (the frontend blocks on one of them), and traces
   as `AttaccTrace` generates them replayed in the system: does the overlapped
   trace, under every timing, keep the dataflow the barriers are to enforce?
3. Timing of one bank as an abstract automaton (opened, column-ready,
   precharge-ready) that refines the oracle and replaces the strong fairness.
4. W8A8 and the columns of operations in `Simulation`.
