-------------------------- MODULE ExperimentRunner --------------------------
(***************************************************************************)
(* The experiments of 260511_additional_exp on one machine, run after run: *)
(* calibration/run_all.py starts one script per step; the scripts simulate *)
(* through shared/sim_runner.py, measure with vLLM and leave JSON files in *)
(* results/, some of which later steps read.  A script detects the GPU of  *)
(* the machine for itself and labels its files with what it has detected.  *)
(* A user may start run_calibration.py alone, and may kill everything.     *)
(***************************************************************************)
EXTENDS Naturals, FiniteSets, TLC, SequencesExt

CONSTANTS
    Machines,    \* [gpu, vllm]: the GPU, in Hosts or not, and is vLLM there?
    Configs,     \* VLM_CONFIGS: a sequence of [label, hf, image]
    Batches,     \* BATCHES
    Skips,       \* the sets of phases users skip
    Selections,  \* the sets of labels users select; {} selects all
    OldFiles,    \* the results that come with the repository
    MaxRuns      \* bound: how often a user starts something

Hosts == {"A6000", "H100", "A100"}
Modes == {"sim", "vllm", "both"}

(* What a file labelled with a host says when it is whole: made for that  *)
(* host, and, when it was measured, on it.                                *)
Cut == [state |-> "cut"]
Sound(file, content) ==
    file[2] \in Hosts /\ content # Cut =>
        /\ content.of = file[2]
        /\ file[1] = "calibration" => content.on = file[2]

ASSUME RunnerAssumption ==
    /\ MaxRuns \in Nat /\ \A m \in Machines : m.vllm \in BOOLEAN
    /\ \A s \in Selections : s \subseteq {c.label : c \in ToSet(Configs)}
    /\ \A file \in DOMAIN OldFiles : Sound(file, OldFiles[file])

(* configs.py lists no configuration and no batch twice; neither does a    *)
(* user who gives batches of his own.                                      *)
NoneTwice(s) == s \in Seq(ToSet(s)) /\ \A i, j \in DOMAIN s : s[i] = s[j] => i = j
ASSUME ListsAssumption == NoneTwice(Configs) /\ NoneTwice(Batches)

VARIABLES
    machine,
    run,      \* the number of runs started
    args,     \* the arguments of this one
    pc,       \* the driver or the part of a script that runs
    step,     \* the step of run_all
    summary,  \* the lines of its summary about the two scripts that share a file
    host,     \* the GPU the script has detected
    group,    \* run_calibration: the group of configurations,
    llm,      \* its model, or none,
    resident, \* the models in the memory of the GPU,
    entry,    \* the cell being filled
    cells,    \* and the ones filled
    todo,     \* the files the script has yet to save
    results   \* the files in results/ and what they were made of

calibration == <<group, llm, resident, entry, cells>>
vars == <<machine, run, args, pc, step, summary, host, calibration, todo, results>>

(* Mutant of SloPhase: the refresh of the file counts as one of a figure.  *)
SloPhaseOfFigures == "phase3"
SloPhase == "phase2"
Step(script, phase) == [script |-> script, phase |-> phase]
STEPS == << Step("upstream_baseline", "regression"),
            Step("run_calibration", "phase1"), Step("vit_recalibration", "phase1"),
            Step("multi_vlm_full_sim", "phase3"), Step("slo_throughput", SloPhase),
            Step("vlm_vs_llm_pair", "phase2"), Step("prefill_decomp_vlm", "phase2"),
            Step("visual_token_scaling", "phase2"), Step("capacity_framing", "phase2"),
            Step("roofline_per_vlm", "phase3"), Step("capacity_regime", "phase3") >>

None == "none"
AnyHost == "any"
File(name, label) == <<name, label>>

----------------------------------------------------------------------------
(* nvidia-smi answers, or fails, or takes too long. *)

detect_host == {"A6000"} \cup ({machine.gpu} \cap Hosts)
detect_hw == {"unknown:no_nvidia_smi",
              IF machine.gpu \in Hosts THEN machine.gpu ELSE "unknown:other"}
HW_TO_SIM(hw) == IF hw \in Hosts THEN hw ELSE "A6000"

(* What each script asks the simulator for. *)
Swept == INSTANCE Sweeps

----------------------------------------------------------------------------
(* The cells of run_calibration, grouped so that a model is loaded once.   *)

Selected ==
    {i \in DOMAIN Configs : args.labels = {} \/ Configs[i].label \in args.labels}
Chosen == {Configs[i] : i \in Selected}

(* The dictionary by_hf: its keys in the order they were first met, and    *)
(* for each the list of its configurations in the order of VLM_CONFIGS.    *)
InOrder(S) == CHOOSE s \in [1..Cardinality(S) -> S] :
                  \A i, j \in DOMAIN s : i < j => s[i] < s[j]
FirstMet ==
    {i \in Selected : \A k \in Selected : k < i => Configs[k].hf # Configs[i].hf}
by_hf == [g \in 1..Cardinality(FirstMet) |-> Configs[InOrder(FirstMet)[g]].hf]
(* Mutant of CfgList: a group is what was found first under its key. *)
CfgListFirst(hf) == InOrder({i \in FirstMet : Configs[i].hf = hf})
CfgList(hf) == InOrder({i \in Selected : Configs[i].hf = hf})

NotRun == [status |-> "not_run", by |-> None]
Cell(config, batch) == [config |-> config, batch |-> batch, vllm |-> NotRun]
(* For every configuration of the list, for every batch. *)
Plan(hf) ==
    LET n == Len(Batches)
    IN  [k \in 1..Len(CfgList(hf)) * n |->
            Cell(Configs[CfgList(hf)[(k - 1) \div n + 1]], Batches[((k - 1) % n) + 1])]

(* A measurement, by the model that answered; the guards, a lack of memory *)
(* and an engine that dies all leave a status instead.                     *)
run_vllm ==
    IF ~machine.vllm \/ llm = None THEN {NotRun}
    ELSE {[status |-> "ok", by |-> llm], [status |-> "failed", by |-> None]}

----------------------------------------------------------------------------
(* The driver. *)

NoLine == [status |-> "none", host |-> None, from |-> 0]
NoSummary == [slo_throughput |-> NoLine, capacity_framing |-> NoLine]
NoEntry == <<>>
NoArgs == [continue |-> FALSE, skip |-> {}, mode |-> "both", labels |-> {}]
Idle ==
    /\ pc' = "idle" /\ step' = 0 /\ host' = None /\ group' = 0 /\ llm' = None
    /\ resident' = {} /\ entry' = NoEntry /\ cells' = <<>> /\ todo' = <<>>

Init ==
    /\ machine \in Machines
    /\ run = 0 /\ args = NoArgs
    /\ pc = "idle" /\ step = 0 /\ summary = NoSummary /\ host = None
    /\ group = 0 /\ llm = None /\ resident = {} /\ entry = NoEntry /\ cells = <<>>
    /\ todo = <<>> /\ results = OldFiles

Start(arguments, first, at) ==
    /\ pc = "idle" /\ run < MaxRuns
    /\ run' = run + 1 /\ args' = arguments /\ pc' = first /\ step' = at
    /\ summary' = NoSummary
    /\ UNCHANGED <<machine, host, calibration, todo, results>>
StartRunAll == \E skip \in Skips, continue \in BOOLEAN :
    Start([NoArgs EXCEPT !.continue = continue, !.skip = skip], "driver", 1)
StartCalibration == \E mode \in Modes, labels \in Selections :
    Start([NoArgs EXCEPT !.mode = mode, !.labels = labels], "run_calibration", 0)

Line(script, status, from) ==
    IF script \in DOMAIN summary
    THEN [summary EXCEPT ![script] = [status |-> status, host |-> host, from |-> from]]
    ELSE summary

(* The end of the script of a step, or of a script that was started alone. *)
Ended(ok) ==
    IF step = 0 \/ (~ok /\ ~args.continue) THEN Idle
    ELSE /\ pc' = "driver" /\ step' = step + 1 /\ host' = None /\ group' = 0
         /\ llm' = None /\ resident' = {} /\ entry' = NoEntry /\ cells' = <<>> /\ todo' = <<>>
Script == STEPS[step].script
Fails ==
    /\ summary' = IF step = 0 THEN summary ELSE Line(Script, "FAIL", 0)
    /\ Ended(FALSE)
    /\ UNCHANGED <<machine, run, args, results>>

Skip ==
    /\ pc = "driver" /\ step <= Len(STEPS) /\ STEPS[step].phase \in args.skip
    /\ summary' = Line(Script, "SKIP", 0) /\ step' = step + 1
    /\ UNCHANGED <<machine, run, args, pc, host, calibration, todo, results>>
RunStep ==
    /\ pc = "driver" /\ step <= Len(STEPS) /\ STEPS[step].phase \notin args.skip
    /\ pc' = IF Script \in {"run_calibration", "slo_throughput", "capacity_framing"}
             THEN Script ELSE "other"
    /\ UNCHANGED <<machine, run, args, step, summary, host, calibration, todo, results>>
RunSummary ==
    /\ pc = "driver" /\ step > Len(STEPS)
    /\ Idle /\ UNCHANGED <<machine, run, args, summary, results>>

----------------------------------------------------------------------------
(* The scripts. *)

(* A script whose files no other script reads. *)
OtherScript ==
    /\ pc = "other"
    /\ \/ Ended(TRUE) /\ UNCHANGED <<machine, run, args, summary, results>>
       \/ Fails

Made(of, on, from) == [state |-> "whole", of |-> of, on |-> on, from |-> from]
Saving(name, label, content) ==
    /\ pc' = "save" /\ host' = label
    /\ todo' = << <<File(name, AnyHost), content>>, <<File(name, label), content>> >>

(* The sweep of slo_throughput simulates the GPU it has detected; a run of *)
(* the simulator that fails ends it.                                       *)
SloSweep ==
    /\ pc = "slo_throughput"
    /\ \E h \in detect_host : Saving("slo_throughput", h, Made(h, machine.gpu, run))
    /\ UNCHANGED <<machine, run, args, step, summary, calibration, results>>
SloFails == pc = "slo_throughput" /\ Fails

(* Mutant of SloJson: the file without a host. *)
SloJsonOfAnyHost(h) == File("slo_throughput", AnyHost)
SloJson(h) == File("slo_throughput", h)
(* A missing file ends capacity_framing, and so does one cut short. *)
Readable(file) == IF file \in DOMAIN results THEN results[file] # Cut ELSE FALSE
Frame ==
    /\ pc = "capacity_framing"
    /\ \E h \in detect_host :
          Readable(SloJson(h)) /\ Saving("capacity_framing", h, results[SloJson(h)])
    /\ UNCHANGED <<machine, run, args, step, summary, calibration, results>>
FramingFails ==
    /\ pc = "capacity_framing"
    /\ \E h \in detect_host : ~Readable(SloJson(h))
    /\ Fails

(* A file is opened for writing, and written. *)
Written(file, content) ==
    [f \in DOMAIN results \cup {file} |-> IF f = file THEN content ELSE results[f]]
Save ==
    /\ pc = "save"
    /\ results' = Written(todo[1][1], todo[1][2])
    /\ IF Len(todo) > 1
       THEN todo' = Tail(todo) /\ UNCHANGED <<pc, step, summary, host, calibration>>
       ELSE /\ summary' = IF step = 0 THEN summary ELSE Line(Script, "OK", todo[1][2].from)
            /\ Ended(TRUE)
    /\ UNCHANGED <<machine, run, args>>

----------------------------------------------------------------------------
(* run_calibration. *)

Outside == <<machine, run, args, step, summary, results>>

Calibrate ==
    /\ pc = "run_calibration"
    /\ \E hw \in detect_hw : host' = hw
    /\ pc' = "load" /\ group' = 1
    /\ UNCHANGED <<Outside, llm, resident, entry, cells, todo>>

(* LLM() takes memory until nothing refers to it and it is collected. *)
Load ==
    /\ pc = "load" /\ group <= Len(by_hf)
    /\ \E loaded \in {by_hf[group], None} :
          /\ loaded # None => args.mode # "sim" /\ machine.vllm
          /\ llm' = loaded /\ resident' = resident \cup ({loaded} \ {None})
    /\ pc' = "simulate" /\ UNCHANGED <<Outside, host, group, entry, cells, todo>>

InGroup == Cardinality({i \in DOMAIN cells : cells[i].config.hf = by_hf[group]})
NextCell == Plan(by_hf[group])[InGroup + 1]
(* A cell is simulated first; a simulation that fails is noted in it and   *)
(* stops nothing, so the cell goes on the same.                            *)
Simulate ==
    /\ pc = "simulate" /\ InGroup < Len(Plan(by_hf[group]))
    /\ entry' = NextCell
    /\ pc' = "measure" /\ UNCHANGED <<Outside, host, group, llm, resident, cells, todo>>
Measure ==
    /\ pc = "measure"
    /\ \E vllm \in IF args.mode = "sim" THEN {NotRun} ELSE run_vllm :
          cells' = Append(cells, [entry EXCEPT !.vllm = vllm])
    /\ entry' = NoEntry /\ pc' = "simulate"
    /\ UNCHANGED <<Outside, host, group, llm, resident, todo>>

(* Mutant of Dropped: the loop keeps its reference to the model. *)
DroppedNever == llm
Dropped == None
(* The reference is dropped and what nothing refers to is collected. *)
Unload ==
    /\ pc = "simulate" /\ InGroup = Len(Plan(by_hf[group]))
    /\ llm' = Dropped /\ resident' = resident \cap {llm'}
    /\ group' = group + 1 /\ pc' = "load"
    /\ UNCHANGED <<Outside, host, entry, cells, todo>>

SaveCells ==
    /\ pc = "load" /\ group > Len(by_hf)
    /\ todo' = << <<File("calibration", host), Made(HW_TO_SIM(host), machine.gpu, run)>> >>
    /\ pc' = "save"
    /\ UNCHANGED <<Outside, host, calibration>>

----------------------------------------------------------------------------

(* Everything is killed; a file that is being written is cut short. *)
Killed ==
    /\ pc # "idle"
    /\ \/ UNCHANGED results
       \/ pc = "save" /\ results' = Written(todo[1][1], Cut)
    /\ Idle
    /\ UNCHANGED <<machine, run, args, summary>>

Finished == pc = "idle" /\ run = MaxRuns /\ UNCHANGED vars

Next ==
    \/ StartRunAll \/ StartCalibration \/ Skip \/ RunStep \/ RunSummary
    \/ OtherScript \/ SloSweep \/ SloFails \/ Frame \/ FramingFails \/ Save
    \/ Calibrate \/ Load \/ Simulate \/ Measure \/ Unload \/ SaveCells
    \/ Killed \/ Finished

Spec == Init /\ [][Next]_vars

----------------------------------------------------------------------------
(* Properties. *)

(* A file labelled with a host was simulated for the GPU of that host, the *)
(* framing of capacity_framing.py included, whatever nvidia-smi answered   *)
(* to each script; calibrations were also measured on that machine.        *)
FilesAreOfTheirHost ==
    \A file \in DOMAIN results : Sound(file, results[file])

(* When run_all reports capacity_framing OK, slo_throughput ran before it  *)
(* in the same run, and was read if both scripts detected the same host;   *)
(* only a user who continues on errors frames what a failed refresh left.  *)
FramingIsFresh ==
    LET slo == summary.slo_throughput
        framing == summary.capacity_framing
    IN  framing.status = "OK" =>
            \/ slo.status = "OK" /\ (framing.host = slo.host => framing.from = run)
            \/ slo.status = "FAIL" /\ args.continue

(* What run_calibration saves has a cell for every selected configuration  *)
(* and batch, exactly one, whatever failed; and what vLLM measured was     *)
(* measured on the configuration's own model.                              *)
EveryCellOnce ==
    (pc = "save" /\ todo[1][1][1] = "calibration") =>
      /\ \A c \in Chosen, b \in ToSet(Batches) :
            Cardinality({i \in DOMAIN cells : cells[i].config = c /\ cells[i].batch = b}) = 1
      /\ \A i \in DOMAIN cells :
            /\ cells[i].config \in Chosen
            /\ cells[i].vllm.status = "ok" => cells[i].vllm.by = cells[i].config.hf

(* Every cell that a script of run_all asks the simulator for is feasible: *)
(* the prompt has room for the visual tokens of its image and the sequence *)
(* stays below max_L on PIM; and the shapes roofline_per_vlm.py keeps are  *)
(* those of the model table.  (The two scripts that are left out break it: *)
(* README, section 8.)                                                     *)
SweptCellsFit ==
    /\ pc \in {"other", "slo_throughput", "run_calibration"} =>
         LET script == IF pc = "other" THEN Script ELSE pc IN
         script \in DOMAIN Swept!CellsOf \ {"upstream_baseline", "vit_recalibration"} =>
             \A cell \in Swept!CellsOf[script] : Swept!Feasible(cell)
    /\ (pc = "other" /\ Script = "roofline_per_vlm") =>
         \A m \in DOMAIN Swept!RooflineShapes :
             Swept!RooflineShapes[m] = Swept!Shape(Swept!V[m])

(* The GPU never holds two models at once.                                 *)
OneModelLoaded == Cardinality(resident) <= 1
=============================================================================
