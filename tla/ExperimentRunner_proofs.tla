----------------------- MODULE ExperimentRunner_proofs -----------------------
(***************************************************************************)
(* Proofs about the experiments on one machine, for any machines, models,  *)
(* batches, selections and old files and any number of runs: one model at  *)
(* a time is on the GPU, files are of the host they are labelled with, a   *)
(* framing that is reported OK is of the sweep of the same run, and what a *)
(* calibration saves has every cell once.                                  *)
(***************************************************************************)
EXTENDS ExperimentRunner, InductionLemmas, FiniteSetTheorems, SequenceTheorems, TLAPS

(* What occupies the GPU is the model of the group, while its cells run.   *)
LoadedInv ==
    /\ resident \subseteq {llm} \ {None}
    /\ pc \notin {"simulate", "measure"} => resident = {}

(* At most two files are waiting to be saved. *)
TodoShape == todo = <<>> \/ todo = <<todo[1]>> \/ todo = <<todo[1], todo[2]>>

(* Files are sound, those in results/ and those about to be saved, and the *)
(* GPU that labels a calibration is the one that was detected.             *)
HostInv ==
    /\ FilesAreOfTheirHost
    /\ TodoShape
    /\ pc = "save" => todo # <<>>
    /\ \A i \in DOMAIN todo : Sound(todo[i][1], todo[i][2])
    /\ pc \in {"load", "simulate", "measure"} => host \in detect_hw

----------------------------------------------------------------------------
(* Nothing is loaded before the first run.                                 *)
LEMMA LoadedInit == Init => LoadedInv
BY DEF Init, LoadedInv

(* A model is loaded when none is, and dropped before the next group.      *)
LEMMA LoadedStep == LoadedInv /\ [Next]_vars => LoadedInv'
<1> SUFFICES ASSUME LoadedInv, [Next]_vars
             PROVE  LoadedInv'
  OBVIOUS
<1> USE DEF LoadedInv
<1>idle. CASE Idle
  BY <1>idle DEF Idle
<1>ended. ASSUME NEW ok \in BOOLEAN, Ended(ok)
          PROVE  LoadedInv'
  BY <1>ended DEF Ended, Idle
<1>1. CASE StartRunAll \/ StartCalibration
  BY <1>1 DEF StartRunAll, StartCalibration, Start, calibration
<1>2. CASE Skip \/ RunStep \/ RunSummary
  BY <1>2, <1>idle DEF Skip, RunStep, RunSummary, calibration
<1>3. CASE OtherScript \/ SloFails \/ FramingFails
  BY <1>3, <1>ended DEF OtherScript, SloFails, FramingFails, Fails
<1>4. CASE SloSweep \/ Frame
  BY <1>4 DEF SloSweep, Frame, Saving, calibration
<1>5. CASE Save
  BY <1>5, <1>ended DEF Save, calibration
<1>6. CASE Calibrate \/ SaveCells
  BY <1>6 DEF Calibrate, SaveCells, calibration
<1>7. CASE Load
  BY <1>7 DEF Load
<1>8. CASE Simulate \/ Measure
  BY <1>8 DEF Simulate, Measure
<1>9. CASE Unload
  BY <1>9 DEF Unload, Dropped
<1>10. CASE Killed
  BY <1>10, <1>idle DEF Killed
<1>11. CASE Finished \/ UNCHANGED vars
  BY <1>11 DEF Finished, vars, calibration
<1> QED
  BY <1>1, <1>2, <1>3, <1>4, <1>5, <1>6, <1>7, <1>8, <1>9, <1>10, <1>11 DEF Next

(* The GPU never holds two models at once: run_calibration drops its last  *)
(* reference and collects before it loads the model of the next group.     *)
THEOREM OneModel == Spec => []OneModelLoaded
<1>1. LoadedInv => OneModelLoaded
  <2> SUFFICES ASSUME LoadedInv
               PROVE  Cardinality(resident) <= 1
    BY DEF OneModelLoaded
  <2>1. IsFiniteSet({llm}) /\ Cardinality({llm}) = 1
    BY FS_Singleton
  <2>2. resident \subseteq {llm}
    BY DEF LoadedInv
  <2>3. Cardinality(resident) <= Cardinality({llm})
    BY <2>1, <2>2, FS_Subset
  <2> QED
    BY <2>1, <2>3
<1> QED
  BY <1>1, LoadedInit, LoadedStep, PTL DEF Spec

----------------------------------------------------------------------------
(* The old results are sound by assumption, and nothing is to be saved.    *)
LEMMA HostInit == Init => HostInv
BY RunnerAssumption DEF Init, HostInv, FilesAreOfTheirHost, TodoShape

(* Emptying what is to be saved, and changing nothing else that HostInv    *)
(* speaks of, keeps it.                                                    *)
LEMMA NothingToSave ==
    ASSUME HostInv, todo' = <<>>, UNCHANGED <<machine, results>>,
           pc' \notin {"load", "simulate", "measure", "save"}
    PROVE  HostInv'
BY DEF HostInv, FilesAreOfTheirHost, TodoShape

(* A script that ends leaves no file to save behind.                       *)
LEMMA EndedKeeps ==
    ASSUME HostInv, NEW ok \in BOOLEAN, Ended(ok), UNCHANGED <<machine, results>>
    PROVE  HostInv'
BY NothingToSave DEF Ended, Idle

(* A sound file that is written leaves sound files behind.                 *)
LEMMA WrittenSound ==
    ASSUME FilesAreOfTheirHost, NEW file, NEW content, Sound(file, content),
           results' = Written(file, content)
    PROVE  FilesAreOfTheirHost'
BY DEF FilesAreOfTheirHost, Written, Sound, Hosts

(* So does a pair of files, the first labelled with no host.               *)
LEMMA SavingSound ==
    ASSUME HostInv, NEW name, NEW label, NEW content,
           Sound(File(name, label), content), Saving(name, label, content),
           UNCHANGED <<machine, results>>
    PROVE  HostInv'
<1>1. Sound(File(name, AnyHost), content)
  BY DEF Sound, File, AnyHost, Hosts
<1>2. /\ todo'[1][1] = File(name, AnyHost) /\ todo'[1][2] = content
      /\ todo'[2][1] = File(name, label) /\ todo'[2][2] = content
      /\ DOMAIN todo' = {1, 2} /\ todo' = <<todo'[1], todo'[2]>> /\ todo' # <<>>
  BY DEF Saving
<1>3. \A i \in DOMAIN todo' : Sound(todo'[i][1], todo'[i][2])
  BY <1>1, <1>2
<1>4. pc' = "save"
  BY DEF Saving
<1> QED
  BY <1>2, <1>3, <1>4 DEF HostInv, FilesAreOfTheirHost, TodoShape, Sound, Hosts

(* Saving takes the files in turn, each of them sound.                     *)
LEMMA SaveKeepsHosts == HostInv /\ Save => HostInv'
<1> SUFFICES ASSUME HostInv, Save
             PROVE  HostInv'
  OBVIOUS
<1>1. todo = <<todo[1]>> \/ todo = <<todo[1], todo[2]>>
  BY DEF HostInv, TodoShape, Save
<1>2. 1 \in DOMAIN todo
  BY <1>1
<1>3. FilesAreOfTheirHost'
  BY <1>2, WrittenSound DEF HostInv, Save
<1>4. CASE Len(todo) > 1
  <2>1. todo = <<todo[1], todo[2]>> /\ 2 \in DOMAIN todo
    BY <1>1, <1>4
  <2>2. todo' = <<todo[2]>>
    <3>1. todo' = Tail(todo)
      BY <1>4 DEF Save
    <3>2. \A a, b : Tail(<<a, b>>) = <<b>>
      OBVIOUS
    <3> QED
      BY <2>1, <3>1, <3>2
  <2>3. DOMAIN todo' = {1} /\ todo'[1] = todo[2] /\ todo' # <<>> /\ todo' = <<todo'[1]>>
    BY <2>2
  <2>4. \A i \in DOMAIN todo' : Sound(todo'[i][1], todo'[i][2])
    BY <2>1, <2>3 DEF HostInv
  <2> QED
    BY <1>3, <1>4, <2>3, <2>4 DEF HostInv, TodoShape, Save
<1>5. CASE ~(Len(todo) > 1)
  <2>1. Ended(TRUE)
    BY <1>5 DEF Save
  <2>2. todo' = <<>> /\ pc' \in {"idle", "driver"}
    BY <2>1 DEF Ended, Idle
  <2> QED
    BY <1>3, <2>2 DEF HostInv, TodoShape
<1> QED
  BY <1>4, <1>5

(* The label of a calibration is the GPU detected at its start, so that a  *)
(* label that names a host is the GPU it was simulated for and measured on.*)
LEMMA CalibrationKeepsHosts ==
    HostInv /\ (Calibrate \/ Load \/ Simulate \/ Measure \/ Unload \/ SaveCells) => HostInv'
<1> SUFFICES ASSUME HostInv
             PROVE  Calibrate \/ Load \/ Simulate \/ Measure \/ Unload \/ SaveCells => HostInv'
  OBVIOUS
<1> USE DEF HostInv, FilesAreOfTheirHost, TodoShape, Outside, detect_hw
<1>1. CASE Calibrate
  BY <1>1 DEF Calibrate
<1>2. CASE Load
  BY <1>2 DEF Load
<1>3. CASE Simulate
  BY <1>3 DEF Simulate
<1>4. CASE Measure
  BY <1>4 DEF Measure
<1>5. CASE Unload
  BY <1>5 DEF Unload
<1>6. CASE SaveCells
  <2> DEFINE file == File("calibration", host)
             content == Made(HW_TO_SIM(host), machine.gpu, run)
  <2>1. host \in Hosts => machine.gpu = host
    BY <1>6 DEF SaveCells, Hosts
  <2>2. Sound(file, content)
    BY <2>1 DEF Sound, File, Made, HW_TO_SIM
  <2>3. todo' = << <<file, content>> >>
    BY <1>6 DEF SaveCells
  <2>4. DOMAIN todo' = {1} /\ todo'[1][1] = file /\ todo'[1][2] = content
          /\ todo' # <<>> /\ todo' = <<todo'[1]>>
    BY <2>3
  <2>5. \A i \in DOMAIN todo' : Sound(todo'[i][1], todo'[i][2])
    BY <2>2, <2>4
  <2> QED
    BY <1>6, <2>4, <2>5 DEF SaveCells
<1> QED
  BY <1>1, <1>2, <1>3, <1>4, <1>5, <1>6

(* The sweep labels its files with the GPU it simulates; a framing is      *)
(* labelled with the host whose sweep it has read.                         *)
LEMMA SweepsKeepHosts == HostInv /\ (SloSweep \/ Frame) => HostInv'
<1> SUFFICES ASSUME HostInv
             PROVE  SloSweep \/ Frame => HostInv'
  OBVIOUS
<1>1. CASE SloSweep
  <2>1. PICK h \in detect_host : Saving("slo_throughput", h, Made(h, machine.gpu, run))
    BY <1>1 DEF SloSweep
  <2>2. Sound(File("slo_throughput", h), Made(h, machine.gpu, run))
    BY DEF Sound, File, Made
  <2> QED
    BY <1>1, <2>1, <2>2, SavingSound DEF SloSweep
<1>2. CASE Frame
  <2>1. PICK h \in detect_host :
            Readable(SloJson(h)) /\ Saving("capacity_framing", h, results[SloJson(h)])
    BY <1>2 DEF Frame
  <2>2. Sound(SloJson(h), results[SloJson(h)])
    BY <2>1 DEF HostInv, FilesAreOfTheirHost, Readable
  <2>3. Sound(File("capacity_framing", h), results[SloJson(h)])
    BY <2>2 DEF Sound, SloJson, File
  <2> QED
    BY <1>2, <2>1, <2>3, SavingSound DEF Frame
<1> QED
  BY <1>1, <1>2

(* No action leaves a file with the label of another GPU.                  *)
LEMMA HostStep == HostInv /\ [Next]_vars => HostInv'
<1> SUFFICES ASSUME HostInv, [Next]_vars
             PROVE  HostInv'
  OBVIOUS
<1>1. CASE StartRunAll \/ StartCalibration
  BY <1>1 DEF StartRunAll, StartCalibration, Start, HostInv, FilesAreOfTheirHost, TodoShape
<1>2. CASE Skip \/ RunStep
  BY <1>2 DEF Skip, RunStep, HostInv, FilesAreOfTheirHost, TodoShape
<1>3. CASE RunSummary
  BY <1>3, NothingToSave DEF RunSummary, Idle
<1>4. CASE OtherScript \/ SloFails \/ FramingFails
  BY <1>4, EndedKeeps DEF OtherScript, SloFails, FramingFails, Fails
<1>5. CASE Killed
  <2>1. todo' = <<>> /\ pc' = "idle" /\ UNCHANGED machine
    BY <1>5 DEF Killed, Idle
  <2>2. CASE UNCHANGED results
    BY <2>1, <2>2, NothingToSave
  <2>3. CASE results' = Written(todo[1][1], Cut)
    <3>1. FilesAreOfTheirHost'
      BY <2>3, WrittenSound DEF HostInv, Sound
    <3> QED
      BY <2>1, <3>1 DEF HostInv, TodoShape
  <2> QED
    BY <1>5, <2>2, <2>3 DEF Killed
<1>6. CASE Finished \/ UNCHANGED vars
  BY <1>6 DEF Finished, vars, HostInv, FilesAreOfTheirHost, TodoShape, detect_hw
<1> QED
  BY <1>1, <1>2, <1>3, <1>4, <1>5, <1>6, SaveKeepsHosts, CalibrationKeepsHosts,
     SweepsKeepHosts DEF Next

(* A file labelled with a host was simulated for its GPU, whatever         *)
(* nvidia-smi answers to each script, whatever fails or is killed, and a   *)
(* calibration was measured on it: for results that come with the          *)
(* repository in the same state (RunnerAssumption).                        *)
THEOREM FilesOfTheirHost == Spec => []FilesAreOfTheirHost
<1>1. HostInv => FilesAreOfTheirHost
  BY DEF HostInv
<1> QED
  BY <1>1, HostInit, HostStep, PTL DEF Spec
----------------------------------------------------------------------------
(* What run_all knows of the sweep (step 5) and of its framing (step 9).   *)

slo == summary.slo_throughput
framing == summary.capacity_framing

(* The step a part of a script belongs to; 0 when it was started alone.    *)
InStep ==
    /\ summary = [slo_throughput |-> slo, capacity_framing |-> framing]
    /\ step \in 0..12
    /\ pc = "driver" => step # 0
    /\ pc = "slo_throughput" => step = 5
    /\ pc = "capacity_framing" => step = 9
    /\ pc = "other" => step \in 1..11 \ {2, 5, 9}
    /\ pc \in {"run_calibration", "load", "simulate", "measure"} => step \in {0, 2}
    /\ pc = "save" => step \in {0, 2, 5, 9}

(* The line of the sweep is settled before the framing starts, both or     *)
(* none are skipped, and nothing overwrites the file in between.           *)
Settled ==
    \/ slo.status = "OK"
    \/ slo.status = "FAIL" /\ args.continue
    \/ slo.status = "SKIP" /\ SloPhase \in args.skip
Refreshed(file) == file \in DOMAIN results /\ results[file].from = run
SweepInv ==
    pc # "idle" =>
        /\ step <= 9 => framing.status # "OK"
        /\ step > 5 => Settled
        /\ step \in 6..9 /\ slo.status = "OK" => Refreshed(SloJson(slo.host))
        /\ pc = "capacity_framing" => SloPhase \notin args.skip

(* What the two scripts are about to save. *)
Sweeping(item) == item[1] = SloJson(host) /\ item[2].from = run
Framing(item) ==
    /\ item[1][1] = "capacity_framing"
    /\ slo.status = "OK" /\ host = slo.host => item[2].from = run
SaveInv ==
    /\ TodoShape
    /\ pc # "save" => todo = <<>>
    /\ pc = "save" /\ step = 5 =>
          \/ todo = <<todo[1]>> /\ Sweeping(todo[1])
          \/ todo = <<todo[1], todo[2]>> /\ Sweeping(todo[2])
    /\ pc = "save" /\ step = 9 =>
          /\ SloPhase \notin args.skip
          /\ todo # <<>> /\ \A i \in DOMAIN todo : Framing(todo[i])

FreshInv == InStep /\ SweepInv /\ SaveInv /\ FramingIsFresh

(* The places of the three scripts in STEPS, and the phase two of them     *)
(* share.                                                                  *)
LEMMA StepNames ==
    /\ Len(STEPS) = 11
    /\ \A s \in 1..11 : /\ STEPS[s].script = "slo_throughput" <=> s = 5
                        /\ STEPS[s].script = "capacity_framing" <=> s = 9
                        /\ STEPS[s].script = "run_calibration" <=> s = 2
    /\ STEPS[5].phase = SloPhase /\ STEPS[9].phase = SloPhase
BY DEF STEPS, Step, SloPhase

(* A line is about the sweep, about the framing or about neither. *)
LEMMA Lines ==
    ASSUME InStep, step \in 1..11, NEW status, NEW from
    PROVE  LET new == [status |-> status, host |-> host, from |-> from]
           IN  /\ step = 5 => Line(Script, status, from)
                                 = [slo_throughput |-> new, capacity_framing |-> framing]
               /\ step = 9 => Line(Script, status, from)
                                 = [slo_throughput |-> slo, capacity_framing |-> new]
               /\ step \notin {5, 9} => Line(Script, status, from) = summary
<1>1. DOMAIN summary = {"slo_throughput", "capacity_framing"}
  BY DEF InStep
<1>2. CASE step = 5
  BY <1>1, <1>2, StepNames DEF Line, Script, InStep
<1>3. CASE step = 9
  BY <1>1, <1>3, StepNames DEF Line, Script, InStep
<1>4. CASE step \notin {5, 9}
  BY <1>1, <1>4, StepNames DEF Line, Script
<1> QED
  BY <1>2, <1>3, <1>4

(* Going on with the next step keeps the invariant when the script ends as *)
(* its line says.                                                          *)
LEMMA NextStep ==
    ASSUME FreshInv, pc # "idle", step \in 1..11,
           pc' = "driver", step' = step + 1, todo' = <<>>, UNCHANGED <<run, args>>,
           NEW status, NEW from, summary' = Line(Script, status, from),
           step \in 6..9 /\ slo.status = "OK" =>
               /\ SloJson(slo.host) \in DOMAIN results'
               /\ results'[SloJson(slo.host)].from = run,
           step = 5 =>
               \/ /\ status = "OK" /\ SloJson(host) \in DOMAIN results'
                  /\ results'[SloJson(host)].from = run
               \/ status = "FAIL" /\ args.continue
               \/ status = "SKIP" /\ SloPhase \in args.skip,
           step = 9 /\ status = "OK" =>
               /\ SloPhase \notin args.skip
               /\ slo.status = "OK" /\ host = slo.host => from = run
    PROVE  FreshInv'
<1> DEFINE new == [status |-> status, host |-> host, from |-> from]
<1>0. SaveInv'
  BY DEF SaveInv, TodoShape
<1>1. CASE step = 5
  <2>1. summary' = [slo_throughput |-> new, capacity_framing |-> framing]
    BY <1>1, Lines DEF FreshInv
  <2>2. slo' = new /\ framing' = framing
    BY <2>1 DEF slo, framing
  <2>3. framing.status # "OK"
    BY <1>1 DEF FreshInv, SweepInv
  <2>4. SweepInv'
    BY <1>1, <2>2, <2>3 DEF SweepInv, Settled, Refreshed, SloJson
  <2>5. FramingIsFresh'
    BY <2>2, <2>3 DEF FramingIsFresh, framing
  <2> QED
    BY <1>0, <1>1, <2>1, <2>2, <2>4, <2>5 DEF FreshInv, InStep
<1>2. CASE step = 9
  <2>1. summary' = [slo_throughput |-> slo, capacity_framing |-> new]
    BY <1>2, Lines DEF FreshInv
  <2>2. slo' = slo /\ framing' = new
    BY <2>1 DEF slo, framing
  <2>3. Settled
    BY <1>2 DEF FreshInv, SweepInv
  <2>4. SweepInv'
    BY <1>2, <2>2, <2>3 DEF SweepInv, Settled
  <2>5. FramingIsFresh'
    BY <1>2, <2>2, <2>3 DEF FramingIsFresh, framing, slo, Settled
  <2> QED
    BY <1>0, <1>2, <2>1, <2>2, <2>4, <2>5 DEF FreshInv, InStep
<1>3. CASE step \notin {5, 9}
  <2>1. summary' = summary
    BY <1>3, Lines DEF FreshInv
  <2>2. slo' = slo /\ framing' = framing
    BY <2>1 DEF slo, framing
  <2>3. SweepInv'
    BY <1>3, <2>2 DEF FreshInv, SweepInv, Settled, Refreshed, SloJson
  <2>4. FramingIsFresh'
    BY <2>1 DEF FreshInv, FramingIsFresh
  <2> QED
    BY <1>0, <1>3, <2>1, <2>2, <2>3, <2>4 DEF FreshInv, InStep
<1> QED
  BY <1>1, <1>2, <1>3

(* So does stopping, when it leaves the lines or notes a failure.          *)
LEMMA Stop ==
    ASSUME FreshInv, Idle, UNCHANGED <<run, args>>,
           \/ summary' = summary
           \/ pc # "idle" /\ step \in 1..11 /\ summary' = Line(Script, "FAIL", 0)
    PROVE  FreshInv'
<1>1. SaveInv' /\ SweepInv' /\ step' \in 0..12 /\ pc' = "idle"
  BY DEF Idle, SaveInv, SweepInv, TodoShape
<1>2. CASE summary' = summary
  BY <1>1, <1>2 DEF FreshInv, InStep, FramingIsFresh, slo, framing
<1>3. CASE pc # "idle" /\ step \in 1..11 /\ summary' = Line(Script, "FAIL", 0)
  <2> DEFINE new == [status |-> "FAIL", host |-> host, from |-> 0]
  <2>1. CASE step = 5
    <3>1. summary' = [slo_throughput |-> new, capacity_framing |-> framing]
      BY <1>3, <2>1, Lines DEF FreshInv
    <3>2. framing.status # "OK"
      BY <1>3, <2>1 DEF FreshInv, SweepInv
    <3> QED
      BY <1>1, <3>1, <3>2 DEF FreshInv, InStep, FramingIsFresh, slo, framing
  <2>2. CASE step = 9
    <3>1. summary' = [slo_throughput |-> slo, capacity_framing |-> new]
      BY <1>3, <2>2, Lines DEF FreshInv
    <3> QED
      BY <1>1, <3>1 DEF FreshInv, InStep, FramingIsFresh, slo, framing
  <2>3. CASE step \notin {5, 9}
    <3>1. summary' = summary
      BY <1>3, <2>3, Lines DEF FreshInv
    <3> QED
      BY <1>2, <3>1
  <2> QED
    BY <2>1, <2>2, <2>3
<1> QED
  BY <1>2, <1>3

(* A script that fails ends the run, unless the user asked to continue.    *)
LEMMA FailureKeeps ==
    ASSUME FreshInv, Fails, pc \notin {"idle", "driver"}, step \in 0..11
    PROVE  FreshInv'
<1>1. UNCHANGED <<run, args, results>>
  BY DEF Fails
<1>2. CASE step = 0
  BY <1>1, <1>2, Stop DEF Fails, Ended
<1>3. CASE step # 0 /\ ~args.continue
  BY <1>1, <1>3, Stop DEF Fails, Ended
<1>4. CASE step # 0 /\ args.continue
  <2>1. /\ pc' = "driver" /\ step' = step + 1 /\ todo' = <<>>
        /\ summary' = Line(Script, "FAIL", 0)
    BY <1>4 DEF Fails, Ended
  <2>2. step \in 6..9 /\ slo.status = "OK" =>
            /\ SloJson(slo.host) \in DOMAIN results'
            /\ results'[SloJson(slo.host)].from = run
    BY <1>1 DEF FreshInv, SweepInv, Refreshed
  <2> QED
    BY <1>1, <1>4, <2>1, <2>2, NextStep
<1> QED
  BY <1>2, <1>3, <1>4

(* No run has reported anything yet.                                       *)
LEMMA FreshInit == Init => FreshInv
BY DEF Init, FreshInv, InStep, SweepInv, SaveInv, TodoShape, FramingIsFresh, NoSummary, NoLine,
       slo, framing

(* The driver itself skips steps or starts their scripts.                  *)
LEMMA DriverKeepsFresh ==
    FreshInv /\ (StartRunAll \/ StartCalibration \/ Skip \/ RunStep \/ RunSummary) => FreshInv'
<1> SUFFICES ASSUME FreshInv
             PROVE  StartRunAll \/ StartCalibration \/ Skip \/ RunStep \/ RunSummary => FreshInv'
  OBVIOUS
<1>1. CASE StartRunAll \/ StartCalibration
  <2>1. /\ pc = "idle" /\ summary' = NoSummary /\ todo' = todo
        /\ \/ pc' = "driver" /\ step' = 1
           \/ pc' = "run_calibration" /\ step' = 0
    BY <1>1 DEF StartRunAll, StartCalibration, Start
  <2>2. slo'.status = "none" /\ framing'.status = "none"
          /\ summary' = [slo_throughput |-> slo', capacity_framing |-> framing']
    BY <2>1 DEF NoSummary, NoLine, slo, framing
  <2>3. InStep' /\ SaveInv'
    BY <2>1, <2>2 DEF FreshInv, InStep, SaveInv, TodoShape
  <2>4. SweepInv' /\ FramingIsFresh'
    BY <2>1, <2>2 DEF SweepInv, FramingIsFresh, slo, framing
  <2> QED
    BY <2>3, <2>4 DEF FreshInv
<1>2. CASE Skip
  <2>1. step \in 1..11 /\ pc = "driver" /\ pc' = pc
    BY <1>2, StepNames DEF Skip, FreshInv, InStep
  <2>2. todo' = <<>>
    BY <1>2, <2>1 DEF Skip, FreshInv, SaveInv
  <2>3. step = 5 => SloPhase \in args.skip
    BY <1>2, StepNames DEF Skip
  <2>4. step \in 6..9 /\ slo.status = "OK" =>
            /\ SloJson(slo.host) \in DOMAIN results'
            /\ results'[SloJson(slo.host)].from = run
    BY <1>2, <2>1 DEF Skip, FreshInv, SweepInv, Refreshed
  <2> QED
    BY <1>2, <2>1, <2>2, <2>3, <2>4, NextStep DEF Skip
<1>3. CASE RunStep
  <2>1. step \in 1..11 /\ pc = "driver" /\ slo' = slo /\ framing' = framing
    BY <1>3, StepNames DEF RunStep, FreshInv, InStep, slo, framing
  <2>2. /\ pc' = "slo_throughput" <=> step = 5
        /\ pc' = "capacity_framing" <=> step = 9
        /\ pc' = "run_calibration" <=> step = 2
        /\ pc' \in {"slo_throughput", "capacity_framing", "run_calibration", "other"}
    BY <1>3, <2>1, StepNames DEF RunStep, Script
  <2>3. step = 9 => SloPhase \notin args.skip
    BY <1>3, StepNames DEF RunStep
  <2>4. InStep'
    BY <1>3, <2>1, <2>2 DEF RunStep, FreshInv, InStep
  <2>5. SweepInv'
    BY <1>3, <2>1, <2>2, <2>3 DEF RunStep, FreshInv, SweepInv, Settled, Refreshed, SloJson
  <2>6. SaveInv' /\ FramingIsFresh'
    BY <1>3, <2>2 DEF RunStep, FreshInv, SaveInv, TodoShape, FramingIsFresh
  <2> QED
    BY <2>4, <2>5, <2>6 DEF FreshInv
<1>4. CASE RunSummary
  BY <1>4, Stop DEF RunSummary
<1> QED
  BY <1>1, <1>2, <1>3, <1>4

(* The sweep and its framing prepare what they will save; other scripts    *)
(* touch neither.                                                          *)
LEMMA ScriptsKeepFresh ==
    FreshInv /\ (OtherScript \/ SloSweep \/ SloFails \/ Frame \/ FramingFails) => FreshInv'
<1> SUFFICES ASSUME FreshInv
             PROVE  OtherScript \/ SloSweep \/ SloFails \/ Frame \/ FramingFails => FreshInv'
  OBVIOUS
<1>1. ASSUME pc \in {"other", "slo_throughput", "capacity_framing"}, Fails
      PROVE  FreshInv'
  BY <1>1, FailureKeeps DEF FreshInv, InStep
<1>2. CASE SloFails \/ FramingFails
  BY <1>1, <1>2 DEF SloFails, FramingFails
<1>3. CASE OtherScript
  <2>1. CASE Fails
    BY <1>1, <1>3, <2>1 DEF OtherScript
  <2>2. CASE Ended(TRUE) /\ UNCHANGED <<machine, run, args, summary, results>>
    <3>1. step \in 1..11 \ {2, 5, 9} /\ pc = "other"
      BY <1>3 DEF OtherScript, FreshInv, InStep
    <3>2. Line(Script, "OK", 0) = summary
      BY <3>1, Lines DEF FreshInv
    <3>3. step \in 6..9 /\ slo.status = "OK" =>
              /\ SloJson(slo.host) \in DOMAIN results'
              /\ results'[SloJson(slo.host)].from = run
      BY <2>2, <3>1 DEF FreshInv, SweepInv, Refreshed
    <3>4. pc' = "driver" /\ step' = step + 1 /\ todo' = <<>>
      BY <2>2, <3>1 DEF Ended
    <3> QED
      BY <2>2, <3>1, <3>2, <3>3, <3>4, NextStep
  <2> QED
    BY <1>3, <2>1, <2>2 DEF OtherScript
<1>4. CASE SloSweep
  <2>1. PICK h \in detect_host : Saving("slo_throughput", h, Made(h, machine.gpu, run))
    BY <1>4 DEF SloSweep
  <2>2. /\ todo'[2][1] = SloJson(h) /\ todo'[2][2].from = run
        /\ todo' = <<todo'[1], todo'[2]>> /\ host' = h /\ pc' = "save"
    BY <2>1 DEF Saving, SloJson, Made
  <2>3. step = 5 /\ slo' = slo /\ framing' = framing
    BY <1>4 DEF SloSweep, FreshInv, InStep, slo, framing
  <2>4. SaveInv'
    BY <1>4, <2>2, <2>3 DEF SloSweep, SaveInv, TodoShape, Sweeping, SloJson
  <2>5. SweepInv' /\ FramingIsFresh'
    BY <1>4, <2>2, <2>3 DEF SloSweep, FreshInv, SweepInv, FramingIsFresh
  <2> QED
    BY <1>4, <2>2, <2>3, <2>4, <2>5 DEF SloSweep, FreshInv, InStep
<1>5. CASE Frame
  <2>1. PICK h \in detect_host :
            Readable(SloJson(h)) /\ Saving("capacity_framing", h, results[SloJson(h)])
    BY <1>5 DEF Frame
  <2>2. /\ todo'[1][1][1] = "capacity_framing" /\ todo'[2][1][1] = "capacity_framing"
        /\ todo'[1][2] = results[SloJson(h)] /\ todo'[2][2] = results[SloJson(h)]
        /\ todo' = <<todo'[1], todo'[2]>> /\ DOMAIN todo' = {1, 2} /\ todo' # <<>>
        /\ host' = h /\ pc' = "save"
    BY <2>1 DEF Saving, File
  <2>3. step = 9 /\ slo' = slo /\ framing' = framing
    BY <1>5 DEF Frame, FreshInv, InStep, slo, framing
  <2>4. SloPhase \notin args.skip /\ (slo.status = "OK" => Refreshed(SloJson(slo.host)))
    BY <1>5, <2>3 DEF Frame, FreshInv, SweepInv
  <2>5. \A i \in DOMAIN todo' : Framing(todo[i])'
    BY <1>5, <2>2, <2>3, <2>4 DEF Frame, Framing, Refreshed
  <2>6. SaveInv'
    BY <1>5, <2>2, <2>3, <2>4, <2>5 DEF Frame, SaveInv, TodoShape
  <2>7. SweepInv' /\ FramingIsFresh'
    BY <1>5, <2>3 DEF Frame, FreshInv, SweepInv, FramingIsFresh, Settled, Refreshed, SloJson
  <2> QED
    BY <1>5, <2>2, <2>3, <2>6, <2>7 DEF Frame, FreshInv, InStep
<1> QED
  BY <1>2, <1>3, <1>4, <1>5

(* run_calibration is not at the step of the sweep or of the framing.      *)
LEMMA CalibrationKeepsFresh ==
    FreshInv /\ (Calibrate \/ Load \/ Simulate \/ Measure \/ Unload \/ SaveCells) => FreshInv'
<1> SUFFICES ASSUME FreshInv
             PROVE  Calibrate \/ Load \/ Simulate \/ Measure \/ Unload \/ SaveCells => FreshInv'
  OBVIOUS
<1>1. ASSUME pc \in {"run_calibration", "load", "simulate", "measure"},
             pc' \in {"run_calibration", "load", "simulate", "measure"},
             UNCHANGED <<run, args, step, summary, results, todo>>
      PROVE  FreshInv'
  BY <1>1 DEF FreshInv, InStep, SweepInv, SaveInv, TodoShape, FramingIsFresh, slo, framing
<1>2. CASE Calibrate \/ Load \/ Simulate \/ Measure \/ Unload
  BY <1>1, <1>2 DEF Calibrate, Load, Simulate, Measure, Unload, Outside
<1>3. CASE SaveCells
  <2>1. todo' = <<todo'[1]>> /\ pc = "load" /\ pc' = "save"
    BY <1>3 DEF SaveCells
  <2> QED
    BY <1>3, <2>1 DEF SaveCells, Outside, FreshInv, InStep, SweepInv, SaveInv, TodoShape,
                      FramingIsFresh, slo, framing
<1> QED
  BY <1>2, <1>3

(* The last file of the sweep is the one its framing reads; the files of   *)
(* the framing have another name and do not overwrite it.                  *)
LEMMA SaveKeepsFresh == FreshInv /\ Save => FreshInv'
<1> SUFFICES ASSUME FreshInv, Save
             PROVE  FreshInv'
  OBVIOUS
<1>1. /\ pc = "save" /\ results' = Written(todo[1][1], todo[1][2])
      /\ step \in {0, 2, 5, 9} /\ UNCHANGED <<machine, run, args>>
  BY DEF Save, FreshInv, InStep
<1>2. step = 9 => /\ 1 \in DOMAIN todo /\ Framing(todo[1])
                  /\ SloPhase \notin args.skip
  <2>1. step = 9 => todo # <<>> /\ TodoShape
    BY <1>1 DEF FreshInv, SaveInv
  <2>2. step = 9 => 1 \in DOMAIN todo
    BY <2>1 DEF TodoShape
  <2> QED
    BY <1>1, <2>2 DEF FreshInv, SaveInv
<1>3. step \in 6..9 /\ slo.status = "OK" =>
          /\ SloJson(slo.host) \in DOMAIN results'
          /\ results'[SloJson(slo.host)].from = run
  <2> SUFFICES ASSUME step = 9, slo.status = "OK"
               PROVE  /\ SloJson(slo.host) \in DOMAIN results'
                      /\ results'[SloJson(slo.host)].from = run
    BY <1>1
  <2>1. todo[1][1] # SloJson(slo.host)
    BY <1>2 DEF Framing, SloJson, File
  <2>2. Refreshed(SloJson(slo.host))
    BY <1>1 DEF FreshInv, SweepInv
  <2> QED
    BY <1>1, <2>1, <2>2 DEF Written, Refreshed
<1>4. CASE Len(todo) > 1
  <2>1. todo = <<todo[1], todo[2]>> /\ 2 \in DOMAIN todo
    BY <1>4 DEF FreshInv, SaveInv, TodoShape
  <2>2. todo' = <<todo[2]>>
    <3>1. todo' = Tail(todo)
      BY <1>4 DEF Save
    <3>2. \A a, b : Tail(<<a, b>>) = <<b>>
      OBVIOUS
    <3> QED
      BY <2>1, <3>1, <3>2
  <2>3. DOMAIN todo' = {1} /\ todo'[1] = todo[2] /\ todo' # <<>> /\ todo' = <<todo'[1]>>
    BY <2>2
  <2>4. /\ UNCHANGED <<pc, step, summary, host>> /\ slo' = slo /\ framing' = framing
    BY <1>4 DEF Save, slo, framing
  <2>5. step = 5 => Sweeping(todo[1])'
    <3>1. step = 5 => Sweeping(todo[2])
      BY <1>1, <1>4, <2>1 DEF FreshInv, SaveInv
    <3> QED
      BY <1>1, <2>3, <2>4, <3>1 DEF Sweeping, SloJson
  <2>6. step = 9 => Framing(todo[1])'
    <3>1. step = 9 => Framing(todo[2])
      BY <1>1, <2>1 DEF FreshInv, SaveInv
    <3> QED
      BY <1>1, <2>3, <2>4, <3>1 DEF Framing
  <2>7. SaveInv'
    BY <1>1, <1>2, <2>3, <2>4, <2>5, <2>6 DEF SaveInv, TodoShape
  <2>8. SweepInv'
    BY <1>1, <1>3, <2>4 DEF FreshInv, SweepInv, Settled, Refreshed, SloJson
  <2> QED
    BY <1>1, <2>4, <2>7, <2>8 DEF FreshInv, InStep, FramingIsFresh
<1>5. CASE ~(Len(todo) > 1)
  <2>1. /\ Ended(TRUE)
        /\ summary' = IF step = 0 THEN summary ELSE Line(Script, "OK", todo[1][2].from)
    BY <1>5 DEF Save
  <2>2. CASE step = 0
    BY <1>1, <2>1, <2>2, Stop DEF Ended
  <2>3. CASE step # 0
    <3>1. pc' = "driver" /\ step' = step + 1 /\ todo' = <<>>
      BY <2>1, <2>3 DEF Ended
    <3>2. step = 5 => /\ SloJson(host) \in DOMAIN results'
                      /\ results'[SloJson(host)].from = run
      <4>1. step = 5 => Sweeping(todo[1])
        BY <1>1, <1>5 DEF FreshInv, SaveInv
      <4> QED
        BY <1>1, <4>1 DEF Sweeping, Written
    <3>3. step = 9 => (slo.status = "OK" /\ host = slo.host => todo[1][2].from = run)
      BY <1>2 DEF Framing
    <3> QED
      BY <1>1, <1>2, <1>3, <2>1, <2>3, <3>1, <3>2, <3>3, NextStep
  <2> QED
    BY <2>2, <2>3
<1> QED
  BY <1>4, <1>5

(* No action reports a framing of what an earlier run left.                *)
LEMMA FreshStep == FreshInv /\ [Next]_vars => FreshInv'
<1> SUFFICES ASSUME FreshInv, [Next]_vars
             PROVE  FreshInv'
  OBVIOUS
<1>1. CASE Killed
  BY <1>1, Stop DEF Killed
<1>2. CASE Finished \/ UNCHANGED vars
  BY <1>2 DEF Finished, vars, FreshInv, InStep, SweepInv, SaveInv, TodoShape, FramingIsFresh,
              Settled, Refreshed, Sweeping, Framing, SloJson, slo, framing
<1> QED
  BY <1>1, <1>2, DriverKeepsFresh, ScriptsKeepFresh, CalibrationKeepsFresh, SaveKeepsFresh
     DEF Next

(* What run_all reports OK for capacity_framing is the sweep of the same   *)
(* run whenever both scripts detect the same host, for any set of skipped  *)
(* phases: the step that refreshes the file is in the phase of its reader. *)
THEOREM FramingFresh == Spec => []FramingIsFresh
<1>1. FreshInv => FramingIsFresh
  BY DEF FreshInv
<1> QED
  BY <1>1, FreshInit, FreshStep, PTL DEF Spec

-----------------------------------------------------------------------------
(***************************************************************************)
(* The cells of run_calibration.                                           *)
(***************************************************************************)
(* Numbers up to n can be put in order, and the order has all of them.     *)
Ascending(s) == \A i, j \in DOMAIN s : i < j => s[i] < s[j]

LEMMA OrderExists ==
    ASSUME NEW n \in Nat
    PROVE  \A S \in SUBSET (1..n) : \E s \in [1..Cardinality(S) -> S] : Ascending(s)
<1> DEFINE Q(m) == \A S \in SUBSET (1..m) : \E s \in [1..Cardinality(S) -> S] : Ascending(s)
           P == {m \in Nat : Q(m)}
<1>1. 0 \in P
  <2> SUFFICES ASSUME NEW S \in SUBSET (1..0)
               PROVE  \E s \in [1..Cardinality(S) -> S] : Ascending(s)
    OBVIOUS
  <2>1. S = {}
    OBVIOUS
  <2>2. Cardinality(S) = 0
    BY <2>1, FS_EmptySet
  <2> DEFINE s == [i \in 1..Cardinality(S) |-> i]
  <2>3. s \in [1..Cardinality(S) -> S] /\ Ascending(s)
    BY <2>2 DEF Ascending
  <2> QED
    BY <2>3
<1>2. ASSUME NEW m \in Nat, m \in P PROVE m + 1 \in P
  <2> SUFFICES ASSUME NEW S \in SUBSET (1..m+1)
               PROVE  \E s \in [1..Cardinality(S) -> S] : Ascending(s)
    OBVIOUS
  <2> DEFINE T == S \ {m + 1}
  <2>1. T \in SUBSET (1..m) /\ (m + 1 \notin S => T = S)
    OBVIOUS
  <2>2. IsFiniteSet(1..m)
    BY FS_Interval
  <2>3. IsFiniteSet(T) /\ Cardinality(T) \in Nat
    BY <2>1, <2>2, FS_Subset, FS_CardinalityType
  <2>4. m + 1 \in S => Cardinality(S) = Cardinality(T) + 1
    <3>1. m + 1 \in S => S = T \cup {m + 1}
      OBVIOUS
    <3>2. m + 1 \notin T
      OBVIOUS
    <3> HIDE DEF T
    <3> QED
      BY <2>3, <3>1, <3>2, FS_AddElement
  <2>5. PICK t \in [1..Cardinality(T) -> T] : Ascending(t)
    BY <1>2, <2>1
  <2>6. CASE m + 1 \notin S
    BY <2>1, <2>5, <2>6
  <2>7. CASE m + 1 \in S
    <3> DEFINE c == Cardinality(T)
               s == [i \in 1..c+1 |-> IF i = c + 1 THEN m + 1 ELSE t[i]]
    <3> HIDE DEF T
    <3>1. T \subseteq S /\ \A x \in T : x \in Int /\ x < m + 1
      BY <2>1 DEF T
    <3>2. c \in Nat /\ t \in [1..c -> T]
      BY <2>3, <2>5
    <3> HIDE DEF c
    <3>3. \A i \in 1..c : s[i] = t[i] /\ t[i] \in T
      <4> SUFFICES ASSUME NEW i \in 1..c PROVE s[i] = t[i] /\ t[i] \in T
        OBVIOUS
      <4>1. i \in 1..c+1 /\ i # c + 1
        BY <3>2
      <4>2. t[i] \in T
        BY <3>2
      <4> QED
        BY <4>1, <4>2
    <3>4. s[c + 1] = m + 1
      BY <3>2
    <3>5. \A i \in 1..c+1 : i \in 1..c \/ i = c + 1
      BY <3>2
    <3>6. s \in [1..c+1 -> S]
      BY <2>7, <3>1, <3>3, <3>4, <3>5
    <3>7. Ascending(s)
      <4> SUFFICES ASSUME NEW i \in 1..c+1, NEW j \in 1..c+1, i < j PROVE s[i] < s[j]
        BY DEF Ascending
      <4>1. i \in 1..c
        BY <3>2
      <4>2. CASE j \in 1..c
        <5>1. t[i] < t[j]
          BY <2>5, <3>2, <4>1, <4>2 DEF Ascending
        <5> QED
          BY <3>3, <4>1, <4>2, <5>1
      <4>3. CASE j = c + 1
        BY <3>1, <3>3, <3>4, <4>1, <4>3
      <4> QED
        BY <3>5, <4>2, <4>3
    <3>8. Cardinality(S) = c + 1
      BY <2>4, <2>7 DEF c
    <3> HIDE DEF s
    <3> QED
      BY <3>6, <3>7, <3>8
  <2> QED
    BY <2>6, <2>7
<1> QED
  <2> HIDE DEF P
  <2>1. n \in P
    BY <1>1, <1>2, SetInduction
  <2> QED
    BY <2>1 DEF P

LEMMA InOrderOf ==
    ASSUME NEW n \in Nat, NEW S \in SUBSET (1..n)
    PROVE  /\ InOrder(S) \in [1..Cardinality(S) -> S]
           /\ Cardinality(S) \in Nat
           /\ \A i, j \in 1..Cardinality(S) : InOrder(S)[i] = InOrder(S)[j] => i = j
           /\ \A x \in S : \E i \in 1..Cardinality(S) : InOrder(S)[i] = x
<1> DEFINE c == Cardinality(S)
           s == InOrder(S)
<1>1. IsFiniteSet(S) /\ c \in Nat
  <2>1. IsFiniteSet(1..n)
    BY FS_Interval
  <2> QED
    BY <2>1, FS_Subset, FS_CardinalityType
<1>2. s \in [1..c -> S] /\ Ascending(s)
  <2>1. \E t \in [1..c -> S] : \A i, j \in DOMAIN t : i < j => t[i] < t[j]
    BY OrderExists DEF Ascending
  <2> QED
    BY <2>1 DEF InOrder, Ascending
<1> HIDE DEF s, c
<1>3. \A i, j \in 1..c : s[i] = s[j] => i = j
  <2> SUFFICES ASSUME NEW i \in 1..c, NEW j \in 1..c, i < j PROVE s[i] # s[j]
    BY <1>1
  <2>1. s[i] < s[j] /\ s[i] \in 1..n /\ s[j] \in 1..n
    BY <1>2 DEF Ascending
  <2> QED
    BY <2>1
<1>4. IsFiniteSet(1..c) /\ Cardinality(1..c) = c
  BY <1>1, FS_Interval
<1>5. s \in Injection(1..c, S)
  BY <1>2, <1>3 DEF Injection, IsInjective
<1>6. s \in Surjection(1..c, S)
  BY <1>1, <1>4, <1>5, FS_Injection DEF c
<1>7. \A x \in S : \E i \in 1..c : s[i] = x
  BY <1>6 DEF Surjection
<1> QED
  BY <1>1, <1>2, <1>3, <1>7 DEF s, c

(* Quotient and remainder. *)
LEMMA Quotient ==
    ASSUME NEW a \in Nat, NEW n \in Nat \ {0}
    PROVE  /\ a \div n \in Nat /\ a % n \in 0..n-1
           /\ a = (a \div n) * n + (a % n)
<1>1. a \div n \in Nat /\ a % n \in 0..n-1
  BY Z3
<1>2. a = (a \div n) * n + (a % n)
  BY Z3
<1> QED
  BY <1>1, <1>2

(* The loop over batches within the loop over configurations takes every   *)
(* pair once.                                                              *)
LEMMA TwoLoops ==
    ASSUME NEW n \in Nat \ {0}, NEW l \in Nat
    PROVE  /\ \A k \in 1..l*n : (k - 1) \div n + 1 \in 1..l /\ ((k - 1) % n) + 1 \in 1..n
           /\ \A j, k \in 1..l*n :
                 (j - 1) \div n = (k - 1) \div n /\ (j - 1) % n = (k - 1) % n => j = k
           /\ \A q \in 1..l, r \in 1..n : \E k \in 1..l*n :
                 (k - 1) \div n + 1 = q /\ ((k - 1) % n) + 1 = r
<1>0. l * n \in Nat
  OBVIOUS
<1>1. ASSUME NEW k \in 1..l*n
      PROVE  (k - 1) \div n + 1 \in 1..l /\ ((k - 1) % n) + 1 \in 1..n
  <2> DEFINE q == (k - 1) \div n
  <2>1. k - 1 \in Nat /\ k - 1 < l * n
    BY <1>0
  <2>2. q \in Nat /\ (k - 1) % n \in 0..n-1 /\ k - 1 = q * n + ((k - 1) % n)
    BY <2>1, Quotient
  <2> HIDE DEF q
  <2>3. q < l
    <3> SUFFICES ASSUME q >= l PROVE FALSE
      BY <2>2
    <3>1. q * n >= l * n
      BY <2>2
    <3>2. q * n \in Nat
      BY <2>2
    <3> QED
      BY <1>0, <2>1, <2>2, <3>1, <3>2
  <2> QED
    BY <2>2, <2>3 DEF q
<1>2. ASSUME NEW j \in 1..l*n, NEW k \in 1..l*n,
             (j - 1) \div n = (k - 1) \div n, (j - 1) % n = (k - 1) % n
      PROVE  j = k
  <2>1. j - 1 \in Nat /\ k - 1 \in Nat
    BY <1>0
  <2>2. /\ j - 1 = ((j - 1) \div n) * n + ((j - 1) % n)
        /\ k - 1 = ((k - 1) \div n) * n + ((k - 1) % n)
    BY <2>1, Quotient
  <2>3. j - 1 = k - 1
    BY <1>2, <2>2, Zenon
  <2> QED
    BY <1>0, <2>3
<1>3. ASSUME NEW q \in 1..l, NEW r \in 1..n
      PROVE  \E k \in 1..l*n : (k - 1) \div n + 1 = q /\ ((k - 1) % n) + 1 = r
  <2> DEFINE a == (q - 1) * n + (r - 1)
  <2>1. q - 1 \in Nat /\ r - 1 \in Nat /\ r - 1 < n
    OBVIOUS
  <2>2. (q - 1) * n \in Nat /\ (q - 1) * n + n <= l * n
    <3>1. (q - 1) * n + n = q * n
      BY <2>1
    <3>2. q * n <= l * n
      OBVIOUS
    <3> QED
      BY <2>1, <3>1, <3>2
  <2>3. a \in Nat /\ a + 1 \in 1..l*n
    BY <1>0, <2>1, <2>2
  <2>4. a \div n \in Nat /\ a % n \in 0..n-1 /\ a = (a \div n) * n + (a % n)
    <3> HIDE DEF a
    <3> QED
      BY <2>3, Quotient
  <2>5. a = (q - 1) * n + (r - 1)
    OBVIOUS
  <2> DEFINE x == a \div n
             y == a % n
  <2> HIDE DEF x, y, a
  <2>6. x \in Nat /\ y \in 0..n-1 /\ x * n + y = (q - 1) * n + (r - 1)
    BY <2>4, <2>5 DEF x, y
  <2>7. ~(x < q - 1)
    <3> SUFFICES ASSUME x < q - 1 PROVE FALSE
      OBVIOUS
    <3>1. (x + 1) * n <= (q - 1) * n
      BY <2>1, <2>6
    <3>2. (x + 1) * n = x * n + n /\ x * n \in Nat
      BY <2>6
    <3> QED
      BY <2>1, <2>2, <2>6, <3>1, <3>2
  <2>8. ~(x > q - 1)
    <3> SUFFICES ASSUME x > q - 1 PROVE FALSE
      OBVIOUS
    <3>1. ((q - 1) + 1) * n <= x * n
      BY <2>1, <2>6
    <3>2. ((q - 1) + 1) * n = (q - 1) * n + n /\ x * n \in Nat
      BY <2>1, <2>6
    <3> QED
      BY <2>1, <2>2, <2>6, <3>1, <3>2
  <2>9. x = q - 1
    BY <2>1, <2>6, <2>7, <2>8
  <2>10. y = r - 1
    BY <2>1, <2>2, <2>6, <2>9
  <2>11. (a + 1) - 1 = a
    BY <2>3
  <2>12. x + 1 = q /\ y + 1 = r
    BY <2>9, <2>10
  <2> QED
    BY <2>3, <2>11, <2>12 DEF x, y
<1> QED
  BY <1>1, <1>2, <1>3

(* A function on 1..n is a sequence of length n. *)
LEMMA LenDomain ==
    ASSUME NEW n \in Nat, NEW S, NEW s \in [1..n -> S]
    PROVE  s \in Seq(S) /\ DOMAIN s = 1..n /\ Len(s) = n
  OBVIOUS

(***************************************************************************)
(* The groups and their cells, for the arguments of a run.                 *)
(***************************************************************************)
LEMMA Lists ==
    /\ Len(Configs) \in Nat /\ DOMAIN Configs = 1..Len(Configs)
    /\ Len(Batches) \in Nat /\ DOMAIN Batches = 1..Len(Batches)
    /\ \A i, j \in DOMAIN Configs : Configs[i] = Configs[j] => i = j
    /\ \A i, j \in DOMAIN Batches : Batches[i] = Batches[j] => i = j
    /\ Selected \in SUBSET (1..Len(Configs))
    /\ \A i \in Selected : i \in Nat /\ i \in DOMAIN Configs
<1>1. Configs \in Seq(ToSet(Configs)) /\ Batches \in Seq(ToSet(Batches))
  BY ListsAssumption DEF NoneTwice
<1>2. /\ Len(Configs) \in Nat /\ DOMAIN Configs = 1..Len(Configs)
      /\ Len(Batches) \in Nat /\ DOMAIN Batches = 1..Len(Batches)
  BY <1>1, LenProperties
<1>3. \A i \in Selected : i \in 1..Len(Configs)
  BY <1>2 DEF Selected
<1>4. \A i \in 1..Len(Configs) : i \in Nat
  OBVIOUS
<1> QED
  BY <1>2, <1>3, <1>4, ListsAssumption DEF NoneTwice

(* Every model that is selected is the key of one group.                   *)
LEMMA Groups ==
    /\ Len(by_hf) \in Nat /\ DOMAIN by_hf = 1..Len(by_hf)
    /\ \A g, h \in 1..Len(by_hf) : by_hf[g] = by_hf[h] => g = h
    /\ \A c \in Chosen : \E g \in 1..Len(by_hf) : by_hf[g] = c.hf
<1> DEFINE n == Cardinality(FirstMet)
           s == InOrder(FirstMet)
<1>1. FirstMet \in SUBSET (1..Len(Configs)) /\ FirstMet \subseteq Selected
  BY Lists DEF FirstMet
<1>2. /\ s \in [1..n -> FirstMet] /\ n \in Nat
      /\ \A i, j \in 1..n : s[i] = s[j] => i = j
      /\ \A x \in FirstMet : \E i \in 1..n : s[i] = x
  BY <1>1, Lists, InOrderOf
<1>3. by_hf = [g \in 1..n |-> Configs[s[g]].hf]
  BY DEF by_hf
<1>4. DOMAIN by_hf = 1..n /\ \A g \in 1..n : by_hf[g] = Configs[s[g]].hf
  BY <1>3
<1>5. Len(by_hf) = n
  <2> DEFINE hfs == {by_hf[g] : g \in 1..n}
  <2>1. by_hf \in [1..n -> hfs]
    BY <1>3, <1>4
  <2> HIDE DEF hfs, n
  <2> QED
    BY <1>2, <2>1, LenDomain
<1> HIDE DEF n, s
<1>6. ASSUME NEW g \in 1..n, NEW h \in 1..n, by_hf[g] = by_hf[h] PROVE g = h
  <2>1. s[g] \in FirstMet /\ s[h] \in FirstMet
    BY <1>2
  <2>2. Configs[s[g]].hf = Configs[s[h]].hf
    BY <1>4, <1>6
  <2>3. ~(s[g] < s[h]) /\ ~(s[h] < s[g])
    BY <2>1, <2>2 DEF FirstMet
  <2>4. s[g] \in Nat /\ s[h] \in Nat
    BY <1>1, <2>1, Lists
  <2> QED
    BY <1>2, <2>3, <2>4
<1>7. ASSUME NEW c \in Chosen PROVE \E g \in 1..n : by_hf[g] = c.hf
  <2> DEFINE S == {k \in Selected : Configs[k].hf = c.hf}
  <2>1. PICK i \in Selected : Configs[i] = c
    BY DEF Chosen
  <2>2. S \in SUBSET Nat /\ S # {}
    BY <2>1, Lists
  <2>3. PICK m \in S : \A k \in S : m <= k
    <3> HIDE DEF S
    <3> QED
      BY <2>2, LeastNatural
  <2>4. m \in FirstMet
    <3> SUFFICES ASSUME NEW k \in Selected, k < m PROVE Configs[k].hf # Configs[m].hf
      BY DEF FirstMet
    <3>1. k \in Nat /\ m \in Nat
      BY Lists, <2>2
    <3> QED
      BY <2>3, <3>1
  <2>5. PICK g \in 1..n : s[g] = m
    BY <1>2, <2>4
  <2> QED
    BY <1>4, <2>3, <2>5
<1> QED
  BY <1>2, <1>4, <1>5, <1>6, <1>7

(* The plan of a group has every pair of a configuration of the group and  *)
(* a batch once, and nothing else.                                         *)
LEMMA Plans ==
    ASSUME NEW hf
    PROVE  /\ Len(Plan(hf)) \in Nat /\ DOMAIN Plan(hf) = 1..Len(Plan(hf))
           /\ \A k \in 1..Len(Plan(hf)) :
                 \E c \in Chosen, b \in ToSet(Batches) :
                     c.hf = hf /\ Plan(hf)[k] = Cell(c, b)
           /\ \A j, k \in 1..Len(Plan(hf)) : Plan(hf)[j] = Plan(hf)[k] => j = k
           /\ \A c \in Chosen, b \in ToSet(Batches) :
                 c.hf = hf => \E k \in 1..Len(Plan(hf)) : Plan(hf)[k] = Cell(c, b)
<1> DEFINE T == {i \in Selected : Configs[i].hf = hf}
           l == Cardinality(T)
           s == CfgList(hf)
           n == Len(Batches)
           q(k) == (k - 1) \div n + 1
           r(k) == ((k - 1) % n) + 1
           pl == Plan(hf)
<1>1. /\ s \in [1..l -> T] /\ l \in Nat
      /\ \A i, j \in 1..l : s[i] = s[j] => i = j
      /\ \A x \in T : \E i \in 1..l : s[i] = x
  <2>1. T \in SUBSET (1..Len(Configs)) /\ Len(Configs) \in Nat
    BY Lists
  <2>2. s = InOrder(T)
    BY DEF CfgList
  <2> HIDE DEF T, s
  <2> QED
    BY <2>1, <2>2, InOrderOf
<1>2. Len(s) = l /\ n \in Nat /\ l * n \in Nat
  <2> HIDE DEF T, l, s
  <2>1. Len(s) = l
    BY <1>1, LenDomain
  <2> QED
    BY <1>1, <2>1, Lists
<1>3. pl = [k \in 1..l*n |-> Cell(Configs[s[q(k)]], Batches[r(k)])]
  BY <1>2 DEF Plan
<1>4. DOMAIN pl = 1..l*n /\ \A k \in 1..l*n : pl[k] = Cell(Configs[s[q(k)]], Batches[r(k)])
  BY <1>3
<1>5. Len(pl) = l * n
  <2> DEFINE cs == {pl[k] : k \in 1..l*n}
  <2>1. pl \in [1..l*n -> cs]
    BY <1>3, <1>4
  <2> HIDE DEF cs, l, n, pl
  <2> QED
    BY <1>2, <2>1, LenDomain
<1>6. n # 0 => /\ \A k \in 1..l*n : q(k) \in 1..l /\ r(k) \in 1..n
               /\ \A j, k \in 1..l*n : q(j) = q(k) /\ r(j) = r(k) => j = k
               /\ \A x \in 1..l, y \in 1..n : \E k \in 1..l*n : q(k) = x /\ r(k) = y
  <2> SUFFICES ASSUME n # 0
               PROVE  /\ \A k \in 1..l*n : q(k) \in 1..l /\ r(k) \in 1..n
                      /\ \A j, k \in 1..l*n : q(j) = q(k) /\ r(j) = r(k) => j = k
                      /\ \A x \in 1..l, y \in 1..n : \E k \in 1..l*n : q(k) = x /\ r(k) = y
    OBVIOUS
  <2>1. n \in Nat \ {0}
    BY <1>2
  <2>2. \A k \in 1..l*n : (k - 1) \div n \in Int /\ (k - 1) % n \in Int
    <3> SUFFICES ASSUME NEW k \in 1..l*n
                 PROVE  (k - 1) \div n \in Int /\ (k - 1) % n \in Int
      OBVIOUS
    <3>1. k - 1 \in Nat
      BY <1>2
    <3> QED
      BY <2>1, <3>1, Quotient
  <2>3. \A j, k \in 1..l*n : q(j) = q(k) /\ r(j) = r(k)
           => (j - 1) \div n = (k - 1) \div n /\ (j - 1) % n = (k - 1) % n
    BY <2>2
  <2>4. /\ \A k \in 1..l*n : (k - 1) \div n + 1 \in 1..l /\ ((k - 1) % n) + 1 \in 1..n
        /\ \A j, k \in 1..l*n :
              (j - 1) \div n = (k - 1) \div n /\ (j - 1) % n = (k - 1) % n => j = k
        /\ \A x \in 1..l, y \in 1..n : \E k \in 1..l*n :
              (k - 1) \div n + 1 = x /\ ((k - 1) % n) + 1 = y
    <3> HIDE DEF l, n
    <3> QED
      BY <1>1, <2>1, TwoLoops
  <2> HIDE DEF l, n
  <2>5. \A k : q(k) = (k - 1) \div n + 1 /\ r(k) = ((k - 1) % n) + 1
    OBVIOUS
  <2> HIDE DEF q, r
  <2>6. \A k \in 1..l*n : q(k) \in 1..l /\ r(k) \in 1..n
    BY <2>4, <2>5, Zenon
  <2>7. \A j, k \in 1..l*n : q(j) = q(k) /\ r(j) = r(k) => j = k
    BY <2>3, <2>4
  <2>8. \A x \in 1..l, y \in 1..n : \E k \in 1..l*n : q(k) = x /\ r(k) = y
    <3> SUFFICES ASSUME NEW x \in 1..l, NEW y \in 1..n
                 PROVE  \E k \in 1..l*n : q(k) = x /\ r(k) = y
      OBVIOUS
    <3>1. PICK k \in 1..l*n : (k - 1) \div n + 1 = x /\ ((k - 1) % n) + 1 = y
      BY <2>4
    <3> QED
      BY <2>5, <3>1
  <2> QED
    BY <2>6, <2>7, <2>8
<1>7. n = 0 => l * n = 0
  BY <1>1
<1>8. \A k \in 1..l*n : n # 0
  BY <1>7
<1> HIDE DEF l, s, n, q, r, pl
<1>9. ASSUME NEW x \in 1..l, NEW y \in 1..n
      PROVE  /\ Configs[s[x]] \in Chosen /\ Configs[s[x]].hf = hf /\ s[x] \in DOMAIN Configs
             /\ Batches[y] \in ToSet(Batches)
  <2>1. s[x] \in Selected /\ Configs[s[x]].hf = hf
    BY <1>1
  <2>2. y \in DOMAIN Batches
    BY Lists DEF n
  <2> QED
    BY <2>1, <2>2, Lists DEF Chosen, ToSet
<1>10. ASSUME NEW k \in 1..l*n
       PROVE  \E c \in Chosen, b \in ToSet(Batches) : c.hf = hf /\ pl[k] = Cell(c, b)
  BY <1>4, <1>6, <1>8, <1>9
<1>11. ASSUME NEW j \in 1..l*n, NEW k \in 1..l*n, pl[j] = pl[k] PROVE j = k
  <2>1. q(j) \in 1..l /\ r(j) \in 1..n /\ q(k) \in 1..l /\ r(k) \in 1..n
    BY <1>6, <1>8
  <2>2. Configs[s[q(j)]] = Configs[s[q(k)]] /\ Batches[r(j)] = Batches[r(k)]
    BY <1>4, <1>11 DEF Cell
  <2>3. s[q(j)] = s[q(k)]
    BY <1>9, <2>1, <2>2, Lists
  <2>4. r(j) = r(k)
    BY <2>1, <2>2, Lists DEF n
  <2> QED
    BY <1>1, <1>6, <1>8, <2>1, <2>3, <2>4
<1>12. ASSUME NEW c \in Chosen, NEW b \in ToSet(Batches), c.hf = hf
       PROVE  \E k \in 1..l*n : pl[k] = Cell(c, b)
  <2>1. PICK i \in Selected : Configs[i] = c
    BY DEF Chosen
  <2>2. PICK x \in 1..l : s[x] = i
    BY <1>1, <1>12, <2>1
  <2>3. PICK y \in 1..n : Batches[y] = b
    BY Lists DEF ToSet, n
  <2>4. n # 0
    BY <1>2
  <2>5. PICK k \in 1..l*n : q(k) = x /\ r(k) = y
    BY <1>6, <2>4
  <2> QED
    BY <1>4, <2>1, <2>2, <2>3, <2>5
<1> QED
  BY <1>2, <1>4, <1>5, <1>10, <1>11, <1>12 DEF pl

(***************************************************************************)
(* The inductive invariant: of the groups done every cell of the plan is   *)
(* there once, of the group being filled the first InGroup ones, of the    *)
(* others none.                                                            *)
(***************************************************************************)
plans == [g \in 1..Len(by_hf) |-> Plan(by_hf[g])]

Fills(cell, e) == cell.config = e.config /\ cell.batch = e.batch
Once(cs, e) ==
    \E i \in DOMAIN cs : Fills(cs[i], e) /\ \A k \in DOMAIN cs : Fills(cs[k], e) => k = i
Filled(cs, plan, hf, n) ==
    /\ \A m \in 1..n : Once(cs, plan[m])
    /\ \A i \in DOMAIN cs :
          cs[i].config.hf = hf => \E m \in 1..n : Fills(cs[i], plan[m])
Count(cs, hf) == Cardinality({i \in DOMAIN cs : cs[i].config.hf = hf})

(* A cell of the selected ones, measured by its own model if at all.       *)
Answers(hf) == {NotRun, [status |-> "failed", by |-> None], [status |-> "ok", by |-> hf]}
Entries == [config : Chosen, batch : ToSet(Batches),
            vllm : UNION {Answers(c.hf) : c \in Chosen}]
OwnModel(cell) == cell.vllm \in Answers(cell.config.hf)

Loading == pc \in {"load", "simulate", "measure"}
Filling == pc \in {"simulate", "measure"}
Has(g, n) == Filled(cells, plans[g], by_hf[g], n)
Walk ==
    /\ Loading =>
          /\ group \in 1..Len(by_hf) + 1
          /\ \A g \in 1..group - 1 : Has(g, Len(plans[g]))
          /\ \A g \in group + 1..Len(by_hf) : Has(g, 0)
    /\ pc = "load" /\ group <= Len(by_hf) => Has(group, 0)
    /\ Filling =>
          /\ group <= Len(by_hf) /\ llm \in {None, by_hf[group]}
          /\ Count(cells, by_hf[group]) <= Len(plans[group])
          /\ Has(group, Count(cells, by_hf[group]))
    /\ pc = "measure" =>
          /\ Count(cells, by_hf[group]) < Len(plans[group])
          /\ entry = plans[group][Count(cells, by_hf[group]) + 1]
CellsInv ==
    /\ cells \in Seq(Entries)
    /\ \A i \in DOMAIN cells : OwnModel(cells[i])
    /\ ~Loading /\ pc # "save" => cells = <<>>
    /\ Walk
    /\ pc = "save" => /\ TodoShape /\ todo # <<>>
                      /\ \A i, j \in DOMAIN todo : todo[i][1][1] = todo[j][1][1]
    /\ EveryCellOnce

LEMMA Appending ==
    ASSUME NEW S, NEW cs \in Seq(S), NEW e \in S
    PROVE  LET u == Append(cs, e)
           IN  /\ u \in Seq(S) /\ Len(u) = Len(cs) + 1 /\ u[Len(cs) + 1] = e
               /\ Len(cs) \in Nat /\ DOMAIN cs = 1..Len(cs) /\ DOMAIN u = 1..Len(cs) + 1
               /\ \A i \in DOMAIN cs : i \in DOMAIN u /\ u[i] = cs[i]
               /\ \A i \in DOMAIN u : i \in DOMAIN cs \/ i = Len(cs) + 1
               /\ Len(cs) + 1 \notin DOMAIN cs
<1> DEFINE u == Append(cs, e)
<1>1. Len(cs) \in Nat /\ DOMAIN cs = 1..Len(cs)
  BY LenProperties
<1>2. u \in Seq(S) /\ Len(u) = Len(cs) + 1 /\ u[Len(cs) + 1] = e
      /\ \A i \in 1..Len(cs) : u[i] = cs[i]
  BY AppendProperties
<1>3. DOMAIN u = 1..Len(cs) + 1
  BY <1>2, LenProperties
<1> HIDE DEF u
<1> QED
  BY <1>1, <1>2, <1>3 DEF u

(* The next cell of the group takes its place behind the first n.          *)
LEMMA FillsNext ==
    ASSUME NEW S, NEW cs \in Seq(S), NEW e \in S, NEW plan, NEW hf, NEW n \in Nat,
           Len(plan) \in Nat, n < Len(plan), Fills(e, plan[n + 1]),
           \A j, k \in 1..Len(plan) : Fills(plan[j], plan[k]) => j = k,
           \A k \in 1..Len(plan) : plan[k].config.hf = hf,
           Filled(cs, plan, hf, n)
    PROVE  Filled(Append(cs, e), plan, hf, n + 1)
<1> DEFINE u == Append(cs, e)
           l == Len(cs) + 1
<1>1. /\ u[l] = e /\ l \in DOMAIN u /\ l \notin DOMAIN cs
      /\ \A i \in DOMAIN cs : i \in DOMAIN u /\ u[i] = cs[i]
      /\ \A i \in DOMAIN u : i \in DOMAIN cs \/ i = l
  BY Appending
<1> HIDE DEF u, l
<1>2. n + 1 \in 1..Len(plan) /\ \A m \in 1..n : m \in 1..Len(plan) /\ m # n + 1 /\ m \in 1..n+1
  OBVIOUS
<1>3. ASSUME NEW m \in 1..n PROVE Once(u, plan[m])
  <2>1. PICK i \in DOMAIN cs : /\ Fills(cs[i], plan[m])
                               /\ \A k \in DOMAIN cs : Fills(cs[k], plan[m]) => k = i
    BY DEF Filled, Once
  <2>2. ~Fills(e, plan[m])
    <3>1. ~Fills(plan[n + 1], plan[m])
      BY <1>2
    <3> QED
      BY <3>1 DEF Fills
  <2>3. i \in DOMAIN u /\ Fills(u[i], plan[m])
    BY <1>1, <2>1
  <2>4. \A k \in DOMAIN u : Fills(u[k], plan[m]) => k = i
    BY <1>1, <2>1, <2>2
  <2> QED
    BY <2>3, <2>4 DEF Once
<1>4. Once(u, plan[n + 1])
  <2>1. ASSUME NEW k \in DOMAIN cs PROVE ~Fills(cs[k], plan[n + 1])
    <3> SUFFICES ASSUME Fills(cs[k], plan[n + 1]) PROVE FALSE
      OBVIOUS
    <3>1. cs[k].config.hf = hf
      BY <1>2 DEF Fills
    <3>2. PICK m \in 1..n : Fills(cs[k], plan[m])
      BY <3>1 DEF Filled
    <3>3. Fills(plan[m], plan[n + 1])
      BY <3>2 DEF Fills
    <3> QED
      BY <1>2, <3>3
  <2> QED
    BY <1>1, <2>1 DEF Once
<1>5. ASSUME NEW i \in DOMAIN u, u[i].config.hf = hf
      PROVE  \E m \in 1..n+1 : Fills(u[i], plan[m])
  <2>1. CASE i = l
    <3>1. n + 1 \in 1..n+1
      OBVIOUS
    <3> QED
      BY <1>1, <2>1, <3>1
  <2>2. CASE i \in DOMAIN cs
    <3>1. PICK m \in 1..n : Fills(cs[i], plan[m])
      BY <1>1, <1>5, <2>2 DEF Filled
    <3> QED
      BY <1>1, <1>2, <2>2, <3>1
  <2> QED
    BY <1>1, <2>1, <2>2
<1>6. \A m \in 1..n+1 : m \in 1..n \/ m = n + 1
  OBVIOUS
<1>7. Filled(u, plan, hf, n + 1)
  BY <1>3, <1>4, <1>5, <1>6 DEF Filled
<1> QED
  BY <1>7 DEF u

(* A cell of another group changes nothing. *)
LEMMA FillsOther ==
    ASSUME NEW S, NEW cs \in Seq(S), NEW e \in S, NEW plan, NEW hf, NEW n,
           e.config.hf # hf, \A k \in 1..n : plan[k].config.hf = hf,
           Filled(cs, plan, hf, n)
    PROVE  Filled(Append(cs, e), plan, hf, n)
<1> DEFINE u == Append(cs, e)
           l == Len(cs) + 1
<1>1. /\ u[l] = e /\ l \in DOMAIN u /\ l \notin DOMAIN cs
      /\ \A i \in DOMAIN cs : i \in DOMAIN u /\ u[i] = cs[i]
      /\ \A i \in DOMAIN u : i \in DOMAIN cs \/ i = l
  BY Appending
<1> HIDE DEF u, l
<1>2. ASSUME NEW m \in 1..n PROVE Once(u, plan[m])
  <2>1. PICK i \in DOMAIN cs : /\ Fills(cs[i], plan[m])
                               /\ \A k \in DOMAIN cs : Fills(cs[k], plan[m]) => k = i
    BY DEF Filled, Once
  <2>2. ~Fills(e, plan[m])
    BY DEF Fills
  <2>3. i \in DOMAIN u /\ Fills(u[i], plan[m])
    BY <1>1, <2>1
  <2>4. \A k \in DOMAIN u : Fills(u[k], plan[m]) => k = i
    BY <1>1, <2>1, <2>2
  <2> QED
    BY <2>3, <2>4 DEF Once
<1>3. ASSUME NEW i \in DOMAIN u, u[i].config.hf = hf
      PROVE  \E m \in 1..n : Fills(u[i], plan[m])
  <2>1. i \in DOMAIN cs /\ u[i] = cs[i]
    BY <1>1, <1>3
  <2> QED
    BY <1>3, <2>1 DEF Filled
<1>4. Filled(u, plan, hf, n)
  BY <1>2, <1>3 DEF Filled
<1> QED
  BY <1>4 DEF u

LEMMA Counting ==
    ASSUME NEW S, NEW cs \in Seq(S), NEW hf
    PROVE  /\ Count(cs, hf) \in Nat
           /\ (\A i \in DOMAIN cs : cs[i].config.hf # hf) => Count(cs, hf) = 0
           /\ \A e \in S : e.config.hf = hf => Count(Append(cs, e), hf) = Count(cs, hf) + 1
<1> DEFINE I == {i \in DOMAIN cs : cs[i].config.hf = hf}
<1>1. Len(cs) \in Nat /\ DOMAIN cs = 1..Len(cs)
  BY LenProperties
<1>2. IsFiniteSet(I) /\ Cardinality(I) \in Nat
  <2>1. IsFiniteSet(1..Len(cs))
    BY <1>1, FS_Interval
  <2>2. I \in SUBSET (1..Len(cs))
    BY <1>1
  <2> HIDE DEF I
  <2> QED
    BY <2>1, <2>2, FS_Subset, FS_CardinalityType
<1>3. ASSUME \A i \in DOMAIN cs : cs[i].config.hf # hf PROVE Cardinality(I) = 0
  <2>1. I = {}
    BY <1>3
  <2> QED
    BY <2>1, FS_EmptySet
<1>4. ASSUME NEW e \in S, e.config.hf = hf
      PROVE  Count(Append(cs, e), hf) = Cardinality(I) + 1
  <2> DEFINE u == Append(cs, e)
             l == Len(cs) + 1
             J == {i \in DOMAIN u : u[i].config.hf = hf}
  <2>1. /\ u[l] = e /\ l \in DOMAIN u /\ l \notin DOMAIN cs
        /\ \A i \in DOMAIN cs : i \in DOMAIN u /\ u[i] = cs[i]
        /\ \A i \in DOMAIN u : i \in DOMAIN cs \/ i = l
    BY Appending
  <2>2. Count(u, hf) = Cardinality(J)
    BY DEF Count
  <2> HIDE DEF u, l
  <2>3. J = I \cup {l} /\ l \notin I
    BY <1>4, <2>1
  <2> HIDE DEF I, J
  <2>4. Cardinality(J) = Cardinality(I) + 1
    BY <1>2, <2>3, FS_AddElement
  <2> QED
    BY <2>2, <2>4 DEF u
<1> QED
  BY <1>2, <1>3, <1>4 DEF Count

LEMMA PlanFacts ==
    ASSUME NEW g \in 1..Len(by_hf)
    PROVE  /\ Len(plans[g]) \in Nat
           /\ \A k \in 1..Len(plans[g]) :
                 /\ plans[g][k] \in Entries /\ plans[g][k].config.hf = by_hf[g]
                 /\ plans[g][k].config \in Chosen
           /\ \A j, k \in 1..Len(plans[g]) : Fills(plans[g][j], plans[g][k]) => j = k
           /\ \A c \in Chosen, b \in ToSet(Batches) :
                 c.hf = by_hf[g] => \E k \in 1..Len(plans[g]) : plans[g][k] = Cell(c, b)
<1> DEFINE p == plans[g]
           hf == by_hf[g]
<1>1. p = Plan(hf)
  BY DEF plans
<1>2. /\ Len(p) \in Nat /\ DOMAIN p = 1..Len(p)
      /\ \A k \in 1..Len(p) : \E c \in Chosen, b \in ToSet(Batches) :
            c.hf = hf /\ p[k] = Cell(c, b)
      /\ \A j, k \in 1..Len(p) : p[j] = p[k] => j = k
      /\ \A c \in Chosen, b \in ToSet(Batches) :
            c.hf = hf => \E k \in 1..Len(p) : p[k] = Cell(c, b)
  <2> HIDE DEF p, hf
  <2>1. /\ Len(Plan(hf)) \in Nat /\ DOMAIN Plan(hf) = 1..Len(Plan(hf))
        /\ \A k \in 1..Len(Plan(hf)) : \E c \in Chosen, b \in ToSet(Batches) :
              c.hf = hf /\ Plan(hf)[k] = Cell(c, b)
        /\ \A j, k \in 1..Len(Plan(hf)) : Plan(hf)[j] = Plan(hf)[k] => j = k
        /\ \A c \in Chosen, b \in ToSet(Batches) :
              c.hf = hf => \E k \in 1..Len(Plan(hf)) : Plan(hf)[k] = Cell(c, b)
    BY Plans
  <2> QED
    BY <1>1, <2>1, Zenon
<1> HIDE DEF p, hf
<1>3. ASSUME NEW k \in 1..Len(p)
      PROVE  p[k] \in Entries /\ p[k].config.hf = hf /\ p[k].config \in Chosen
             /\ p[k] = Cell(p[k].config, p[k].batch)
  <2>1. PICK c \in Chosen, b \in ToSet(Batches) : c.hf = hf /\ p[k] = Cell(c, b)
    BY <1>2
  <2>2. NotRun \in UNION {Answers(x.hf) : x \in Chosen}
    BY DEF Answers
  <2>3. Cell(c, b) \in Entries
    BY <2>2 DEF Entries, Cell
  <2>4. Cell(c, b).config = c /\ Cell(c, b).batch = b
    BY DEF Cell
  <2> QED
    BY <2>1, <2>3, <2>4
<1>4. ASSUME NEW j \in 1..Len(p), NEW k \in 1..Len(p), Fills(p[j], p[k]) PROVE j = k
  BY <1>2, <1>3, <1>4 DEF Fills
<1> QED
  BY <1>2, <1>3, <1>4 DEF p, hf

LEMMA Carried ==
    ASSUME UNCHANGED args
    PROVE  by_hf' = by_hf /\ plans' = plans /\ Chosen' = Chosen /\ Entries' = Entries
<1>1. Selected' = Selected
  BY DEF Selected
<1>2. Chosen' = Chosen /\ FirstMet' = FirstMet
  BY <1>1 DEF Chosen, FirstMet
<1>3. by_hf' = by_hf
  BY <1>2 DEF by_hf
<1>4. plans' = plans
  BY <1>1, <1>3 DEF plans, Plan, CfgList
<1>5. Entries' = Entries
  BY <1>2 DEF Entries
<1> QED
  BY <1>2, <1>3, <1>4, <1>5

(* Outside the loop nothing is filled. *)
LEMMA NoCells ==
    ASSUME cells' = <<>>, pc' \notin {"load", "simulate", "measure", "save"}
    PROVE  CellsInv'
BY DEF CellsInv, Walk, Loading, Filling, EveryCellOnce

LEMMA EndedEmpty == ASSUME NEW ok \in BOOLEAN, Ended(ok) PROVE CellsInv'
<1>1. CASE Idle
  BY <1>1, NoCells DEF Idle
<1>2. CASE ~Idle
  BY <1>2, NoCells DEF Ended
<1> QED
  BY <1>1, <1>2

(* The driver and the other scripts fill nothing. *)
LEMMA OthersEmpty ==
    ASSUME CellsInv, Next, ~Loading, ~(pc = "save"), pc # "run_calibration"
    PROVE  CellsInv'
<1>0. cells = <<>>
  BY DEF CellsInv
<1>idle. CASE Idle
  BY <1>idle, NoCells DEF Idle
<1>ended. ASSUME NEW ok \in BOOLEAN, Ended(ok) PROVE CellsInv'
  BY <1>ended, EndedEmpty
<1>1. CASE StartRunAll \/ StartCalibration
  BY <1>0, <1>1, NoCells DEF StartRunAll, StartCalibration, Start, calibration
<1>2. CASE Skip
  BY <1>0, <1>2, NoCells DEF Skip, calibration
<1>3. CASE RunStep
  <2>1. pc' \notin {"load", "simulate", "measure", "save"}
    BY <1>3 DEF RunStep
  <2> QED
    BY <1>0, <1>3, <2>1, NoCells DEF RunStep, calibration
<1>4. CASE RunSummary
  BY <1>4, <1>idle DEF RunSummary
<1>5. CASE OtherScript \/ SloFails \/ FramingFails
  BY <1>5, <1>ended DEF OtherScript, SloFails, FramingFails, Fails
<1>6. CASE SloSweep \/ Frame
  <2>1. PICK name \in {"slo_throughput", "capacity_framing"} : \E h, content :
            Saving(name, h, content)
    BY <1>6 DEF SloSweep, Frame
  <2>2. PICK h, content : Saving(name, h, content)
    BY <2>1
  <2>3. todo' = << <<File(name, AnyHost), content>>, <<File(name, h), content>> >> /\ pc' = "save"
    BY <2>2 DEF Saving
  <2>4. /\ DOMAIN todo' = {1, 2} /\ todo' = <<todo'[1], todo'[2]>> /\ todo' # <<>>
        /\ todo'[1][1][1] = name /\ todo'[2][1][1] = name
    BY <2>3 DEF File
  <2>5. cells' = <<>>
    BY <1>0, <1>6 DEF SloSweep, Frame, calibration
  <2>6. EveryCellOnce'
    BY <2>4 DEF EveryCellOnce
  <2>7. Walk'
    BY <2>3 DEF Walk, Loading, Filling
  <2>8. TodoShape' /\ \A i, j \in DOMAIN todo' : todo'[i][1][1] = todo'[j][1][1]
    BY <2>4 DEF TodoShape
  <2> QED
    BY <2>3, <2>4, <2>5, <2>6, <2>7, <2>8 DEF CellsInv
<1>7. CASE Killed
  BY <1>7, <1>idle DEF Killed
<1>8. CASE Finished
  BY <1>0, <1>8, NoCells DEF Finished, vars, calibration
<1>9. CASE Save \/ Calibrate \/ Load \/ Simulate \/ Measure \/ Unload \/ SaveCells
  BY <1>9 DEF Save, Calibrate, Load, Simulate, Measure, Unload, SaveCells, Loading
<1> QED
  BY <1>1, <1>2, <1>3, <1>4, <1>5, <1>6, <1>7, <1>8, <1>9 DEF Next

(* What is saved stays what it is until the last file is written.          *)
LEMMA SaveCarries == ASSUME CellsInv, Save PROVE CellsInv'
<1>1. CASE Len(todo) > 1
  <2>1. todo = <<todo[1]>> \/ todo = <<todo[1], todo[2]>>
    BY DEF CellsInv, TodoShape, Save
  <2>2. todo = <<todo[1], todo[2]>> /\ 1 \in DOMAIN todo /\ 2 \in DOMAIN todo
    BY <1>1, <2>1
  <2>3. todo' = <<todo[2]>>
    <3>1. todo' = Tail(todo)
      BY <1>1 DEF Save
    <3>2. \A a, b : Tail(<<a, b>>) = <<b>>
      OBVIOUS
    <3> QED
      BY <2>2, <3>1, <3>2
  <2>4. DOMAIN todo' = {1} /\ todo'[1] = todo[2] /\ todo' # <<>> /\ todo' = <<todo'[1]>>
    BY <2>3
  <2>5. todo'[1][1][1] = todo[1][1][1]
    BY <2>2, <2>4 DEF CellsInv, Save
  <2>6. pc = "save" /\ pc' = "save" /\ cells' = cells /\ UNCHANGED args
    BY <1>1 DEF Save, calibration
  <2>7. Chosen' = Chosen /\ Entries' = Entries
    BY <2>6, Carried
  <2>8. EveryCellOnce'
    BY <2>5, <2>6, <2>7 DEF EveryCellOnce, CellsInv
  <2>9. Walk'
    BY <2>6 DEF Walk, Loading, Filling
  <2>10. cells' \in Seq(Entries') /\ \A i \in DOMAIN cells' : OwnModel(cells'[i])
    BY <2>6, <2>7 DEF CellsInv
  <2>11. TodoShape' /\ \A i, j \in DOMAIN todo' : todo'[i][1][1] = todo'[j][1][1]
    BY <2>4 DEF TodoShape
  <2> QED
    BY <2>4, <2>6, <2>8, <2>9, <2>10, <2>11 DEF CellsInv, OwnModel
<1>2. CASE ~(Len(todo) > 1)
  BY <1>2, EndedEmpty DEF Save
<1> QED
  BY <1>1, <1>2

LEMMA NoneFilled ==
    ASSUME NEW cs, NEW plan, NEW hf
    PROVE  Filled(cs, plan, hf, 0) <=> \A i \in DOMAIN cs : cs[i].config.hf # hf
<1>1. 1..0 = {}
  OBVIOUS
<1> QED
  BY <1>1 DEF Filled

LEMMA CalibrateCells == ASSUME CellsInv, Calibrate PROVE CellsInv'
<1>1. cells = <<>> /\ cells' = <<>> /\ UNCHANGED args /\ pc' = "load" /\ group' = 1
  BY DEF CellsInv, Calibrate, Outside, Loading
<1>2. by_hf' = by_hf /\ plans' = plans /\ Len(by_hf) \in Nat
  BY <1>1, Carried, Groups
<1>3. \A g : Has(g, 0)'
  <2> TAKE g
  <2>1. Filled(<<>>, plans[g], by_hf[g], 0)
    BY NoneFilled
  <2> QED
    BY <1>1, <1>2, <2>1 DEF Has
<1>4. group' \in 1..Len(by_hf') + 1 /\ 1..group' - 1 = {}
  BY <1>1, <1>2
<1>5. Walk'
  <2>1. /\ \A g \in (1..group - 1)' : Has(g, Len(plans[g]))'
        /\ \A g \in (group + 1..Len(by_hf))' : Has(g, 0)'
    BY <1>3, <1>4
  <2>2. Has(group, 0)'
    <3>1. Filled(<<>>, plans[1], by_hf[1], 0)
      BY NoneFilled
    <3> QED
      BY <1>1, <1>2, <3>1 DEF Has
  <2> QED
    BY <1>1, <1>4, <2>1, <2>2 DEF Walk, Loading, Filling
<1> QED
  BY <1>1, <1>5 DEF CellsInv, EveryCellOnce

(* What the steps of a group keep when they leave the cells alone. *)
LEMMA CellsStay ==
    ASSUME CellsInv, UNCHANGED <<cells, args>>, pc' \in {"load", "simulate", "measure"}, Walk'
    PROVE  CellsInv'
<1>1. Entries' = Entries
  BY Carried
<1>2. cells' \in Seq(Entries') /\ \A i \in DOMAIN cells' : OwnModel(cells'[i])
  BY <1>1 DEF CellsInv
<1> QED
  BY <1>2 DEF CellsInv, EveryCellOnce, Loading, OwnModel

LEMMA LoadCells == ASSUME CellsInv, Load PROVE CellsInv'
<1>1. /\ UNCHANGED <<cells, args, group>> /\ pc' = "simulate" /\ pc = "load"
      /\ group <= Len(by_hf) /\ llm' \in {None, by_hf[group]}
  BY DEF Load, Outside
<1>2. by_hf' = by_hf /\ plans' = plans /\ Len(by_hf) \in Nat
  BY <1>1, Carried, Groups
<1>3. /\ group \in 1..Len(by_hf) + 1 /\ group \in 1..Len(by_hf) /\ Has(group, 0)
      /\ \A g \in 1..group - 1 : Has(g, Len(plans[g]))
      /\ \A g \in group + 1..Len(by_hf) : Has(g, 0)
  BY <1>1, <1>2 DEF CellsInv, Walk, Loading
<1>4. Count(cells, by_hf[group]) = 0
  <2>1. \A i \in DOMAIN cells : cells[i].config.hf # by_hf[group]
    BY <1>3, NoneFilled DEF Has
  <2> QED
    BY <2>1, Counting DEF CellsInv
<1>5. Len(plans[group]) \in Nat
  BY <1>3, PlanFacts
<1>6. Walk'
  <2>1. \A g, n : Has(g, n) => Has(g, n)'
    BY <1>1, <1>2 DEF Has
  <2>2. /\ \A g \in 1..group - 1 : Has(g, Len(plans[g]))'
        /\ \A g \in group + 1..Len(by_hf) : Has(g, 0)'
    BY <1>1, <1>2, <1>3 DEF Has
  <2>3. Has(group, Count(cells, by_hf[group]))'
    BY <1>1, <1>2, <1>3, <1>4 DEF Has
  <2>4. Count(cells', by_hf'[group']) <= Len(plans'[group'])
    BY <1>1, <1>2, <1>4, <1>5
  <2> QED
    BY <1>1, <1>2, <1>3, <2>2, <2>3, <2>4 DEF Walk, Loading, Filling
<1> QED
  BY <1>1, <1>6, CellsStay

LEMMA AsCounted ==
    /\ InGroup = Count(cells, by_hf[group])
    /\ group \in 1..Len(by_hf) =>
          /\ Plan(by_hf[group]) = plans[group]
          /\ NextCell = plans[group][Count(cells, by_hf[group]) + 1]
<1>1. InGroup = Count(cells, by_hf[group])
  BY DEF InGroup, Count
<1>2. group \in 1..Len(by_hf) => Plan(by_hf[group]) = plans[group]
  BY DEF plans
<1> QED
  BY <1>1, <1>2 DEF NextCell

LEMMA SimulateCells == ASSUME CellsInv, Simulate PROVE CellsInv'
<1>1. /\ UNCHANGED <<cells, args, group, llm>> /\ pc' = "measure" /\ pc = "simulate"
      /\ InGroup < Len(Plan(by_hf[group])) /\ entry' = NextCell
  BY DEF Simulate, Outside
<1>2. by_hf' = by_hf /\ plans' = plans /\ Len(by_hf) \in Nat
  BY <1>1, Carried, Groups
<1>3. /\ group \in 1..Len(by_hf) + 1 /\ group \in 1..Len(by_hf) /\ group <= Len(by_hf)
      /\ llm \in {None, by_hf[group]}
      /\ \A g \in 1..group - 1 : Has(g, Len(plans[g]))
      /\ \A g \in group + 1..Len(by_hf) : Has(g, 0)
      /\ Has(group, Count(cells, by_hf[group]))
      /\ Count(cells, by_hf[group]) <= Len(plans[group])
  BY <1>1, <1>2 DEF CellsInv, Walk, Loading, Filling
<1>4. /\ Count(cells, by_hf[group]) < Len(plans[group])
      /\ entry' = plans[group][Count(cells, by_hf[group]) + 1]
  BY <1>1, <1>3, AsCounted
<1>5. Walk'
  <2>1. /\ \A g \in 1..group - 1 : Has(g, Len(plans[g]))'
        /\ \A g \in group + 1..Len(by_hf) : Has(g, 0)'
        /\ Has(group, Count(cells, by_hf[group]))'
    BY <1>1, <1>2, <1>3 DEF Has
  <2> QED
    BY <1>1, <1>2, <1>3, <1>4, <2>1 DEF Walk, Loading, Filling
<1> QED
  BY <1>1, <1>5, CellsStay

LEMMA UnloadCells == ASSUME CellsInv, Unload PROVE CellsInv'
<1>1. /\ UNCHANGED <<cells, args>> /\ pc' = "load" /\ pc = "simulate" /\ group' = group + 1
      /\ InGroup = Len(Plan(by_hf[group]))
  BY DEF Unload, Outside
<1>2. by_hf' = by_hf /\ plans' = plans /\ Len(by_hf) \in Nat
  BY <1>1, Carried, Groups
<1>3. /\ group \in 1..Len(by_hf) + 1 /\ group \in 1..Len(by_hf) /\ group <= Len(by_hf)
      /\ \A g \in 1..group - 1 : Has(g, Len(plans[g]))
      /\ \A g \in group + 1..Len(by_hf) : Has(g, 0)
      /\ Has(group, Count(cells, by_hf[group]))
  BY <1>1, <1>2 DEF CellsInv, Walk, Loading, Filling
<1>4. Has(group, Len(plans[group]))
  BY <1>1, <1>3, AsCounted
<1>5. /\ \A g \in 1..group : g \in 1..group - 1 \/ g = group
      /\ (group + 1) - 1 = group
      /\ \A g \in (group + 1) + 1..Len(by_hf) : g \in group + 1..Len(by_hf)
      /\ group + 1 <= Len(by_hf) => group + 1 \in group + 1..Len(by_hf)
      /\ group + 1 \in 1..Len(by_hf) + 1
  BY <1>2, <1>3
<1>6. Walk'
  <2>1. /\ \A g \in 1..group : Has(g, Len(plans[g]))
        /\ \A g \in (group + 1) + 1..Len(by_hf) : Has(g, 0)
        /\ group + 1 <= Len(by_hf) => Has(group + 1, 0)
    BY <1>3, <1>4, <1>5
  <2>2. /\ \A g \in 1..group' - 1 : Has(g, Len(plans[g]))'
        /\ \A g \in group' + 1..Len(by_hf) : Has(g, 0)'
        /\ group' <= Len(by_hf) => Has(group, 0)'
    BY <1>1, <1>2, <1>5, <2>1 DEF Has
  <2> QED
    BY <1>1, <1>2, <1>5, <2>2 DEF Walk, Loading, Filling
<1> QED
  BY <1>1, <1>6, CellsStay

LEMMA MeasureCells == ASSUME CellsInv, Measure PROVE CellsInv'
<1> DEFINE hf == by_hf[group]
           n == Count(cells, hf)
           plan == plans[group]
<1>1. /\ UNCHANGED <<args, group, llm>> /\ pc' = "simulate" /\ pc = "measure"
  BY DEF Measure, Outside
<1>2. PICK v \in {NotRun} \cup run_vllm : cells' = Append(cells, [entry EXCEPT !.vllm = v])
  BY DEF Measure
<1>3. by_hf' = by_hf /\ plans' = plans /\ Chosen' = Chosen /\ Entries' = Entries
      /\ Len(by_hf) \in Nat
  BY <1>1, Carried, Groups
<1>4. /\ group \in 1..Len(by_hf) + 1 /\ group \in 1..Len(by_hf) /\ group <= Len(by_hf)
      /\ llm \in {None, hf}
      /\ \A g \in 1..group - 1 : Has(g, Len(plans[g]))
      /\ \A g \in group + 1..Len(by_hf) : Has(g, 0)
      /\ Filled(cells, plan, hf, n)
      /\ n < Len(plan) /\ entry = plan[n + 1]
  BY <1>1, <1>3 DEF CellsInv, Walk, Loading, Filling, Has
<1>5. /\ cells \in Seq(Entries) /\ \A i \in DOMAIN cells : OwnModel(cells[i])
      /\ Count(cells, hf) \in Nat
      /\ \A e \in Entries : e.config.hf = hf =>
            Count(Append(cells, e), hf) = Count(cells, hf) + 1
  BY Counting DEF CellsInv
<1> DEFINE e == [entry EXCEPT !.vllm = v]
<1>6. /\ Len(plan) \in Nat
      /\ \A k \in 1..Len(plan) : plan[k] \in Entries /\ plan[k].config.hf = hf
      /\ \A j, k \in 1..Len(plan) : Fills(plan[j], plan[k]) => j = k
  BY <1>4, PlanFacts
<1>7. v \in Answers(hf)
  BY <1>2, <1>4 DEF run_vllm, Answers
<1>8. entry \in Entries /\ entry.config.hf = hf
  <2> HIDE DEF n, plan, hf
  <2>1. n + 1 \in 1..Len(plan)
    BY <1>4, <1>5, <1>6 DEF n
  <2> QED
    BY <1>4, <1>6, <2>1
<1>9. /\ e \in Entries /\ e.config = entry.config /\ e.batch = entry.batch /\ e.vllm = v
      /\ e.config.hf = hf
  <2> HIDE DEF hf
  <2>1. v \in UNION {Answers(c.hf) : c \in Chosen}
    BY <1>7, <1>8 DEF Entries
  <2> QED
    BY <1>8, <2>1 DEF Entries
<1>10. Fills(e, plan[n + 1]) /\ OwnModel(e)
  BY <1>4, <1>7, <1>9 DEF Fills, OwnModel
<1> HIDE DEF e
<1>11. cells' = Append(cells, e)
  BY <1>2 DEF e
<1>12. Count(cells', hf) = n + 1
  BY <1>5, <1>9, <1>11
<1>13. Filled(cells', plan, hf, n + 1)
  <2> HIDE DEF hf, n, plan
  <2>1. n \in Nat
    BY <1>5 DEF n
  <2> QED
    BY <1>4, <1>5, <1>6, <1>9, <1>10, <1>11, <2>1, FillsNext
<1>14. ASSUME NEW g \in 1..Len(by_hf), g # group, NEW m \in 0..Len(plans[g]), Has(g, m)
       PROVE  Filled(cells', plans[g], by_hf[g], m)
  <2>1. by_hf[g] # hf
    BY <1>4, <1>14, Groups
  <2>2. Len(plans[g]) \in Nat /\ \A k \in 1..Len(plans[g]) : plans[g][k].config.hf = by_hf[g]
    BY PlanFacts
  <2>3. \A k \in 1..m : plans[g][k].config.hf = by_hf[g]
    BY <2>2
  <2>4. e.config.hf # by_hf[g] /\ Filled(cells, plans[g], by_hf[g], m)
    BY <1>9, <1>14, <2>1 DEF Has
  <2> HIDE DEF hf, n, plan
  <2> QED
    BY <1>5, <1>9, <1>11, <2>3, <2>4, FillsOther
<1>15. /\ \A g \in 1..group - 1 : Filled(cells', plans[g], by_hf[g], Len(plans[g]))
       /\ \A g \in group + 1..Len(by_hf) : Filled(cells', plans[g], by_hf[g], 0)
  <2>1. ASSUME NEW g \in 1..group - 1
        PROVE  Filled(cells', plans[g], by_hf[g], Len(plans[g]))
    <3>1. g \in 1..Len(by_hf) /\ g # group
      BY <1>3, <1>4
    <3>2. Len(plans[g]) \in 0..Len(plans[g])
      BY <3>1, PlanFacts
    <3>3. Has(g, Len(plans[g]))
      BY <1>4
    <3> QED
      BY <1>14, <3>1, <3>2, <3>3
  <2>2. ASSUME NEW g \in group + 1..Len(by_hf)
        PROVE  Filled(cells', plans[g], by_hf[g], 0)
    <3>1. g \in 1..Len(by_hf) /\ g # group
      BY <1>3, <1>4
    <3>2. 0 \in 0..Len(plans[g])
      BY <3>1, PlanFacts
    <3>3. Has(g, 0)
      BY <1>4
    <3> QED
      BY <1>14, <3>1, <3>2, <3>3
  <2> QED
    BY <2>1, <2>2
<1>16. n + 1 <= Len(plan)
  BY <1>4, <1>5, <1>6
<1>17. Walk'
  BY <1>1, <1>3, <1>4, <1>12, <1>13, <1>15, <1>16 DEF Walk, Loading, Filling, Has
<1>18. cells' \in Seq(Entries')
  BY <1>3, <1>5, <1>9, <1>11
<1>19. \A i \in DOMAIN cells' : OwnModel(cells'[i])
  <2>1. /\ cells'[Len(cells) + 1] = e
        /\ \A i \in DOMAIN cells : cells'[i] = cells[i]
        /\ \A i \in DOMAIN cells' : i \in DOMAIN cells \/ i = Len(cells) + 1
    BY <1>5, <1>9, <1>11, Appending
  <2> QED
    BY <1>5, <1>10, <2>1
<1> QED
  BY <1>1, <1>17, <1>18, <1>19 DEF CellsInv, EveryCellOnce, Loading, OwnModel

(* When the last group is done every cell is there.                        *)
LEMMA AllCells ==
    ASSUME CellsInv, pc = "load", group > Len(by_hf)
    PROVE  /\ \A c \in Chosen, b \in ToSet(Batches) :
                 Cardinality({i \in DOMAIN cells : cells[i].config = c /\ cells[i].batch = b}) = 1
           /\ \A i \in DOMAIN cells :
                 /\ cells[i].config \in Chosen
                 /\ cells[i].vllm.status = "ok" => cells[i].vllm.by = cells[i].config.hf
<1>1. \A g \in 1..Len(by_hf) : Has(g, Len(plans[g]))
  <2>1. Len(by_hf) \in Nat
    BY Groups
  <2>2. group = Len(by_hf) + 1
    BY <2>1 DEF CellsInv, Walk, Loading
  <2>3. \A g \in 1..Len(by_hf) : g \in 1..group - 1
    BY <2>1, <2>2
  <2> QED
    BY <2>3 DEF CellsInv, Walk, Loading
<1>2. ASSUME NEW c \in Chosen, NEW b \in ToSet(Batches)
      PROVE  Cardinality({i \in DOMAIN cells : cells[i].config = c /\ cells[i].batch = b}) = 1
  <2>1. PICK g \in 1..Len(by_hf) : by_hf[g] = c.hf
    BY Groups
  <2>2. PICK k \in 1..Len(plans[g]) : plans[g][k] = Cell(c, b)
    BY <2>1, PlanFacts
  <2>3. Once(cells, Cell(c, b))
    BY <1>1, <2>2 DEF Has, Filled
  <2>4. PICK i \in DOMAIN cells : /\ cells[i].config = c /\ cells[i].batch = b
                                  /\ \A k1 \in DOMAIN cells :
                                        cells[k1].config = c /\ cells[k1].batch = b => k1 = i
    <3>1. Cell(c, b).config = c /\ Cell(c, b).batch = b
      BY DEF Cell
    <3> QED
      BY <2>3, <3>1 DEF Once, Fills
  <2>5. {j \in DOMAIN cells : cells[j].config = c /\ cells[j].batch = b} = {i}
    BY <2>4
  <2> QED
    BY <2>5, FS_Singleton
<1>3. ASSUME NEW i \in DOMAIN cells
      PROVE  /\ cells[i].config \in Chosen
             /\ cells[i].vllm.status = "ok" => cells[i].vllm.by = cells[i].config.hf
  <2>1. cells[i] \in Entries
    <3>1. cells \in Seq(Entries)
      BY DEF CellsInv
    <3> QED
      BY <3>1, ElementOfSeq, LenProperties
  <2>2. cells[i].vllm \in Answers(cells[i].config.hf)
    BY DEF CellsInv, OwnModel
  <2> QED
    BY <2>1, <2>2 DEF Entries, Answers, NotRun
<1> QED
  BY <1>2, <1>3

LEMMA SaveCellsOnce == ASSUME CellsInv, SaveCells PROVE CellsInv'
<1>1. /\ UNCHANGED <<cells, args>> /\ pc = "load" /\ pc' = "save" /\ group > Len(by_hf)
  BY DEF SaveCells, Outside, calibration
<1>2. Chosen' = Chosen /\ Entries' = Entries
  BY <1>1, Carried
<1>3. EveryCellOnce'
  BY <1>1, <1>2, AllCells DEF EveryCellOnce
<1>4. \E x : todo' = <<x>>
  BY DEF SaveCells
<1>5. TodoShape' /\ todo' # <<>> /\ DOMAIN todo' = {1}
  BY <1>4 DEF TodoShape
<1>6. cells' \in Seq(Entries') /\ \A i \in DOMAIN cells' : OwnModel(cells'[i])
  BY <1>1, <1>2 DEF CellsInv
<1>7. \A i, j \in DOMAIN todo' : todo'[i][1][1] = todo'[j][1][1]
  BY <1>5
<1>8. Walk'
  BY <1>1 DEF Walk, Loading, Filling
<1> QED
  BY <1>1, <1>3, <1>5, <1>6, <1>7, <1>8 DEF CellsInv, OwnModel

LEMMA CellsStep == CellsInv /\ [Next]_vars => CellsInv'
<1> SUFFICES ASSUME CellsInv, [Next]_vars PROVE CellsInv'
  OBVIOUS
<1>1. CASE UNCHANGED vars
  <2>1. UNCHANGED <<machine, run, args, pc, group, llm, entry, cells, todo>>
    BY <1>1 DEF vars, calibration
  <2>2. by_hf' = by_hf /\ plans' = plans /\ Chosen' = Chosen /\ Entries' = Entries
    BY <2>1, Carried
  <2>3. Walk'
    BY <2>1, <2>2 DEF CellsInv, Walk, Has, Loading, Filling
  <2>4. EveryCellOnce'
    BY <2>1, <2>2 DEF CellsInv, EveryCellOnce
  <2>5. TodoShape' <=> TodoShape
    BY <2>1 DEF TodoShape
  <2> QED
    BY <2>1, <2>2, <2>3, <2>4, <2>5 DEF CellsInv, OwnModel, Loading
<1>2. CASE Next /\ ~Loading /\ ~(pc = "save") /\ pc # "run_calibration"
  BY <1>2, OthersEmpty
<1>3. CASE Next /\ (Loading \/ pc = "save" \/ pc = "run_calibration")
  <2>1. CASE Killed
    BY <2>1, NoCells DEF Killed, Idle
  <2>2. CASE Save \/ Calibrate \/ Load \/ Simulate \/ Measure \/ Unload \/ SaveCells
    BY <2>2, SaveCarries, CalibrateCells, LoadCells, SimulateCells, MeasureCells,
       UnloadCells, SaveCellsOnce
  <2>3. ~(\/ StartRunAll \/ StartCalibration \/ Skip \/ RunStep \/ RunSummary
          \/ OtherScript \/ SloSweep \/ SloFails \/ Frame \/ FramingFails \/ Finished)
    BY <1>3 DEF StartRunAll, StartCalibration, Start, Skip, RunStep, RunSummary, OtherScript,
       SloSweep, SloFails, Frame, FramingFails, Finished, Loading
  <2> QED
    BY <1>3, <2>1, <2>2, <2>3 DEF Next
<1> QED
  BY <1>1, <1>2, <1>3

(* Whatever fails or answers, what run_calibration saves has one cell for  *)
(* each selected configuration and batch, for any lists that name nothing  *)
(* twice, and what vLLM measured is of the configuration's own model.      *)
THEOREM CellsOnce == Spec => []EveryCellOnce
<1>1. Init => CellsInv
  BY DEF Init, CellsInv, Walk, Loading, Filling, EveryCellOnce
<1>2. CellsInv => EveryCellOnce
  BY DEF CellsInv
<1> QED
  BY <1>1, <1>2, CellsStep, PTL DEF Spec
=============================================================================
