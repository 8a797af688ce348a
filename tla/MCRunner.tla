------------------------------ MODULE MCRunner ------------------------------
(* An H100 and a machine with a GPU nobody knows, two models of which one  *)
(* is listed with two image sizes, apart from each other, and the results  *)
(* of an A6000 and of an H100 that the repository holds.                   *)
EXTENDS ExperimentRunner

MCMachines == {[gpu |-> "H100", vllm |-> TRUE], [gpu |-> "H100", vllm |-> FALSE],
               [gpu |-> "RTX", vllm |-> TRUE]}
Config(label, hf, image) == [label |-> label, hf |-> hf, image |-> image]
MCConfigs == << Config("Qwen", "qwen", 336), Config("LLaVA", "llava", 336),
                Config("Qwen", "qwen", 672) >>
MCBatches == <<1, 2>>
MCSkips == {{}, {"phase1"}, {"phase1", "phase2"}, {"phase1", "phase3"},
            {"regression", "phase1", "phase3"}}
MCSelections == {{}, {"Qwen"}}
MCOldFiles ==
    [file \in {File("slo_throughput", AnyHost)} |-> Made("A6000", "A6000", 0)]
        @@ [file \in {File(name, "H100") :
                name \in {"slo_throughput", "capacity_framing", "calibration"}} |->
                    Made("H100", "H100", 0)]
=============================================================================
