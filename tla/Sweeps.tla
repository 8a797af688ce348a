------------------------------- MODULE Sweeps -------------------------------
(***************************************************************************)
(* What the scripts that run_all.py starts ask of the simulator: the       *)
(* tables of models, image sizes, lengths and systems each has of its own. *)
(* Batch sizes are left out: whether a cell makes sense does not depend on *)
(* them.  An image side stands for a square image.                         *)
(***************************************************************************)
EXTENDS Integers, FiniteSetsExt, ModelGraph

L == LanguageModels
T == TextModels
V == VisionModels

Systems == {"dgx", "dgx-attacc"}
LOUT == 128
(* The arguments of sim_runner.run that the length of a prompt must fit. *)
Cell(model, system, image, lin, max_L) ==
    [model |-> model, system |-> system, image |-> Square(image), lin |-> lin, max_L |-> max_L]
Both(model, image, lin, max_L) == {Cell(model, s, image, lin, max_L) : s \in Systems}

(* Language models at the default max_L. *)
UpstreamBaseline ==
    LET Of(model, lin) == Cell(model, "dgx-attacc", 672, lin, 2048)
    IN  {Of(L[m], 2048) : m \in {"GPT_175B", "GPT_89B", "LLAMA_65B", "MT_530B", "OPT_66B"}}
            \cup {Of(L[m], 1024) : m \in {"GPT_13B", "LLAMA_7B"}}

(* Lengths measured elsewhere, on the GPU alone. *)
VitRecalibration ==
    {Cell(V.Qwen2_5_VL_7B, "dgx", 672, 334, 2048), Cell(V.LLaVA_1_5_7B, "dgx", 336, 620, 2048),
     Cell(V.LLaVA_Next_7B, "dgx", 672, 1979, 2048)}

(* max_L_for: the first common size that covers a length. *)
MaxLFor(length) ==
    LET covering == {cap \in {2048, 4096, 8192, 16384} : cap >= length}
    IN  IF covering = {} THEN 2 * length ELSE Min(covering)
MultiVlmFullSim ==
    LET Of(model, image, lin) == Both(model, image, lin, MaxLFor(lin + LOUT))
    IN  Of(V.Qwen3_VL_4B, 672, 569) \cup Of(V.Qwen2_5_VL_7B, 672, 704)
            \cup Of(V.InternVL3_8B, 448, 384) \cup Of(V.LLaVA_1_5_7B, 336, 704)
            \cup Of(V.LLaVA_Next_7B, 672, 3008)

SloThroughput ==
    Both(V.Qwen3_VL_4B, 672, 569, 4096) \cup Both(V.Qwen2_5_VL_7B, 672, 704, 4096)
        \cup Both(V.LLaVA_1_5_7B, 336, 704, 4096)

(* A pair runs both its models on the same image and length. *)
VlmVsLlmPair ==
    LET Pair(text, vision, image, lin) ==
            Both(text, image, lin, 4096) \cup Both(vision, image, lin, 4096)
    IN  Pair(T.Vicuna_7B, V.LLaVA_1_5_7B, 336, 704)
            \cup Pair(T.Mistral_7B, V.LLaVA_Next_7B, 336, 1856)
            \cup Pair(T.Qwen3_4B, V.Qwen3_VL_4B, 672, 569)

(* Mutant of PrefillDecompVlm: the length LLaVA-Next had before it was bumped. *)
PrefillDecompVlmTooShort ==
    LET Of(model, image, lin) == Both(model, image, lin, 4096)
    IN  Of(V.Qwen3_VL_4B, 672, 569) \cup Of(V.LLaVA_Next_7B, 672, 704)
PrefillDecompVlm ==
    LET Of(model, image, lin) == Both(model, image, lin, 4096)
    IN  Of(V.Qwen3_VL_4B, 672, 569) \cup Of(V.Qwen2_5_VL_7B, 672, 704)
            \cup Of(V.InternVL3_8B, 448, 704) \cup Of(V.LLaVA_1_5_7B, 336, 704)
            \cup Of(V.LLaVA_Next_7B, 672, 3008)

(* The prompt grows with the image: its visual tokens and some text. *)
VisualTokenScaling ==
    UNION {Both(model, image, Most(8, VisualTokens(model.image, Square(image)) + 64), 4096) :
              model \in {V.Qwen2_5_VL_7B, V.LLaVA_Next_7B}, image \in {336, 672, 1008, 1344}}

(* Nothing is simulated, only the capacity is asked for. *)
CapacityRegime ==
    LET Of(model, image, lin) == Cell(model, "none", image, lin, 2048)
    IN  {Of(V.Qwen3_VL_4B, 672, 569), Of(V.Qwen2_5_VL_7B, 672, 704),
         Of(V.InternVL3_8B, 448, 384), Of(V.LLaVA_1_5_7B, 336, 704),
         Of(V.LLaVA_Next_7B, 672, 3008)}

(* VLM_CONFIGS, simulated on the GPU alone. *)
Calibration ==
    LET Of(model, image, lin) == Cell(model, "dgx", image, lin, 4096)
    IN  {Of(V.Qwen3_VL_4B, 336, 569), Of(V.Qwen3_VL_4B, 672, 569),
         Of(V.Qwen2_5_VL_7B, 336, 704), Of(V.Qwen2_5_VL_7B, 672, 704),
         Of(V.LLaVA_1_5_7B, 336, 704), Of(V.LLaVA_Next_7B, 336, 1856),
         Of(V.LLaVA_Next_7B, 672, 3008), Of(V.InternVL3_8B, 448, 704)}

(* roofline_per_vlm.py has the shapes of its models once more. *)
Shape(model) ==
    [ndec |-> model.ndec, hdim |-> model.hdim, n_q |-> model.q, n_kv |-> model.kv,
     dhead |-> model.dhead, ff |-> model.ff]
Shaped(ndec, hdim, q, kv, ff) ==
    [ndec |-> ndec, hdim |-> hdim, n_q |-> q, n_kv |-> kv, dhead |-> 128, ff |-> ff]
RooflineShapes ==
    [Qwen3_VL_4B   |-> Shaped(36, 2560, 32, 8, 9728),
     Qwen2_5_VL_7B |-> Shaped(28, 3584, 28, 4, 18944),
     InternVL3_8B  |-> Shaped(28, 3584, 28, 4, 18944),
     LLaVA_1_5_7B  |-> Shaped(32, 4096, 32, 32, 11008),
     LLaVA_Next_7B |-> Shaped(32, 4096, 32, 8, 14336)]

(* By script. *)
CellsOf ==
    [upstream_baseline |-> UpstreamBaseline, vit_recalibration |-> VitRecalibration,
     multi_vlm_full_sim |-> MultiVlmFullSim, slo_throughput |-> SloThroughput,
     vlm_vs_llm_pair |-> VlmVsLlmPair, prefill_decomp_vlm |-> PrefillDecompVlm,
     visual_token_scaling |-> VisualTokenScaling, capacity_regime |-> CapacityRegime,
     run_calibration |-> Calibration]

(* A cell is feasible: the prompt has room for the tokens of its image,    *)
(* and all positions of a sequence on PIM lie below max_L.                 *)
Feasible(c) ==
    /\ VisualTokens(c.model.image, c.image) < c.lin
    /\ c.system = "dgx-attacc" => c.lin + LOUT <= c.max_L
=============================================================================
