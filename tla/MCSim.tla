------------------------------- MODULE MCSim --------------------------------
(* Command lines for the simulator: small models, whose layers are priced  *)
(* by the formulas of the devices, in every deployment and routing, and    *)
(* the models of the table, whose sizes are beyond TLC's integers and are  *)
(* priced by a number that differs from layer to layer.                    *)
EXTENDS PricedSimulation

Tiny == Legacy(2, 8, 2, 4, 16)
TinyGqa == Completed(3, 16, 8, 4, 2, 24, TRUE, {}, NoVit, NoImage)
TinyDeepStack == Completed(4, 8, 4, 2, 2, 8, TRUE, {1, 2}, Vit(2, 8, 2, 16, "vit_silu"),
                           Image(2, 8, 2, 4, "merger", <<>>))
TinyAnyRes == Completed(2, 8, 2, 2, 4, 16, TRUE, {}, Vit(1, 8, 2, 8, "vit_gelu"),
                        Image(2, 4, 1, 20, "mlp", << <<4, 8>>, <<8, 4>>, <<8, 8>> >>))

Command(model, system, ngpu, routing, list, batch, lin, lout) ==
    [model |-> model, system |-> system, ngpu |-> ngpu, tp |-> ngpu, num_attacc |-> ngpu,
     routing |-> routing, list |-> list, batch |-> batch, lin |-> lin, lout |-> lout,
     image |-> <<>>, chunk |-> 2, samples |-> 2, pipe |-> FALSE, ffopt |-> FALSE]

Systems == {"dgx", "dgx-cpu", "dgx-attacc"}
Routed3 == {Command(m, s, n, r, l, b, 3, 3) :
               m \in {Tiny, TinyGqa, TinyDeepStack}, s \in Systems, n \in {1, 2, 4},
               r \in {"default", "conservative", "optimistic", "list"}, l \in {{}, {0, 2, 9}},
               b \in {1, 2}}
Overlaps == {[Command(m, "dgx-attacc", n, "default", {}, b, 2, o) EXCEPT !.pipe = p, !.ffopt = f] :
               m \in {Tiny, TinyGqa}, n \in {1, 2, 4}, b \in {1, 2}, o \in {1, 4},
               p \in BOOLEAN, f \in BOOLEAN}
Prompts == {[Command(Tiny, "dgx-attacc", 1, "default", {}, 1, i, 2)
                EXCEPT !.chunk = c, !.samples = s] : i \in 1..14, c \in {1, 2, 3, 512}, s \in {1, 2, 3, 4, 8}}
Images == {[Command(m, s, 2, "default", {}, 1, 4, 2) EXCEPT !.image = i] :
               m \in {TinyDeepStack, TinyAnyRes}, s \in {"dgx", "dgx-attacc"},
               i \in {<<>>, <<2, 2>>, <<4, 6>>, <<8, 6>>, <<9, 3>>}}
Unsupported == {[Command(Tiny, "dgx-attacc", 2, "default", {}, 1, 1, 1) EXCEPT !.num_attacc = 1],
                Command(Tiny, "dgx", 3, "default", {}, 1, 1, 1)}

Table == LET Of(t) == {t[name] : name \in DOMAIN t}
         IN  Of(LanguageModels) \cup Of(TextModels) \cup Of(VisionModels)
Listed == {Command(m, s, n, "default", {}, 1, 8, 3) :
               m \in {m \in Table : m.deepstack = {}}, s \in Systems, n \in {1, 2, 8}}
              \cup {Command(m, "dgx-attacc", 2, "optimistic", {}, 1, 8, 3) : m \in Table}

MCCalls == Routed3 \cup Overlaps \cup Prompts \cup Images \cup Unsupported \cup Listed

(* Prompts for the models whose heads are wider together than their hidden size. *)
WideHeads == {Command(TextModels.Qwen3_4B, "dgx", 2, "default", {}, 1, 8, 2)}

----------------------------------------------------------------------------
MCPj == [unit \in {"mem", "l2", "l1", "reg", "alu", "comm"} |->
            CASE unit = "mem" -> 5 [] unit = "l2" -> 3 [] unit = "comm" -> 7 [] OTHER -> 1]

Surrogate(num, l) ==
    LET mixed == 1 + ((l.m + 3 * l.n + 5 * l.k + 7 * l.ops + num) % 97) IN
    IF Memoised(l)
    THEN [time |-> Unit * mixed, bound |-> IF mixed % 2 = 0 THEN "compute" ELSE "memory",
          energy |-> <<mixed, 2, 3, 5, 7, 0>>]
    ELSE Transfer(mixed, 1, mixed)
MCCost(device, num, l) ==
    IF device = "pim" \/ Small(l) THEN Answer(device, num, l) ELSE Surrogate(num, l)
=============================================================================
