----------------------------- MODULE WorkLedger -----------------------------
(***************************************************************************)
(* What a run of the simulator promises, whatever its graph and devices:   *)
(* the prompt and the tokens of every decoder layer are priced once, on    *)
(* the device the routing names for the layer, its tokens never before its *)
(* prompt, and a row is written only when nothing is left to price (it may *)
(* never be: a run without tokens has none).                               *)
(***************************************************************************)
EXTENDS Naturals

VARIABLES
    promise, \* decoder layers by device
    prompt,  \* those whose prompt is to be priced
    tokens,  \* those whose tokens are to be priced
    row      \* is the row complete?

vars == <<promise, prompt, tokens, row>>

Sides == {"gpu", "acc"}
None == [d \in Sides |-> 0]

Init ==
    /\ promise \in [Sides -> Nat]
    /\ prompt = promise
    /\ tokens \in {promise, None}
    /\ row = FALSE

PricePrompt(d) ==
    /\ \E n \in 1..prompt[d] : prompt' = [prompt EXCEPT ![d] = @ - n]
    /\ UNCHANGED <<promise, tokens, row>>

PriceTokens(d) ==
    /\ \E n \in 1..(tokens[d] - prompt[d]) : tokens' = [tokens EXCEPT ![d] = @ - n]
    /\ UNCHANGED <<promise, prompt, row>>

WriteRow ==
    /\ prompt = None /\ tokens = None /\ ~row
    /\ row' = TRUE
    /\ UNCHANGED <<promise, prompt, tokens>>

Next == (\E d \in Sides : PricePrompt(d) \/ PriceTokens(d)) \/ WriteRow

Spec == Init /\ [][Next]_vars
=============================================================================
