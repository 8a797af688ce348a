----------------------------- MODULE PIMService -----------------------------
(***************************************************************************)
(* What the memory system promises the trace frontend, whatever buffers,   *)
(* slots and write modes lie behind it:                                    *)
(*   - lines are accepted in trace order, each once;                       *)
(*   - an accepted line is served at most once, and never before it came;  *)
(*   - PIM lines on the two sides of a barrier are served in that order;   *)
(*   - a read may be served on acceptance only from an unserved write to   *)
(*     its address;                                                        *)
(*   - the data of a read is delivered once, after it was served.          *)
(***************************************************************************)
EXTENDS Naturals, Sequences

CONSTANTS Traces, PimType

VARIABLES trace, sent, served, completed

vars == <<trace, sent, served, completed>>

Init == trace \in Traces /\ sent = 0 /\ served = {} /\ completed = {}

IsPim(n) == trace[n].type \in PimType
SameAddress(m, n) == /\ trace[m].bank = trace[n].bank
                     /\ trace[m].row = trace[n].row
                     /\ trace[m].col = trace[n].col

(* Lines m and n are ordered by a barrier: one between them, or one of     *)
(* them is the barrier.                                                    *)
Separated(m, n) ==
    /\ m < n /\ IsPim(m) /\ IsPim(n)
    /\ \E k \in m..n : trace[k].type = "pim-barrier"

Accept ==
    /\ sent < Len(trace)
    /\ sent' = sent + 1
    /\ UNCHANGED <<trace, served, completed>>

AcceptForwarded ==
    /\ sent < Len(trace)
    /\ trace[sent + 1].type = "read"
    /\ \E w \in (1..sent) \ served :
          trace[w].type = "write" /\ SameAddress(w, sent + 1)
    /\ sent' = sent + 1
    /\ served' = served \cup {sent + 1}
    /\ UNCHANGED <<trace, completed>>

(* A slot serves one line, and passes a barrier on its way. *)
Serve(S) ==
    /\ \A n \in S : \A m \in 1..n : Separated(m, n) => m \in served \cup S
    /\ \A m, n \in S : m = n \/ trace[m].type = "pim-barrier"
                             \/ trace[n].type = "pim-barrier"
    /\ served' = served \cup S
    /\ UNCHANGED <<trace, sent, completed>>

Deliver(n) ==
    /\ n \in served \ completed /\ trace[n].type = "read"
    /\ completed' = completed \cup {n}
    /\ UNCHANGED <<trace, sent, served>>

Next == \/ Accept \/ AcceptForwarded
        \/ \E S \in SUBSET ((1..sent) \ served) : S # {} /\ Serve(S)
        \/ \E n \in 1..sent : Deliver(n)

Spec == Init /\ [][Next]_vars
=============================================================================
