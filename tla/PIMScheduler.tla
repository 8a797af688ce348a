---------------------------- MODULE PIMScheduler ----------------------------
(***************************************************************************)
(* The scheduler of the controller: given a request buffer, the row state  *)
(* of the device and the commands whose timing constraints have expired,   *)
(* which request should be served next.                                    *)
(*                                                                         *)
(* Timing is abstracted to the set rdy of <<command, bank>> pairs for      *)
(* which check_ready answers true.                                         *)
(***************************************************************************)
EXTENDS HBM3PIM, Integers, Sequences, SequencesExt

(* The command a request needs now (req.command, refreshed before use). *)
Cmd(rows, q) == PreqCommand(rows, Translation[q.type], q.bank, q.row)
Final(q) == Translation[q.type]

CheckReady(rows, rdy, q) == <<Cmd(rows, q), q.bank>> \in rdy
RowHit(rows, q) == RowBufferHit(rows, Cmd(rows, q), q.bank, q.row)

(* rowhit_list: the banks some request of the buffer hits. *)
HitBanks(rows, s) == {s[k].bank : k \in {j \in DOMAIN s : RowHit(rows, s[j])}}

(***************************************************************************)
(* compare: a ready request beats one that is not, unless it would turn a  *)
(* bank away from a row another request still hits; else the older wins.   *)
(***************************************************************************)
(* Mutant of Better: of two requests of one age the later one wins. *)
BetterTakesLater(rows, rdy, s, i, j) ==
    LET readyI == CheckReady(rows, rdy, s[i])
        readyJ == CheckReady(rows, rdy, s[j])
        stealsHit == ~RowHit(rows, s[j]) /\ s[j].bank \in HitBanks(rows, s)
    IN  IF \/ readyI /\ ~readyJ
           \/ ~readyI /\ readyJ /\ stealsHit
           \/ readyI = readyJ /\ s[i].arrive < s[j].arrive
        THEN i ELSE j

Better(rows, rdy, s, i, j) ==
    LET readyI == CheckReady(rows, rdy, s[i])
        readyJ == CheckReady(rows, rdy, s[j])
        stealsHit == ~RowHit(rows, s[j]) /\ s[j].bank \in HitBanks(rows, s)
    IN  IF \/ readyI /\ ~readyJ
           \/ ~readyI /\ readyJ /\ stealsHit
           \/ readyI = readyJ /\ s[i].arrive <= s[j].arrive
        THEN i ELSE j

(* Behind a barrier only commands that open or close rows may compete. *)
(* Mutant of Competes: barriers are ignored. *)
CompetesAlways(rows, s, j) == TRUE

Competes(rows, s, j) ==
    \/ \A k \in 2..j : s[k].type # "pim-barrier"
    \/ Cmd(rows, s[j]) \in Opening \cup Closing

(* get_best_request drops a barrier that has come to the front ... *)
FrontBarrier(s) == s # <<>> /\ Head(s).type = "pim-barrier"
(* Mutant of PassBarrier: the front is dropped without a look at its type. *)
PassAnything(s) == IF s # <<>> THEN Tail(s) ELSE s

PassBarrier(s) == IF FrontBarrier(s) THEN Tail(s) ELSE s

(* ... and folds compare over the requests left. *)
BestRequest(rows, rdy, s) ==
    LET better == [j \in DOMAIN s |-> [i \in DOMAIN s |-> Better(rows, rdy, s, i, j)]]
    IN  FoldLeftDomain(LAMBDA best, j : IF Competes(rows, s, j)
                                        THEN better[j][best] ELSE best,
                       1, s)
=============================================================================
