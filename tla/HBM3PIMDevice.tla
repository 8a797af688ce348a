--------------------------- MODULE HBM3PIMDevice ---------------------------
(***************************************************************************)
(* The device driven the way every controller of the simulator drives it:  *)
(* for some request the prerequisite command is asked for and issued.      *)
(* Which request comes next, and whether the last one has been served, is  *)
(* left open, so the runs of any scheduler are among these behaviours.     *)
(***************************************************************************)
EXTENDS HBM3PIM

CONSTANT TrafficClasses   \* the sets of final commands a trace may be made of

ASSUME TrafficAssumption ==
    \A t \in TrafficClasses :
        t \subseteq RowAccess \cup DataMove \cup {"REFab"}

VARIABLES
    rows,     \* the open rows of every bank
    traffic   \* the final commands of this run's requests

vars == <<rows, traffic>>

Init == rows = AllClosed /\ traffic \in TrafficClasses

(* issue_command for a request whose final command is cmd. *)
IssueFor(cmd, b, r) ==
    /\ rows' = RowsAfter(rows, PreqCommand(rows, cmd, b, r), b, r)
    /\ UNCHANGED traffic

Next == \E cmd \in traffic, b \in Bank, r \in Row : IssueFor(cmd, b, r)

Spec == Init /\ [][Next]_vars

----------------------------------------------------------------------------
TypeOK == rows \in RowState /\ traffic \in TrafficClasses

(* The row-opening commands of the trace: the generators and LD/ST traces  *)
(* use one of them, refreshes and data movement come on top.               *)
SingleMode(t) == \/ t \cap RowAccess \subseteq {"RD", "WR"}
                 \/ t \cap RowAccess \subseteq {"MACAB"}
                 \/ t \cap RowAccess \subseteq {"MACPB"}

(***************************************************************************)
(* A bank has one row buffer: while a run mixes no two ways of opening     *)
(* rows, no sequence of prerequisites leaves a bank with two open rows.    *)
(* ACTAB, ACTPB and ACT add a row to m_row_state and rely on the           *)
(* prerequisite to have closed the previous one in every bank they reach.  *)
(***************************************************************************)
OneRowPerBank ==
    SingleMode(traffic) => \A b \in Bank : \A r, s \in rows[b] : r = s

(***************************************************************************)
(* The pseudochannels a broadcast command drives stay in step: all-bank    *)
(* traffic keeps every bank alike, per-bank traffic the banks of the same  *)
(* rank, bank group and bank.  Without it the first bank visited would     *)
(* not speak for the others and a MAC would open a row over an open one.   *)
(***************************************************************************)
BroadcastInStep ==
    /\ traffic \cap RowAccess \subseteq {"MACAB"} =>
          \A b, c \in Bank : rows[b] = rows[c]
    /\ traffic \cap RowAccess \subseteq {"MACPB"} =>
          \A b \in Bank : \A c \in Broadcast(b) : rows[b] = rows[c]

(* Whether the request is at its final command after at most two           *)
(* prerequisites (close, open) with nothing issued in between.             *)
ServedInThree(cmd, b, r) ==
    LET first  == PreqCommand(rows, cmd, b, r)
        rows1  == RowsAfter(rows, first, b, r)
        second == PreqCommand(rows1, cmd, b, r)
        rows2  == RowsAfter(rows1, second, b, r)
    IN  PreqCommand(rows2, cmd, b, r) = cmd

(***************************************************************************)
(* From every reachable row state, mixed traffic included, a request that  *)
(* is let alone reaches its final command: closing and opening converge    *)
(* and never chase each other.  Same-bank MACs are left out: PRESB closes  *)
(* the banks of one bank group where ACTSB opens those of all, so on a new *)
(* row they may repeat the two for ever (README, section 8).               *)
(***************************************************************************)
RequestsConverge ==
    \A cmd \in traffic \ {"MACSB"}, b \in Bank, r \in Row :
        ServedInThree(cmd, b, r)
============================================================================
