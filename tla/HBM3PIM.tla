------------------------------ MODULE HBM3PIM ------------------------------
(***************************************************************************)
(* The HBM3-PIM device as the controller sees it: which rows every bank of *)
(* one channel has open, which command a request needs next (the           *)
(* "prerequisites") and what an issued command does to the rows (the       *)
(* "actions").  Columns and timing are left out: no prerequisite and no    *)
(* action reads them.                                                      *)
(***************************************************************************)
EXTENDS Naturals, FiniteSets

CONSTANTS
    NPch,   \* pseudochannels of the channel
    NRank,  \* ranks (stack ids) of a pseudochannel
    NBg,    \* bank groups of a rank
    NBk,    \* banks of a bank group
    Row     \* the rows of a bank

ASSUME OrganizationAssumption ==
    /\ {NPch, NRank, NBg, NBk} \subseteq Nat \ {0}
    /\ Row # {}

Bank == [pch : 0..NPch-1, rank : 0..NRank-1, bg : 0..NBg-1, bk : 0..NBk-1]

(* m_state and m_row_state of a bank: it is Opened iff some row is open. *)
RowState == [Bank -> SUBSET Row]
AllClosed == [b \in Bank |-> {}]

(***************************************************************************)
(* Requests, the commands that serve them, and what the commands are.      *)
(***************************************************************************)
PimType == {"pim-mac-all-bank", "pim-mac-same-bank", "pim-mac-per-bank",
            "pim-write-to-gemv-buffer", "pim-move-to-softmax-buffer",
            "pim-move-to-gemv-buffer", "pim-softmax", "pim-set-model",
            "pim-set-head", "pim-barrier"}

Translation ==
    [t \in {"read", "write", "all-bank-refresh"} \cup PimType |->
        CASE t = "read"                       -> "RD"
          [] t = "write"                      -> "WR"
          [] t = "all-bank-refresh"           -> "REFab"
          [] t = "pim-mac-all-bank"           -> "MACAB"
          [] t = "pim-mac-same-bank"          -> "MACSB"
          [] t = "pim-mac-per-bank"           -> "MACPB"
          [] t = "pim-write-to-gemv-buffer"   -> "WRGB"
          [] t = "pim-move-to-softmax-buffer" -> "MVSB"
          [] t = "pim-move-to-gemv-buffer"    -> "MVGB"
          [] t = "pim-softmax"                -> "SFM"
          [] t = "pim-set-model"              -> "SETM"
          [] t = "pim-set-head"               -> "SETH"
          [] t = "pim-barrier"                -> "BARRIER"]

Opening == {"ACT", "ACTAB", "ACTSB", "ACTPB"}
Closing == {"PRE", "PREA", "PRESB", "PREPB"}
RowAccess == {"RD", "WR", "MACAB", "MACSB", "MACPB"}
DataMove == {"WRGB", "MVSB", "MVGB", "SFM", "SETM", "SETH", "BARRIER"}
Command == Opening \cup Closing \cup RowAccess \cup DataMove \cup {"REFab"}

(* The command that opens, or closes, the row a column access asks for. *)
Opener(cmd) == CASE cmd = "MACAB" -> "ACTAB" [] cmd = "MACSB" -> "ACTSB"
                 [] cmd = "MACPB" -> "ACTPB" [] OTHER -> "ACT"
Closer(cmd) == CASE cmd = "MACAB" -> "PREA"  [] cmd = "MACSB" -> "PRESB"
                 [] cmd = "MACPB" -> "PREPB" [] OTHER -> "PRE"

(***************************************************************************)
(* The banks a command addressed to bank b works on.  The lambda of PRESB  *)
(* keeps the rank and the bank group of b, as the one of PREPB does.       *)
(***************************************************************************)
SameBank(b) == {c \in Bank : c.bk = b.bk}
Broadcast(b) == {c \in Bank : c.rank = b.rank /\ c.bg = b.bg /\ c.bk = b.bk}

(* Mutant of Reach: PREA closes the addressed pseudochannel only. *)
ReachOfPREAIsOwnPch(cmd, b) ==
    CASE cmd = "PREA" -> {c \in Bank : c.pch = b.pch}
      [] cmd \in {"ACTAB", "MACAB", "REFab"}            -> Bank
      [] cmd \in {"ACTSB", "MACSB"}                    -> SameBank(b)
      [] cmd \in {"ACTPB", "MACPB", "PREPB", "PRESB"}  -> Broadcast(b)
      [] OTHER                                         -> {b}

(* Mutant of Reach: a per-bank MAC drives the addressed bank only. *)
ReachOfACTPBIsOwnBank(cmd, b) ==
    CASE cmd \in {"ACTAB", "PREA", "MACAB", "REFab"}   -> Bank
      [] cmd \in {"ACTSB", "MACSB"}                    -> SameBank(b)
      [] cmd \in {"MACPB", "PREPB", "PRESB"}           -> Broadcast(b)
      [] OTHER                                         -> {b}

Reach(cmd, b) ==
    CASE cmd \in {"ACTAB", "PREA", "MACAB", "REFab"}   -> Bank
      [] cmd \in {"ACTSB", "MACSB"}                    -> SameBank(b)
      [] cmd \in {"ACTPB", "MACPB", "PREPB", "PRESB"}  -> Broadcast(b)
      [] OTHER                                         -> {b}

(* The order in which the nested loops over the node tree visit the banks. *)
Before(c, b) ==
    \/ c.pch < b.pch
    \/ c.pch = b.pch /\ c.rank < b.rank
    \/ c.pch = b.pch /\ c.rank = b.rank /\ c.bg < b.bg
    \/ c.pch = b.pch /\ c.rank = b.rank /\ c.bg = b.bg /\ c.bk < b.bk

(***************************************************************************)
(* get_preq_command: the first bank in visiting order that lacks row r     *)
(* decides, by being closed or open, whether to open or to close.          *)
(***************************************************************************)
FirstLackingIsClosed(rows, S, r) ==
    \E b \in S : /\ rows[b] = {}
                 /\ \A c \in S : Before(c, b) => r \in rows[c]

(* Mutant of PreqCommand: an open bank is never closed for another row. *)
PreqCommandNeverCloses(rows, cmd, b, r) ==
    CASE cmd \in RowAccess ->
            IF \A c \in Reach(cmd, b) : r \in rows[c] THEN cmd ELSE Opener(cmd)
      [] cmd = "REFab" -> IF \A c \in Bank : rows[c] = {} THEN cmd ELSE "PREA"
      [] OTHER         -> cmd

PreqCommand(rows, cmd, b, r) ==
    CASE cmd \in RowAccess ->
            IF \A c \in Reach(cmd, b) : r \in rows[c] THEN cmd
            ELSE IF FirstLackingIsClosed(rows, Reach(cmd, b), r)
                 THEN Opener(cmd) ELSE Closer(cmd)
      [] cmd = "REFab" -> IF \A c \in Bank : rows[c] = {} THEN cmd ELSE "PREA"
      [] OTHER         -> cmd

(* Mutant of RowsAfter: m_row_state is keyed by the id of the bank. *)
RowsAfterKeyedByBank(rows, cmd, b, r) ==
    [c \in Bank |-> IF c \notin Reach(cmd, b) THEN rows[c]
                    ELSE IF cmd \in Opening THEN rows[c] \cup {c.bk}
                    ELSE IF cmd \in Closing THEN {}
                    ELSE rows[c]]

(* update_states: the rows after cmd, addressed to row r of bank b. *)
RowsAfter(rows, cmd, b, r) ==
    [c \in Bank |-> IF c \notin Reach(cmd, b) THEN rows[c]
                    ELSE IF cmd \in Opening THEN rows[c] \cup {r}
                    ELSE IF cmd \in Closing THEN {}
                    ELSE rows[c]]

(* check_rowbuffer_hit: only column accesses have a row-hit rule. *)
RowBufferHit(rows, cmd, b, r) == cmd \in RowAccess /\ r \in rows[b]
============================================================================
