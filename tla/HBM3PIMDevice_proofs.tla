------------------------ MODULE HBM3PIMDevice_proofs ------------------------
(***************************************************************************)
(* Proofs about the device of HBM3PIMDevice, for every organization, every *)
(* set of rows and every set of traffic classes.                           *)
(***************************************************************************)
EXTENDS HBM3PIMDevice, TLAPS

(***************************************************************************)
(* Lemmas about the operators of HBM3PIM.                                  *)
(***************************************************************************)

(* A command addressed to a bank works on banks of the channel. *)
LEMMA ReachInBank ==
    ASSUME NEW cmd, NEW b \in Bank
    PROVE  Reach(cmd, b) \subseteq Bank
  BY DEF Reach, SameBank, Broadcast

(* What update_states does to the rows of the banks, by kind of command.   *)
LEMMA RowsAfterType ==
    ASSUME NEW rws \in RowState, NEW cmd, NEW b \in Bank, NEW r \in Row
    PROVE  RowsAfter(rws, cmd, b, r) \in RowState
  BY DEF RowsAfter, RowState

(* The commands a request for cmd can need, and when it is which: the      *)
(* final command if all banks have the row, else the opener if the first   *)
(* lacking bank is closed, else the closer.                                *)
LEMMA PreqCases ==
    ASSUME NEW rws \in RowState, NEW cmd \in RowAccess, NEW b \in Bank, NEW r \in Row
    PROVE  \/ /\ PreqCommand(rws, cmd, b, r) = cmd
              /\ \A c \in Reach(cmd, b) : r \in rws[c]
           \/ /\ PreqCommand(rws, cmd, b, r) = Opener(cmd)
              /\ FirstLackingIsClosed(rws, Reach(cmd, b), r)
           \/ PreqCommand(rws, cmd, b, r) = Closer(cmd)
  BY DEF PreqCommand, RowAccess

(* A column access opens and closes exactly the banks it works on;         *)
(* all-bank, per-bank and single-bank accesses do, same-bank ones do not.  *)
LEMMA CommandsReach ==
    ASSUME NEW cmd \in RowAccess \ {"MACSB"}, NEW b \in Bank
    PROVE  /\ Opener(cmd) \in Opening /\ Opener(cmd) \notin Closing
           /\ Closer(cmd) \in Closing /\ Closer(cmd) \notin Opening
           /\ cmd \notin Opening \cup Closing
           /\ cmd \in {"MACAB", "MACPB"} =>
                /\ Reach(Opener(cmd), b) = Reach(cmd, b)
                /\ Reach(Closer(cmd), b) = Reach(cmd, b)
           /\ cmd \in {"RD", "WR"} =>
                /\ Reach(cmd, b) = {b}
                /\ Reach(Opener(cmd), b) = {b}
                /\ Reach(Closer(cmd), b) = {b}
  BY DEF RowAccess, Opening, Closing, Opener, Closer, Reach

(* Data movement needs no row and changes none. *)
LEMMA DataMoveKeepsRows ==
    ASSUME NEW rws \in RowState, NEW cmd \in DataMove, NEW b \in Bank, NEW r \in Row
    PROVE  /\ PreqCommand(rws, cmd, b, r) = cmd
           /\ RowsAfter(rws, cmd, b, r) = rws
  BY DEF DataMove, PreqCommand, RowAccess, RowsAfter, Opening, Closing, RowState

(* A refresh closes every bank before it is issued itself. *)
LEMMA RefreshRows ==
    ASSUME NEW rws \in RowState, NEW b \in Bank, NEW r \in Row
    PROVE  LET cmd == PreqCommand(rws, "REFab", b, r)
           IN  \/ cmd = "REFab" /\ RowsAfter(rws, cmd, b, r) = rws
               \/ cmd = "PREA"  /\ RowsAfter(rws, cmd, b, r) = AllClosed
  BY DEF PreqCommand, RowAccess, RowsAfter, Opening, Closing, RowState, Reach, AllClosed

(* Bank by bank: the reached banks gain the row or lose all rows. *)
LEMMA RowsAfterBank ==
    ASSUME NEW rws \in RowState, NEW cmd, NEW b \in Bank, NEW r \in Row,
           NEW c \in Bank
    PROVE  /\ c \notin Reach(cmd, b) => RowsAfter(rws, cmd, b, r)[c] = rws[c]
           /\ c \in Reach(cmd, b) =>
                /\ cmd \in Opening => RowsAfter(rws, cmd, b, r)[c] = rws[c] \cup {r}
                /\ cmd \in Closing \ Opening => RowsAfter(rws, cmd, b, r)[c] = {}
                /\ cmd \notin Opening \cup Closing =>
                      RowsAfter(rws, cmd, b, r)[c] = rws[c]
  BY DEF RowsAfter

(***************************************************************************)
(* Type correctness: whatever is issued, the rows of every bank stay rows  *)
(* of the device and the traffic class is the one of the run.              *)
(***************************************************************************)
THEOREM TypeCorrect == Spec => []TypeOK
<1>1. Init => TypeOK
  BY DEF Init, TypeOK, AllClosed, RowState
<1>2. TypeOK /\ [Next]_vars => TypeOK'
  <2> SUFFICES ASSUME TypeOK, [Next]_vars PROVE TypeOK'
    OBVIOUS
  <2>1. CASE UNCHANGED vars
    BY <2>1 DEF TypeOK, vars
  <2>2. CASE Next
    <3>1. PICK cmd \in traffic, b \in Bank, r \in Row : IssueFor(cmd, b, r)
      BY <2>2 DEF Next
    <3>2. rows' \in RowState
      BY <3>1, RowsAfterType DEF IssueFor, TypeOK
    <3> QED
      BY <3>1, <3>2 DEF IssueFor, TypeOK
  <2> QED
    BY <2>1, <2>2
<1> QED
  BY <1>1, <1>2, PTL DEF Spec

(***************************************************************************)
(* The inductive invariant behind OneRowPerBank: the row buffers alone are *)
(* not inductive, because a broadcast opens a row in every bank it reaches *)
(* on the word of the first bank it visits; BroadcastInStep makes that     *)
(* bank speak for the others.                                              *)
(***************************************************************************)
IInv == TypeOK /\ OneRowPerBank /\ BroadcastInStep

(* The final command of a request is of one of three kinds. *)
LEMMA TrafficKinds ==
    ASSUME TypeOK, NEW cmd \in traffic
    PROVE  cmd \in RowAccess \cup DataMove \cup {"REFab"}
  BY TrafficAssumption DEF TypeOK

(* One MAC or column access to banks in step: rows of one bank at most.    *)
LEMMA AccessStep ==
    ASSUME NEW rws \in RowState, NEW cmd \in RowAccess \ {"MACSB"},
           NEW b \in Bank, NEW r \in Row,
           \A c, d \in Reach(cmd, b) : rws[c] = rws[d]
    PROVE  LET new == RowsAfter(rws, PreqCommand(rws, cmd, b, r), b, r)
           IN  /\ \A c \in Bank \ Reach(cmd, b) : new[c] = rws[c]
               /\ \A c, d \in Reach(cmd, b) : new[c] = new[d]
               /\ \A c \in Reach(cmd, b) : new[c] \in {rws[c], {}, {r}}
<1> DEFINE pre == PreqCommand(rws, cmd, b, r)
           new == RowsAfter(rws, pre, b, r)
           S == Reach(cmd, b)
<1>1. /\ S \subseteq Bank
      /\ Reach(Opener(cmd), b) = S /\ Reach(Closer(cmd), b) = S
  BY ReachInBank, CommandsReach DEF RowAccess
<1>2. CASE pre = cmd
  <2>1. \A c \in Bank : new[c] = rws[c]
    BY <1>2, CommandsReach, RowsAfterBank
  <2> QED
    BY <1>1, <2>1
<1>3. CASE pre = Opener(cmd) /\ FirstLackingIsClosed(rws, S, r)
  <2>1. \A c \in S : rws[c] = {}
    BY <1>3 DEF FirstLackingIsClosed
  <2>2. \A c \in S : new[c] = {r}
    BY <1>1, <1>3, <2>1, CommandsReach, RowsAfterBank
  <2>3. \A c \in Bank \ S : new[c] = rws[c]
    BY <1>1, <1>3, RowsAfterBank
  <2> QED
    BY <2>2, <2>3
<1>4. CASE pre = Closer(cmd)
  <2>1. \A c \in S : new[c] = {}
    BY <1>1, <1>4, CommandsReach, RowsAfterBank
  <2>2. \A c \in Bank \ S : new[c] = rws[c]
    BY <1>1, <1>4, RowsAfterBank
  <2> QED
    BY <2>1, <2>2
<1> QED
  <2>1. cmd \in RowAccess
    OBVIOUS
  <2> HIDE DEF pre, new, S
  <2>2. pre = cmd \/ (pre = Opener(cmd) /\ FirstLackingIsClosed(rws, S, r))
                  \/ pre = Closer(cmd)
    BY <2>1, PreqCases DEF pre, S
  <2> QED
    BY <2>2, <1>2, <1>3, <1>4 DEF pre, new, S

(* The banks a column access works on are in step whenever it may occur.   *)
LEMMA ReachedInStep ==
    ASSUME IInv, SingleMode(traffic), NEW cmd \in traffic,
           cmd \in RowAccess, NEW b \in Bank
    PROVE  cmd # "MACSB" /\ \A c, d \in Reach(cmd, b) : rows[c] = rows[d]
<1>1. cmd \in traffic \cap RowAccess
  OBVIOUS
<1>2. CASE traffic \cap RowAccess \subseteq {"RD", "WR"}
  BY <1>1, <1>2, CommandsReach
<1>3. CASE traffic \cap RowAccess \subseteq {"MACAB"}
  BY <1>1, <1>3, ReachInBank DEF IInv, BroadcastInStep
<1>4. CASE traffic \cap RowAccess \subseteq {"MACPB"}
  <2>1. cmd = "MACPB" /\ Reach(cmd, b) = Broadcast(b)
    BY <1>1, <1>4 DEF Reach
  <2>2. \A c \in Broadcast(b) : rows[b] = rows[c]
    BY <1>4 DEF IInv, BroadcastInStep
  <2> QED
    BY <2>1, <2>2
<1> QED
  BY <1>2, <1>3, <1>4 DEF SingleMode

(* Every issue keeps the inductive invariant, by the kind of the request.  *)
LEMMA IssueKeepsIInv ==
    ASSUME IInv, NEW cmd \in traffic, NEW b \in Bank, NEW r \in Row,
           IssueFor(cmd, b, r)
    PROVE  IInv'
<1> DEFINE pre == PreqCommand(rows, cmd, b, r)
<1>1. /\ rows \in RowState /\ rows' \in RowState
      /\ traffic' = traffic /\ TypeOK'
      /\ rows' = RowsAfter(rows, pre, b, r)
  BY RowsAfterType DEF IInv, TypeOK, IssueFor
<1>2. CASE rows' = rows
  BY <1>1, <1>2 DEF IInv, OneRowPerBank, BroadcastInStep
<1>3. CASE rows' = AllClosed
  BY <1>1, <1>3, ReachInBank DEF IInv, OneRowPerBank, BroadcastInStep, AllClosed, Broadcast
<1>4. CASE cmd \in RowAccess /\ SingleMode(traffic)
  <2>1. cmd # "MACSB" /\ \A c, d \in Reach(cmd, b) : rows[c] = rows[d]
    BY <1>4, ReachedInStep
  <2>2. Reach(cmd, b) \subseteq Bank
    BY ReachInBank
  <2>3. /\ \A c \in Bank \ Reach(cmd, b) : rows'[c] = rows[c]
        /\ \A c, d \in Reach(cmd, b) : rows'[c] = rows'[d]
        /\ \A c \in Reach(cmd, b) : rows'[c] \in {rows[c], {}, {r}}
    BY <1>1, <1>4, <2>1, AccessStep
  <2>4. OneRowPerBank'
    BY <1>1, <1>4, <2>2, <2>3 DEF IInv, OneRowPerBank
  <2>5. ASSUME traffic \cap RowAccess \subseteq {"MACAB"}
        PROVE  \A c, d \in Bank : rows'[c] = rows'[d]
    <3>1. Reach(cmd, b) = Bank
      BY <1>4, <2>5 DEF Reach
    <3> QED
      BY <2>3, <3>1
  <2>6. ASSUME traffic \cap RowAccess \subseteq {"MACPB"},
               NEW c \in Bank, NEW d \in Broadcast(c)
        PROVE  rows'[c] = rows'[d]
    <3>1. Reach(cmd, b) = Broadcast(b)
      BY <1>4, <2>6 DEF Reach
    <3>2. d \in Bank /\ (c \in Broadcast(b) <=> d \in Broadcast(b))
      BY <2>6 DEF Broadcast
    <3>3. rows[c] = rows[d]
      BY <2>6 DEF IInv, BroadcastInStep
    <3> QED
      BY <2>3, <3>1, <3>2, <3>3
  <2>7. BroadcastInStep'
    BY <1>1, <2>5, <2>6 DEF BroadcastInStep
  <2> QED
    BY <1>1, <2>4, <2>7 DEF IInv
<1>5. CASE cmd \in RowAccess /\ ~SingleMode(traffic)
  BY <1>1, <1>5 DEF IInv, OneRowPerBank, BroadcastInStep, SingleMode
<1>6. cmd \in DataMove => rows' = rows
  BY <1>1, DataMoveKeepsRows
<1>7. cmd = "REFab" => rows' \in {rows, AllClosed}
  BY <1>1, RefreshRows
<1> QED
  BY <1>2, <1>3, <1>4, <1>5, <1>6, <1>7, TrafficKinds DEF IInv

(***************************************************************************)
(* A bank never has two open rows as long as the trace opens rows in one   *)
(* way, and the banks a broadcast drives stay in step.                     *)
(***************************************************************************)
THEOREM OneRowAndInStep == Spec => [](OneRowPerBank /\ BroadcastInStep)
<1>1. Init => IInv
  BY DEF Init, IInv, TypeOK, AllClosed, RowState, OneRowPerBank, BroadcastInStep, Broadcast
<1>2. IInv /\ [Next]_vars => IInv'
  <2> SUFFICES ASSUME IInv, [Next]_vars PROVE IInv'
    OBVIOUS
  <2>1. CASE UNCHANGED vars
    BY <2>1 DEF IInv, TypeOK, OneRowPerBank, BroadcastInStep, vars
  <2>2. CASE Next
    BY <2>2, IssueKeepsIInv DEF Next
  <2> QED
    BY <2>1, <2>2
<1>3. IInv => OneRowPerBank /\ BroadcastInStep
  BY DEF IInv
<1> QED
  BY <1>1, <1>2, <1>3, PTL DEF Spec

(* The half of it about the banks that one command drives: those a         *)
(* prerequisite of PIM traffic looks at first speak for the others.        *)
THEOREM BroadcastsAgree == Spec => []BroadcastInStep
BY OneRowAndInStep, PTL

(***************************************************************************)
(* Requests converge.                                                      *)
(***************************************************************************)

(* Once the banks of an access are closed, the first of them, in the order *)
(* of the node loops, is closed: the next command opens the row.           *)
LEMMA FirstOfReach ==
    ASSUME NEW cmd \in RowAccess \ {"MACSB"}, NEW b \in Bank
    PROVE  \E f \in Reach(cmd, b) : \A c \in Reach(cmd, b) : ~Before(c, f)
<1>1. CASE cmd \in {"RD", "WR"}
  BY <1>1, CommandsReach DEF Before, Bank, OrganizationAssumption
<1>2. CASE cmd = "MACAB"
  <2> DEFINE f == [pch |-> 0, rank |-> 0, bg |-> 0, bk |-> 0]
  <2>1. Reach(cmd, b) = Bank
    BY <1>2 DEF Reach
  <2>2. f \in Bank
    BY OrganizationAssumption DEF Bank, OrganizationAssumption
  <2>3. \A c \in Bank : ~Before(c, f)
    BY OrganizationAssumption DEF Bank, Before, OrganizationAssumption
  <2> QED
    BY <2>1, <2>2, <2>3
<1>3. CASE cmd = "MACPB"
  <2> DEFINE f == [b EXCEPT !.pch = 0]
  <2>1. Reach(cmd, b) = Broadcast(b)
    BY <1>3 DEF Reach
  <2>2. f \in Broadcast(b)
    BY OrganizationAssumption DEF Bank, Broadcast, OrganizationAssumption
  <2>3. \A c \in Broadcast(b) : ~Before(c, f)
    BY OrganizationAssumption DEF Bank, Broadcast, Before, OrganizationAssumption
  <2> QED
    BY <2>1, <2>2, <2>3
<1> QED
  BY <1>1, <1>2, <1>3 DEF RowAccess

HasRow(rws, cmd, b, r) == \A c \in Reach(cmd, b) : r \in rws[c]

(* A request whose banks all have the row is at its final command, and     *)
(* stays there when the final command has been issued.                     *)
LEMMA HasRowIsFinal ==
    ASSUME NEW rws \in RowState, NEW cmd \in RowAccess \ {"MACSB"},
           NEW b \in Bank, NEW r \in Row, HasRow(rws, cmd, b, r)
    PROVE  /\ PreqCommand(rws, cmd, b, r) = cmd
           /\ RowsAfter(rws, cmd, b, r) \in RowState
           /\ HasRow(RowsAfter(rws, cmd, b, r), cmd, b, r)
<1>1. PreqCommand(rws, cmd, b, r) = cmd
  BY DEF HasRow, PreqCommand, RowAccess
<1>2. \A c \in Reach(cmd, b) : RowsAfter(rws, cmd, b, r)[c] = rws[c]
  BY ReachInBank, CommandsReach, RowsAfterBank
<1> QED
  BY <1>1, <1>2, RowsAfterType DEF HasRow

(* Opening gives every bank of the access the row. *)
LEMMA OpenerGivesRow ==
    ASSUME NEW rws \in RowState, NEW cmd \in RowAccess \ {"MACSB"},
           NEW b \in Bank, NEW r \in Row
    PROVE  /\ RowsAfter(rws, Opener(cmd), b, r) \in RowState
           /\ HasRow(RowsAfter(rws, Opener(cmd), b, r), cmd, b, r)
<1>1. Reach(Opener(cmd), b) = Reach(cmd, b) /\ Reach(cmd, b) \subseteq Bank
  BY ReachInBank, CommandsReach DEF RowAccess
<1>2. \A c \in Reach(cmd, b) :
          RowsAfter(rws, Opener(cmd), b, r)[c] = rws[c] \cup {r}
  BY <1>1, CommandsReach, RowsAfterBank
<1> QED
  BY <1>2, RowsAfterType DEF HasRow

(* Closing makes the opener the next command. *)
LEMMA OpenerFollowsCloser ==
    ASSUME NEW rws \in RowState, NEW cmd \in RowAccess \ {"MACSB"},
           NEW b \in Bank, NEW r \in Row
    PROVE  LET after == RowsAfter(rws, Closer(cmd), b, r)
           IN  after \in RowState /\ PreqCommand(after, cmd, b, r) = Opener(cmd)
<1> DEFINE after == RowsAfter(rws, Closer(cmd), b, r)
<1>1. Reach(Closer(cmd), b) = Reach(cmd, b) /\ Reach(cmd, b) \subseteq Bank
  BY ReachInBank, CommandsReach DEF RowAccess
<1>2. \A c \in Reach(cmd, b) : after[c] = {}
  BY <1>1, CommandsReach, RowsAfterBank
<1>3. PICK f \in Reach(cmd, b) : \A c \in Reach(cmd, b) : ~Before(c, f)
  BY FirstOfReach
<1>4. FirstLackingIsClosed(after, Reach(cmd, b), r)
  BY <1>2, <1>3 DEF FirstLackingIsClosed
<1>5. ~ \A c \in Reach(cmd, b) : r \in after[c]
  BY <1>2, <1>3
<1>6. PreqCommand(after, cmd, b, r) = Opener(cmd)
  <2> HIDE DEF after
  <2> QED
    BY <1>4, <1>5 DEF PreqCommand, RowAccess
<1> QED
  BY <1>6, RowsAfterType

(* From any rows, in step or not, one-row-per-bank or not, a column access *)
(* reaches its final command after at most a close and an open.            *)
LEMMA AccessConverges ==
    ASSUME NEW rws \in RowState, NEW cmd \in RowAccess \ {"MACSB"},
           NEW b \in Bank, NEW r \in Row
    PROVE  LET rows1 == RowsAfter(rws, PreqCommand(rws, cmd, b, r), b, r)
               rows2 == RowsAfter(rows1, PreqCommand(rows1, cmd, b, r), b, r)
           IN  PreqCommand(rows2, cmd, b, r) = cmd
<1> DEFINE rows1 == RowsAfter(rws, PreqCommand(rws, cmd, b, r), b, r)
           rows2 == RowsAfter(rows1, PreqCommand(rows1, cmd, b, r), b, r)
<1>1. PreqCommand(rws, cmd, b, r) \in {cmd, Opener(cmd), Closer(cmd)}
      /\ (PreqCommand(rws, cmd, b, r) = cmd =>
             HasRow(rws, cmd, b, r) \/ cmd \in {Opener(cmd), Closer(cmd)})
  BY PreqCases DEF HasRow
<1>2. cmd \notin {Opener(cmd), Closer(cmd)}
  BY CommandsReach
<1>3. CASE PreqCommand(rws, cmd, b, r) \in {cmd, Opener(cmd)}
  <2>1. rows1 \in RowState /\ HasRow(rows1, cmd, b, r)
    BY <1>1, <1>2, <1>3, HasRowIsFinal, OpenerGivesRow
  <2>2. rows2 \in RowState /\ HasRow(rows2, cmd, b, r)
    <3> HIDE DEF rows1
    <3> QED
      BY <2>1, HasRowIsFinal DEF rows2
  <2> QED
    BY <2>2, HasRowIsFinal
<1>4. CASE PreqCommand(rws, cmd, b, r) = Closer(cmd)
  <2>1. rows1 \in RowState /\ PreqCommand(rows1, cmd, b, r) = Opener(cmd)
    BY <1>4, OpenerFollowsCloser
  <2>2. rows2 \in RowState /\ HasRow(rows2, cmd, b, r)
    <3> HIDE DEF rows1
    <3> QED
      BY <2>1, OpenerGivesRow DEF rows2
  <2> QED
    BY <2>2, HasRowIsFinal
<1> QED
  BY <1>1, <1>3, <1>4

(***************************************************************************)
(* Every request that is let alone, refreshes and data movement included,  *)
(* reaches its final command; same-bank MACs are the exception.            *)
(***************************************************************************)
THEOREM Convergence == Spec => []RequestsConverge
<1>1. TypeOK => RequestsConverge
  <2> SUFFICES ASSUME TypeOK, NEW cmd \in traffic \ {"MACSB"},
                      NEW b \in Bank, NEW r \in Row
               PROVE  ServedInThree(cmd, b, r)
    BY DEF RequestsConverge
  <2>1. rows \in RowState
    BY DEF TypeOK
  <2>2. CASE cmd \in RowAccess
    BY <2>1, <2>2, AccessConverges DEF ServedInThree
  <2>3. CASE cmd \in DataMove
    BY <2>1, <2>3, DataMoveKeepsRows DEF ServedInThree
  <2>4. CASE cmd = "REFab"
    <3>1. PreqCommand(AllClosed, "REFab", b, r) = "REFab" /\ AllClosed \in RowState
      BY DEF PreqCommand, RowAccess, AllClosed, RowState
    <3> QED
      BY <2>1, <2>4, <3>1, RefreshRows DEF ServedInThree
  <2> QED
    BY <2>2, <2>3, <2>4, TrafficKinds
<1> QED
  BY <1>1, TypeCorrect, PTL
=============================================================================
