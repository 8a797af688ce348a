-------------------------- MODULE PIMSystem_proofs --------------------------
(***************************************************************************)
(* Proofs about the memory system of PIMSystem, for every organization,    *)
(* every set of traces and all buffer sizes. First types and refreshes,    *)
(* then where every line of a trace is:                                    *)
(*                                                                         *)
(*   TypeOK          (TypeCorrect, RefreshesHoldOff)                       *)
(*   Inv             every line waiting is where its kind belongs and in   *)
(*                   the order it was sent (LinesInPlace, NeverDoubled)    *)
(*   OrderKept       what is served respects barriers (Implements)         *)
(*   Kept            every line not served is waiting (NothingLost)        *)
(*   LoadStoreInv    loads and stores alone keep the rows of the active    *)
(*                   requests (ActiveRowsHeld, LoadsAndStoresKept)         *)
(*   WritesPassed    and serve writes to one address in order              *)
(*                   (WritesServedInOrder, FewBanksWritesInOrder)          *)
(***************************************************************************)
EXTENDS PIMSystem, InductionLemmas, SequenceTheorems, TLAPS

(***************************************************************************)
(* Lemmas about buffers: adding, removing and moving requests.             *)
(***************************************************************************)

(* RemoveAt of SequencesExt returns a sequence over the same set, one      *)
(* element shorter.                                                        *)
LEMMA RemoveAtType ==
    ASSUME NEW S, NEW s \in Seq(S), NEW i \in DOMAIN s
    PROVE  RemoveAt(s, i) \in Seq(S) /\ Len(RemoveAt(s, i)) = Len(s) - 1
<1> DEFINE left == SubSeq(s, 1, i-1)
           right == SubSeq(s, i+1, Len(s))
<1>1. i \in 1..Len(s) /\ Len(s) \in Nat /\ i \in Int
  BY LenProperties
<1>2. \A j \in 1..Len(s) : s[j] \in S
  BY ElementOfSeq
<1>3. left \in Seq(S) /\ Len(left) = i - 1
  BY <1>1, <1>2, SubSeqProperties
<1>4. right \in Seq(S) /\ Len(right) = Len(s) - i
  <2>1. i+1 \in Int /\ Len(s) \in Int /\ \A j \in i+1..Len(s) : s[j] \in S
    BY <1>1, <1>2
  <2>2. /\ SubSeq(s, i+1, Len(s)) \in Seq(S)
        /\ Len(SubSeq(s, i+1, Len(s)))
              = IF i+1 <= Len(s) THEN Len(s) - (i+1) + 1 ELSE 0
    BY <2>1, SubSeqProperties
  <2> QED
    BY <1>1, <2>2
<1>5. RemoveAt(s, i) = left \o right
  BY DEF RemoveAt
<1> HIDE DEF left, right
<1> QED
  BY <1>1, <1>3, <1>4, <1>5, ConcatProperties

(* Requests of a shorter prefix of the trace are requests of a longer one. *)
LEMMA RequestsGrow ==
    ASSUME NEW m \in Nat, NEW n \in Nat, m <= n
    PROVE  /\ Requests(m) \subseteq Requests(n)
           /\ Delivery(m) \subseteq Delivery(n)
<1>1. Requests(m) \subseteq Requests(n)
  BY DEF Requests
<1> QED
  BY <1>1 DEF Delivery

LEMMA ContentsGrow ==
    ASSUME NEW m \in Nat, NEW n \in Nat, m <= n, NEW bufs, BuffersOK(bufs, m)
    PROVE  BuffersOK(bufs, n)
<1>1. \A b \in Buffer : bufs[b] \in Contents(b, n)
  BY RequestsGrow, SeqMonotonic DEF BuffersOK, Contents
<1> QED
  BY <1>1 DEF BuffersOK

(* Replacing one buffer by contents of its kind keeps all of them typed.   *)
LEMMA ReplaceBuffer ==
    ASSUME NEW n, NEW bufs, BuffersOK(bufs, n),
           NEW b \in Buffer, NEW s \in Contents(b, n)
    PROVE  /\ BuffersOK([bufs EXCEPT ![b] = s], n)
           /\ \A c \in Buffer : [bufs EXCEPT ![b] = s][c] = IF c = b THEN s ELSE bufs[c]
  BY DEF BuffersOK

LEMMA RemoveFromBuffer ==
    ASSUME NEW n, NEW bufs, BuffersOK(bufs, n),
           NEW b \in Buffer, NEW i \in DOMAIN bufs[b]
    PROVE  /\ BuffersOK([bufs EXCEPT ![b] = RemoveAt(@, i)], n)
           /\ \A c \in Buffer : Len([bufs EXCEPT ![b] = RemoveAt(@, i)][c])
                 = IF c = b THEN Len(bufs[c]) - 1 ELSE Len(bufs[c])
<1>1. RemoveAt(bufs[b], i) \in Contents(b, n)
      /\ Len(RemoveAt(bufs[b], i)) = Len(bufs[b]) - 1
  BY RemoveAtType DEF BuffersOK, Contents
<1> QED
  BY <1>1, ReplaceBuffer

(* What a request taken from a buffer is. *)
LEMMA BufferedRequest ==
    ASSUME NEW n, NEW bufs, BuffersOK(bufs, n),
           NEW b \in Buffer, NEW i \in DOMAIN bufs[b]
    PROVE  /\ b # "priority" => bufs[b][i] \in Requests(n)
           /\ b = "priority" => bufs[b][i] \in Refreshes
<1>1. CASE b = "priority"
  <2>1. bufs[b] \in Seq(Refreshes)
    BY <1>1 DEF BuffersOK, Contents
  <2> QED
    BY <1>1, <2>1, LenProperties, ElementOfSeq
<1>2. CASE b # "priority"
  <2>1. bufs[b] \in Seq(Requests(n))
    BY <1>2 DEF BuffersOK, Contents
  <2> QED
    BY <1>2, <2>1, LenProperties, ElementOfSeq
<1> QED
  BY <1>1, <1>2

(***************************************************************************)
(* Lemmas about the commands of requests.                                  *)
(***************************************************************************)

(* A refresh closes rows or is issued: its command is a row command and    *)
(* opens nothing.                                                          *)
LEMMA RefreshCommand ==
    ASSUME NEW q \in Refreshes
    PROVE  /\ Final(q) = "REFab" /\ q.id = 0 /\ q.type # "read"
           /\ Cmd(rows, q) \in {"REFab", "PREA"}
           /\ Cmd(rows, q) \notin Opening
           /\ CommandType(Cmd(rows, q)) = "row"
<1>1. q.type = "all-bank-refresh" /\ q.id = 0
  BY DEF Refreshes, RefreshRequest
<1>2. Translation["all-bank-refresh"] = "REFab"
  BY DEF Translation, PimType
<1>3. Cmd(rows, q) \in {"REFab", "PREA"}
  BY <1>1, <1>2 DEF Cmd, PreqCommand, RowAccess
<1>4. \A c \in {"REFab", "PREA"} : c \notin Opening /\ CommandType(c) = "row"
  BY DEF Opening, CommandType, RowAccess, DataMove
<1> QED
  BY <1>1, <1>2, <1>3, <1>4 DEF Final

LEMMA CommandTypes ==
    ASSUME NEW cmd
    PROVE  /\ CommandType(cmd) \in TypeRead
           /\ CommandType(cmd) = "col" => cmd \notin Opening
  BY DEF CommandType, TypeRead, RowAccess, DataMove, Opening

(* What a request needs next is one of the commands of the device. *)
LEMMA CommandOfRequest ==
    ASSUME NEW q, q.type \in {"read", "write", "all-bank-refresh"} \cup PimType
    PROVE  Cmd(rows, q) \in Command
<1>1. Translation[q.type] \in RowAccess \cup DataMove \cup {"REFab"}
  BY DEF Translation, PimType, RowAccess, DataMove
<1>2. \A c : Opener(c) \in Opening /\ Closer(c) \in Closing
  BY DEF Opener, Closer, Opening, Closing
<1> QED
  BY <1>1, <1>2 DEF Cmd, PreqCommand, Command, Closing

(* The rows stay typed as long as what opens a row has one to open. *)
LEMMA RowsStayTyped ==
    ASSUME rows \in RowState, NEW cmd, NEW b, NEW r, cmd \in Opening => r \in Row
    PROVE  RowsAfter(rows, cmd, b, r) \in RowState
  BY DEF RowsAfter, RowState

(***************************************************************************)
(* The slots.  What every way of filling a slot leaves behind: typed state *)
(* of the controller.  issued is empty or the type of one command.         *)
(***************************************************************************)
LEMMA EndSlotType ==
    ASSUME slots \in Seq(Command), quiet \in 0..MaxQuiet, InSlot,
           NEW issued \in Seq(Command), EndSlot(issued),
           NEW types \in SUBSET TypeRead, FirstCommandIs(types)
    PROVE  /\ phase' \in {"idle", "first", "second", "thrown"}
           /\ slots' \in Seq(Command)
           /\ quiet' \in 0..MaxQuiet
           /\ first' \in TypeRead \cup {"any"}
<1>1. slots' \in Seq(Command)
  BY ConcatProperties DEF EndSlot
<1>2. quiet' \in 0..MaxQuiet
  BY ControllerAssumption DEF EndSlot, ControllerAssumption
<1>3. phase' \in {"idle", "first", "second", "thrown"}
  BY DEF EndSlot
<1>4. first' \in TypeRead \cup {"any"}
  BY DEF FirstCommandIs
<1> QED
  BY <1>1, <1>2, <1>3, <1>4

(* The barrier passed is a line that has been sent. *)
LEMMA PassedType ==
    ASSUME NEW n \in Nat, BuffersOK(buf, n), NEW bufs
    PROVE  Passed(bufs) \subseteq 1..n
<1>1. CASE FrontBarrier(buf["pim"])
  <2>1. buf["pim"] \in Seq(Requests(n)) /\ buf["pim"] # <<>>
    BY <1>1 DEF BuffersOK, Contents, Buffer, FrontBarrier
  <2>2. Head(buf["pim"]) \in Requests(n)
    BY <2>1, HeadTailProperties
  <2> QED
    BY <2>2 DEF Passed, Requests
<1> QED
  BY <1>1 DEF Passed

LEMMA PassBarrierType ==
    ASSUME NEW n, BuffersOK(buf, n)
    PROVE  /\ BuffersOK(AfterBarrier, n)
           /\ \A b \in Buffer \ {"pim"} : AfterBarrier[b] = buf[b]
<1>1. buf["pim"] \in Seq(Requests(n)) /\ "pim" \in Buffer
  BY DEF BuffersOK, Contents, Buffer
<1>2. PassBarrier(buf["pim"]) \in Seq(Requests(n))
  BY <1>1, HeadTailProperties DEF PassBarrier, FrontBarrier
<1>3. AfterBarrier = [buf EXCEPT !["pim"] = PassBarrier(buf["pim"])]
  BY DEF AfterBarrier
<1>4. PassBarrier(buf["pim"]) \in Contents("pim", n)
  BY <1>2 DEF Contents
<1>5. BuffersOK(AfterBarrier, n)
  BY <1>1, <1>3, <1>4, ReplaceBuffer
<1>6. \A b \in Buffer \ {"pim"} : AfterBarrier[b] = buf[b]
  BY <1>3 DEF BuffersOK
<1> QED
  BY <1>5, <1>6

(* What the three outcomes of an issue do to the buffers.                  *)
LEMMA IssueBuffers ==
    ASSUME NEW n \in Nat, NEW bufs, BuffersOK(bufs, n),
           NEW b \in Buffer, NEW i \in DOMAIN bufs[b], Issue(bufs, b, i)
    PROVE  /\ BuffersOK(buf', n)
           /\ b = "active" \/ Cmd(rows, bufs[b][i]) \notin Opening =>
                 Len(buf'["active"]) <= Len(bufs["active"])
<1> DEFINE q == bufs[b][i]
           cmd == Cmd(rows, q)
           activated == IF Len(bufs["active"]) < ActiveSize
                        THEN [bufs EXCEPT !["active"] = Append(@, q)] ELSE bufs
<1>1. /\ "active" \in Buffer /\ bufs["active"] \in Seq(Requests(n))
      /\ Len(bufs["active"]) \in Nat
  BY LenProperties DEF BuffersOK, Contents, Buffer
<1>2. CASE buf' = [bufs EXCEPT ![b] = RemoveAt(@, i)]
  <2>1. BuffersOK(buf', n)
    BY <1>2, RemoveFromBuffer
  <2>2. Len(buf'["active"]) \in {Len(bufs["active"]) - 1, Len(bufs["active"])}
    BY <1>1, <1>2, RemoveFromBuffer
  <2> QED
    BY <1>1, <2>1, <2>2
<1>3. CASE cmd # Final(q) /\ cmd \in Opening
           /\ buf' = [activated EXCEPT ![b] = RemoveAt(@, i)]
  <2>1. b # "priority" /\ q \in Requests(n)
    BY <1>3, BufferedRequest, RefreshCommand
  <2>2. CASE Len(bufs["active"]) < ActiveSize
    <3> DEFINE longer == Append(bufs["active"], q)
               moved == [bufs EXCEPT !["active"] = longer]
               left == [moved EXCEPT ![b] = RemoveAt(@, i)]
    <3>1. longer \in Seq(Requests(n)) /\ Len(longer) = Len(bufs["active"]) + 1
      BY <1>1, <2>1, AppendProperties
    <3>2. longer \in Contents("active", n)
      BY <3>1 DEF Contents
    <3>3. buf' = left
      BY <1>3, <2>2
    <3> HIDE DEF longer
    <3>4. /\ BuffersOK(moved, n)
          /\ \A c \in Buffer : moved[c] = IF c = "active" THEN longer ELSE bufs[c]
      BY <1>1, <3>2, ReplaceBuffer
    <3> HIDE DEF moved
    <3>5. i \in DOMAIN moved[b]
      <4>1. CASE b = "active"
        BY <1>1, <3>1, <3>4, <4>1, LenProperties
      <4>2. CASE b # "active"
        BY <3>4, <4>2
      <4> QED
        BY <4>1, <4>2
    <3>6. /\ BuffersOK(left, n)
          /\ \A c \in Buffer : Len(left[c])
                = IF c = b THEN Len(moved[c]) - 1 ELSE Len(moved[c])
      BY <3>4, <3>5, RemoveFromBuffer
    <3>7. b = "active" => Len(left["active"]) <= Len(bufs["active"])
      BY <1>1, <3>1, <3>4, <3>6
    <3> HIDE DEF left
    <3> QED
      BY <1>3, <3>3, <3>6, <3>7
  <2>3. CASE ~(Len(bufs["active"]) < ActiveSize)
    <3>1. buf' = [bufs EXCEPT ![b] = RemoveAt(@, i)]
      BY <1>3, <2>3
    <3> QED
      BY <1>2, <3>1
  <2> QED
    BY <2>2, <2>3
<1>4. CASE buf' = bufs
  BY <1>1, <1>4
<1> QED
  BY <1>2, <1>3, <1>4 DEF Issue

(* An issue leaves the controller typed. *)
LEMMA IssueType ==
    ASSUME TypeOK, InSlot, sent' = sent, isPim' \in BOOLEAN, writeMode' \in BOOLEAN,
           NEW bufs, BuffersOK(bufs, sent),
           NEW b \in Buffer, NEW i \in DOMAIN bufs[b], Issue(bufs, b, i)
    PROVE  ControllerOK'
<1> DEFINE q == bufs[b][i]
           cmd == Cmd(rows, q)
<1>1. /\ ControllerOK /\ sent \in Nat
      /\ q \in Requests(sent) \/ (q \in Refreshes /\ q.id = 0 /\ q.type # "read")
  <2>1. trace \in Seq(TraceLine) /\ sent \in Nat
    BY SystemAssumption, LenProperties DEF TypeOK, SystemAssumption
  <2> QED
    BY <2>1, BufferedRequest, RefreshCommand DEF TypeOK
<1>2. rows' \in RowState
  <2>1. cmd \in Opening => q.row \in Row
    BY <1>1, RefreshCommand DEF Requests
  <2> QED
    BY <1>1, <2>1, RowsStayTyped DEF Issue, ControllerOK
<1>3. BuffersOK(buf', sent)
  BY <1>1, IssueBuffers
<1>4. pending' \in Seq(Delivery(sent))
  <2>1. CASE pending' = pending
    BY <1>1, <2>1 DEF ControllerOK
  <2>2. CASE /\ q.type = "read"
             /\ pending' = Append(pending, [req |-> q, left |-> ReadLatency])
    <3>1. [req |-> q, left |-> ReadLatency] \in Delivery(sent)
      BY <1>1, <2>2, ControllerAssumption DEF Delivery, ControllerAssumption
    <3> QED
      BY <1>1, <2>2, <3>1, AppendProperties DEF ControllerOK
  <2> QED
    BY <2>1, <2>2 DEF Issue
<1>5. /\ phase' \in {"idle", "first", "second", "thrown"}
      /\ slots' \in Seq(Command)
      /\ quiet' \in 0..MaxQuiet
      /\ first' \in TypeRead \cup {"any"}
  <2>1. <<cmd>> \in Seq(Command) /\ {CommandType(cmd)} \subseteq TypeRead
    <3>1. q.type \in {"read", "write", "all-bank-refresh"} \cup PimType
      BY <1>1 DEF Requests, Refreshes, RefreshRequest
    <3> QED
      BY <3>1, CommandOfRequest, CommandTypes
  <2>2. EndSlot(<<cmd>>)
        /\ \E types \in SUBSET TypeRead : FirstCommandIs(types)
    BY <2>1 DEF Issue
  <2> QED
    BY <1>1, <2>1, <2>2, EndSlotType DEF ControllerOK
<1>6. served' \subseteq 1..sent /\ completed' \subseteq 1..sent
  <2>1. Passed(bufs) \subseteq 1..sent
    BY <1>1, PassedType DEF ControllerOK
  <2>2. {q.id} \ {0} \subseteq 1..sent
    BY <1>1 DEF Requests
  <2>3. served' \subseteq served \cup Passed(bufs) \cup ({q.id} \ {0})
    BY DEF Issue
  <2>4. completed' = completed
    BY DEF Issue
  <2> QED
    BY <1>1, <2>1, <2>2, <2>3, <2>4 DEF ControllerOK
<1> QED
  BY <1>2, <1>3, <1>4, <1>5, <1>6 DEF ControllerOK

(* So does a slot that stays empty, and one that the veto may empty. *)
LEMMA NoIssueType ==
    ASSUME TypeOK, InSlot, sent' = sent, isPim' \in BOOLEAN, writeMode' \in BOOLEAN,
           NEW bufs, BuffersOK(bufs, sent),
           NEW types \in SUBSET TypeRead, NoIssue(bufs, types)
    PROVE  ControllerOK'
<1>1. ControllerOK /\ sent \in Nat
  BY SystemAssumption, LenProperties DEF TypeOK, SystemAssumption
<1>2. Passed(bufs) \subseteq 1..sent
  BY <1>1, PassedType DEF ControllerOK
<1>3. <<>> \in Seq(Command)
  OBVIOUS
<1>4. /\ phase' \in {"idle", "first", "second", "thrown"}
      /\ slots' \in Seq(Command)
      /\ quiet' \in 0..MaxQuiet
      /\ first' \in TypeRead \cup {"any"}
  BY <1>1, <1>3, EndSlotType DEF ControllerOK, NoIssue
<1> QED
  BY <1>1, <1>2, <1>4 DEF ControllerOK, NoIssue

LEMMA IssueUnlessVetoedType ==
    ASSUME TypeOK, InSlot, sent' = sent, isPim' \in BOOLEAN, writeMode' \in BOOLEAN,
           NEW bufs, BuffersOK(bufs, sent),
           NEW b \in Buffer, NEW i \in DOMAIN bufs[b], IssueUnlessVetoed(bufs, b, i)
    PROVE  ControllerOK'
<1>1. CASE Issue(bufs, b, i)
  BY <1>1, IssueType
<1>2. CASE NoIssue(bufs, {CommandType(Cmd(rows, bufs[b][i]))})
  <2>1. {CommandType(Cmd(rows, bufs[b][i]))} \in SUBSET TypeRead
    BY CommandTypes
  <2> QED
    BY <1>2, <2>1, NoIssueType
<1> QED
  BY <1>1, <1>2 DEF IssueUnlessVetoed

(* The first priority request is in its buffer. *)
LEMMA UrgentHead ==
    ASSUME ControllerOK, Urgent
    PROVE  /\ 1 \in DOMAIN buf["priority"]
           /\ Head(buf["priority"]) = buf["priority"][1]
           /\ Head(buf["priority"]) \in Refreshes
<1>1. buf["priority"] \in Seq(Refreshes) /\ buf["priority"] # <<>>
  BY DEF ControllerOK, BuffersOK, Contents, Buffer, Urgent
<1> QED
  BY <1>1, HeadTailProperties, LenProperties

(* All outcomes of a slot. *)
LEMMA SlotType ==
    ASSUME TypeOK, Slot, sent' = sent
    PROVE  ControllerOK'
<1>1. PICK rdy \in Readiness :
          \/ ServeActive(rdy) \/ ServePriority(rdy) \/ WaitForPriority(rdy)
          \/ ServePim(rdy) \/ ServeReadWrite(rdy) \/ ServeNone(rdy)
  BY DEF Slot
<1>2. /\ ControllerOK /\ BuffersOK(buf, sent) /\ BuffersOK(AfterBarrier, sent)
      /\ isPim \in BOOLEAN /\ writeMode \in BOOLEAN
      /\ {"active", "priority", "pim", "read", "write"} \subseteq Buffer
  BY PassBarrierType DEF TypeOK, ControllerOK, Buffer
<1>3. CASE ServeActive(rdy)
  BY <1>2, <1>3, IssueUnlessVetoedType DEF ServeActive
<1>4. CASE ServePriority(rdy)
  BY <1>2, <1>4, UrgentHead, IssueUnlessVetoedType DEF ServePriority
<1>5. CASE WaitForPriority(rdy)
  <2>1. {CommandType(Cmd(rows, Head(buf["priority"])))} \in SUBSET TypeRead
    BY CommandTypes
  <2> QED
    BY <1>2, <1>5, <2>1, NoIssueType DEF WaitForPriority
<1>6. CASE ServePim(rdy)
  BY <1>2, <1>6, IssueUnlessVetoedType DEF ServePim, ReachesPim
<1>7. ReachesReadWrite(rdy) =>
         /\ InSlot /\ isPim' \in BOOLEAN /\ writeMode' \in BOOLEAN
         /\ Source \in {"read", "write"} /\ AfterBarrier[Source] = buf[Source]
  <2>1. NextWriteMode \in BOOLEAN
    BY DEF NextWriteMode
  <2>2. \A b \in {"read", "write"} : AfterBarrier[b] = buf[b]
    BY <1>2, PassBarrierType
  <2> QED
    BY <2>1, <2>2 DEF ReachesReadWrite, ReachesPim, Source
<1>8. CASE ServeReadWrite(rdy)
  BY <1>2, <1>7, <1>8, IssueUnlessVetoedType DEF ServeReadWrite
<1>9. CASE ServeNone(rdy)
  <2>1. PICK types \in SUBSET TypeRead : NoIssue(AfterBarrier, types)
    BY <1>9, CommandTypes DEF ServeNone
  <2> QED
    BY <1>2, <1>7, <1>9, <2>1, NoIssueType DEF ServeNone
<1> QED
  BY <1>1, <1>3, <1>4, <1>5, <1>6, <1>8, <1>9

(***************************************************************************)
(* The steps of the frontend and the start of a memory cycle.              *)
(***************************************************************************)
LEMMA SendType ==
    ASSUME TypeOK, FrontendSend
    PROVE  TypeOK'
<1> DEFINE q == Request(sent + 1)
           late == [req |-> [q EXCEPT !.arrive = -1], left |-> 1]
<1>1. /\ ControllerOK /\ trace \in Seq(TraceLine)
      /\ sent \in Nat /\ burst \in 0..sent /\ Len(trace) \in Nat
  BY SystemAssumption, LenProperties DEF TypeOK, SystemAssumption
<1>2. sent' = sent + 1 /\ sent + 1 \in 1..Len(trace) /\ Send(q)
  BY <1>1 DEF FrontendSend, Finished, TypeOK
<1>3. q \in Requests(sent + 1)
  <2>1. trace[sent + 1] \in TraceLine
    BY <1>1, <1>2, ElementOfSeq
  <2> QED
    BY <1>1, <2>1 DEF Request, Requests, TraceLine
<1>4. BuffersOK(buf, sent + 1) /\ pending \in Seq(Delivery(sent + 1))
  BY <1>1, RequestsGrow, ContentsGrow, SeqMonotonic DEF ControllerOK
<1>5. BuffersOK(buf', sent + 1) /\ pending' \in Seq(Delivery(sent + 1))
      /\ served' \subseteq 1..sent + 1
  <2>1. CASE Forward(q)
    <3>1. late \in Delivery(sent + 1)
      BY <1>3, ControllerAssumption DEF Delivery, ControllerAssumption
    <3>2. pending' = Append(pending, late) /\ buf' = buf
          /\ served' = served \cup {q.id}
      BY <2>1 DEF Forward
    <3> HIDE DEF late
    <3>3. pending' \in Seq(Delivery(sent + 1))
      BY <1>4, <3>1, <3>2, AppendProperties
    <3>4. served' \subseteq 1..sent + 1
      <4>1. q.id \in 1..sent + 1
        BY <1>3 DEF Requests
      <4>2. served \subseteq 1..sent
        BY <1>1 DEF ControllerOK
      <4>3. served' = served \cup {q.id}
        BY <3>2
      <4>4. 1..sent \subseteq 1..sent + 1
        BY <1>1
      <4> HIDE DEF q
      <4> QED
        BY <4>1, <4>2, <4>3, <4>4
    <3> QED
      BY <1>4, <3>2, <3>3, <3>4
  <2>2. CASE Enqueue(q)
    <3> DEFINE longer == Append(buf[Home(q)], q)
    <3>1. Home(q) \in Buffer \ {"priority"}
      BY DEF Home, Buffer
    <3>2. buf[Home(q)] \in Seq(Requests(sent + 1))
      BY <1>4, <3>1 DEF BuffersOK, Contents
    <3>3. longer \in Contents(Home(q), sent + 1)
      <4>1. longer \in Seq(Requests(sent + 1))
        BY <1>3, <3>2, AppendProperties
      <4> QED
        BY <3>1, <4>1 DEF Contents
    <3>4. buf' = [buf EXCEPT ![Home(q)] = longer]
          /\ pending' = pending /\ served' = served
      BY <2>2 DEF Enqueue
    <3> HIDE DEF longer
    <3>5. BuffersOK([buf EXCEPT ![Home(q)] = longer], sent + 1)
      BY <1>4, <3>1, <3>3, ReplaceBuffer
    <3> QED
      BY <1>1, <1>4, <3>4, <3>5 DEF ControllerOK
  <2> QED
    BY <1>2, <2>1, <2>2 DEF Send
<1>6. ControllerOK'
  BY <1>1, <1>2, <1>5 DEF ControllerOK, Send
<1> QED
  BY <1>1, <1>2, <1>6 DEF TypeOK, FrontendSend

(* Completing a read leaves pending and completed typed. *)
LEMMA ServeCompletedReadsType ==
    ASSUME TypeOK, ServeCompletedReads
    PROVE  pending' \in Seq(Delivery(sent)) /\ completed' \subseteq 1..sent
<1> DEFINE older(d) == [d EXCEPT !.left = IF @ = 0 THEN 0 ELSE @ - 1]
           aged == [i \in DOMAIN pending |-> older(pending[i])]
<1>1. pending \in Seq(Delivery(sent)) /\ completed \subseteq 1..sent
  BY DEF TypeOK, ControllerOK
<1>2. \A d \in Delivery(sent) : older(d) \in Delivery(sent)
  BY ControllerAssumption DEF Delivery, ControllerAssumption
<1>3. Len(pending) \in Nat /\ DOMAIN pending = 1..Len(pending)
      /\ \A i \in DOMAIN pending : pending[i] \in Delivery(sent)
  BY <1>1, LenProperties, ElementOfSeq
<1>4. aged \in [1..Len(pending) -> Delivery(sent)]
  <2> HIDE DEF older
  <2> QED
    BY <1>2, <1>3
<1>5. aged \in Seq(Delivery(sent)) /\ (pending # <<>> => aged # <<>>)
  <2>1. aged \in Seq(Delivery(sent)) /\ DOMAIN aged = 1..Len(pending)
    <3> HIDE DEF aged
    <3> QED
      BY <1>3, <1>4, SeqDef
  <2>2. pending # <<>> => Len(pending) # 0
    BY <1>1, EmptySeq
  <2>3. Len(pending) # 0 => aged # <<>>
    <3> HIDE DEF aged
    <3>1. aged = <<>> => 1..Len(pending) = {}
      BY <2>1
    <3> QED
      BY <1>3, <3>1
  <2> QED
    BY <2>1, <2>2, <2>3
<1>6. /\ pending' = aged \/ (pending # <<>> /\ pending' = Tail(aged))
      /\ completed' = completed \/
            (pending # <<>> /\ completed' = completed \cup {aged[1].req.id})
  BY DEF ServeCompletedReads
<1> HIDE DEF aged
<1>7. pending' \in Seq(Delivery(sent))
  BY <1>5, <1>6, HeadTailProperties
<1>8. pending # <<>> => aged[1].req.id \in 1..sent
  <2>1. pending # <<>> => aged[1] \in Delivery(sent)
    BY <1>5, HeadTailProperties
  <2> QED
    BY <2>1 DEF Delivery, Requests
<1> QED
  BY <1>1, <1>6, <1>7, <1>8

(* Starting a cycle: without a refresh, with one, or failing to queue one. *)
LEMMA StartCycleType ==
    ASSUME TypeOK, StartCycle, sent' = sent, BuffersOK(buf', sent),
           phase' \in {"first", "thrown"}
    PROVE  ControllerOK'
<1>1. pending' \in Seq(Delivery(sent)) /\ completed' \subseteq 1..sent
  BY ServeCompletedReadsType DEF StartCycle
<1>2. slots' \in Seq(Command)
  BY DEF StartCycle
<1>3. first' = "any" /\ UNCHANGED <<rows, isPim, writeMode, quiet, served>>
  BY DEF StartCycle
<1> QED
  BY <1>1, <1>2, <1>3 DEF TypeOK, ControllerOK

LEMMA RefreshBurstType ==
    ASSUME TypeOK
    PROVE  BuffersOK([buf EXCEPT !["priority"] = @ \o RefreshBurst], sent)
<1>1. "priority" \in Buffer /\ BuffersOK(buf, sent)
      /\ buf["priority"] \in Seq(Refreshes)
  BY DEF TypeOK, ControllerOK, BuffersOK, Contents, Buffer
<1>2. RefreshBurst \in Seq(Refreshes)
  <2>1. NPch \in Nat
    BY OrganizationAssumption DEF OrganizationAssumption
  <2>2. \A p \in 1..NPch : RefreshRequest(p - 1) \in Refreshes
    BY <2>1 DEF Refreshes
  <2>3. RefreshBurst \in [1..NPch -> Refreshes]
    BY <2>2 DEF RefreshBurst
  <2> QED
    BY <2>1, <2>3, SeqDef
<1>3. buf["priority"] \o RefreshBurst \in Contents("priority", sent)
  BY <1>1, <1>2, ConcatProperties DEF Contents
<1> QED
  BY <1>1, <1>3, ReplaceBuffer

(***************************************************************************)
(* Type correctness of the whole system: buffers hold lines that were      *)
(* sent, only refreshes are urgent, and only sent lines are ever served    *)
(* or completed.                                                           *)
(***************************************************************************)
LEMMA InitType == Init => TypeOK
<1> SUFFICES ASSUME Init PROVE TypeOK
  OBVIOUS
<1>1. /\ trace \in Traces /\ sent = 0 /\ burst = 0 /\ turn = "frontend"
      /\ refreshes = 0 /\ ControllerInit
  BY DEF Init
<1>2. Len(trace) \in Nat /\ MaxRefresh \in Nat /\ MaxQuiet \in Nat
  BY <1>1, SystemAssumption, ControllerAssumption, LenProperties
     DEF SystemAssumption, ControllerAssumption
<1>3. AllClosed \in RowState
  BY DEF AllClosed, RowState
<1>4. BuffersOK([b \in Buffer |-> <<>>], 0)
  BY DEF BuffersOK, Contents
<1>5. ControllerOK
  <2>1. BuffersOK(buf, sent)
    BY <1>1, <1>4 DEF ControllerInit
  <2>2. pending \in Seq(Delivery(sent)) /\ slots \in Seq(Command)
    BY <1>1 DEF ControllerInit
  <2>3. quiet \in 0..MaxQuiet
    BY <1>1, <1>2 DEF ControllerInit
  <2> QED
    BY <1>1, <1>3, <2>1, <2>2, <2>3 DEF ControllerInit, ControllerOK
<1> QED
  BY <1>1, <1>2, <1>5 DEF TypeOK

LEMMA NextType ==
    ASSUME TypeOK, [Next]_vars
    PROVE  TypeOK'
<1>1. Len(trace) \in Nat /\ sent \in 0..Len(trace) /\ MaxRefresh \in Nat
      /\ refreshes \in 0..MaxRefresh
  BY SystemAssumption, LenProperties DEF TypeOK, SystemAssumption
<1>2. CASE UNCHANGED vars
  BY <1>2 DEF TypeOK, ControllerOK, vars
<1>3. CASE FrontendSend
  BY <1>3, SendType
<1>4. CASE FrontendDone
  BY <1>1, <1>4 DEF FrontendDone, ctrl, TypeOK, ControllerOK
<1>5. CASE MemoryCycle
  <2>1. ControllerOK'
    BY <1>5, StartCycleType DEF MemoryCycle, Cycle, TypeOK, ControllerOK
  <2> QED
    BY <1>5, <2>1 DEF MemoryCycle, TypeOK
<1>6. CASE MemoryCycleWithRefresh
  <2>1. ASSUME CycleWithRefresh PROVE ControllerOK'
    BY <1>6, <2>1, StartCycleType, RefreshBurstType
       DEF MemoryCycleWithRefresh, CycleWithRefresh
  <2>2. ASSUME RefreshFails PROVE ControllerOK'
    BY <1>6, <2>2, StartCycleType
       DEF MemoryCycleWithRefresh, RefreshFails, TypeOK, ControllerOK
  <2>3. ControllerOK'
    BY <1>6, <2>1, <2>2 DEF MemoryCycleWithRefresh
  <2> QED
    BY <1>1, <1>6, <2>3 DEF MemoryCycleWithRefresh, TypeOK
<1>7. CASE MemorySlot
  <2>1. ControllerOK'
    BY <1>7, SlotType DEF MemorySlot
  <2>2. turn' \in {"frontend", "memory", "exit"}
    BY <1>7 DEF MemorySlot
  <2> QED
    BY <1>7, <2>1, <2>2 DEF MemorySlot, TypeOK
<1> QED
  BY <1>2, <1>3, <1>4, <1>5, <1>6, <1>7 DEF Next, Terminated

THEOREM TypeCorrect == Spec => []TypeOK
  BY InitType, NextType, PTL DEF Spec

(***************************************************************************)
(* Refreshes hold off activation.  When the head of the priority buffer is *)
(* not of a type the slot takes, the first command was a row command, so   *)
(* what the PIM, read and write buffers may still offer is a column        *)
(* command, which opens nothing.                                           *)
(***************************************************************************)
LEMMA OfferPastRefresh ==
    ASSUME TypeOK, buf["priority"] # <<>>, ~Urgent, NEW q, Eligible(q)
    PROVE  Cmd(rows, q) \notin Opening
<1>1. Head(buf["priority"]) \in Refreshes
  <2>1. buf["priority"] \in Seq(Refreshes)
    BY DEF TypeOK, ControllerOK, BuffersOK, Contents, Buffer
  <2> QED
    BY <2>1, HeadTailProperties
<1>2. CommandType(Cmd(rows, Head(buf["priority"]))) = "row"
  BY <1>1, RefreshCommand
<1>3. first # "any" /\ first # "col"
  BY <1>2 DEF Urgent, Eligible
<1>4. CommandType(Cmd(rows, q)) = "col"
  BY <1>3, CommandTypes DEF Eligible, TypeRead
<1> QED
  BY <1>4, CommandTypes

(* What an issue may open, and the room it may take in the active buffer.  *)
HoldsOff == /\ Len(buf'["active"]) <= Len(buf["active"])
            /\ \A c \in Bank : rows'[c] \subseteq
                   rows[c] \cup {q.row : q \in ToSet(buf["active"])}

LEMMA IssueHoldsOff ==
    ASSUME TypeOK, NEW bufs, BuffersOK(bufs, sent), bufs["active"] = buf["active"],
           NEW b \in Buffer, NEW i \in DOMAIN bufs[b], IssueUnlessVetoed(bufs, b, i),
           b = "active" \/ Cmd(rows, bufs[b][i]) \notin Opening
    PROVE  HoldsOff
<1>1. sent \in Nat /\ rows \in RowState /\ Len(buf["active"]) \in Nat
  BY SystemAssumption, LenProperties
     DEF TypeOK, ControllerOK, SystemAssumption, BuffersOK, Contents, Buffer
<1>2. CASE Issue(bufs, b, i)
  <2> DEFINE q == bufs[b][i]
             cmd == Cmd(rows, q)
  <2>1. Len(buf'["active"]) <= Len(buf["active"])
    BY <1>1, <1>2, IssueBuffers
  <2>2. rows' = RowsAfter(rows, cmd, q.bank, q.row)
    BY <1>2 DEF Issue
  <2>3. cmd \in Opening => q.row \in {p.row : p \in ToSet(buf["active"])}
    BY DEF ToSet
  <2>4. \A c \in Bank : rows'[c] \subseteq rows[c] \cup
                             (IF cmd \in Opening THEN {q.row} ELSE {})
    BY <1>1, <2>2 DEF RowsAfter, RowState
  <2> QED
    BY <2>1, <2>3, <2>4 DEF HoldsOff
<1>3. CASE \E types : NoIssue(bufs, types)
  BY <1>1, <1>3 DEF NoIssue, HoldsOff
<1> QED
  BY <1>2, <1>3 DEF IssueUnlessVetoed

THEOREM RefreshesHoldOff == Spec => RefreshHoldsOffActivation
<1>1. TypeOK /\ [Next]_vars => [buf["priority"] # <<>> => HoldsOff]_vars
  <2> SUFFICES ASSUME TypeOK, Next, buf["priority"] # <<>> PROVE HoldsOff
    BY DEF vars
  <2>1. /\ BuffersOK(buf, sent) /\ BuffersOK(AfterBarrier, sent)
        /\ AfterBarrier["active"] = buf["active"]
        /\ {"active", "priority", "pim", "read", "write"} \subseteq Buffer
    BY PassBarrierType DEF TypeOK, ControllerOK, Buffer
  <2>2. Len(buf["active"]) \in Nat
    BY LenProperties DEF TypeOK, ControllerOK, BuffersOK, Contents, Buffer
  <2>3. CASE rows' = rows /\ buf'["active"] = buf["active"]
    BY <2>2, <2>3 DEF HoldsOff
  <2>4. CASE FrontendSend
    <3>1. rows' = rows
      BY <2>4 DEF FrontendSend, Send
    <3>2. buf'["active"] = buf["active"]
      BY <2>1, <2>4 DEF FrontendSend, Send, Forward, Enqueue, Home, BuffersOK
    <3> QED
      BY <2>3, <3>1, <3>2
  <2>5. CASE FrontendDone \/ MemoryCycle \/ Terminated
    BY <2>3, <2>5 DEF FrontendDone, MemoryCycle, Cycle, StartCycle, Terminated, ctrl, vars
  <2>6. CASE MemoryCycleWithRefresh
    <3>1. rows' = rows
      BY <2>6 DEF MemoryCycleWithRefresh, CycleWithRefresh, RefreshFails, StartCycle
    <3>2. buf'["active"] = buf["active"]
      BY <2>1, <2>6 DEF MemoryCycleWithRefresh, CycleWithRefresh, RefreshFails, BuffersOK
    <3> QED
      BY <2>3, <3>1, <3>2
  <2>7. ASSUME NEW rdy, ServeActive(rdy) PROVE HoldsOff
    BY <2>1, <2>7, IssueHoldsOff DEF ServeActive
  <2>8. ASSUME NEW rdy, ServePriority(rdy) PROVE HoldsOff
    <3>1. /\ 1 \in DOMAIN buf["priority"] /\ buf["priority"][1] \in Refreshes
      BY <2>8, UrgentHead DEF ServePriority, TypeOK
    <3> QED
      BY <2>1, <2>8, <3>1, RefreshCommand, IssueHoldsOff DEF ServePriority
  <2>9. ASSUME NEW rdy, WaitForPriority(rdy) PROVE HoldsOff
    BY <2>3, <2>9 DEF WaitForPriority, NoIssue
  <2>10. ASSUME NEW rdy, ServePim(rdy) PROVE HoldsOff
    <3>1. PICK i \in DOMAIN AfterBarrier["pim"] :
             /\ i = BestRequest(rows, rdy, AfterBarrier["pim"])
             /\ IssueUnlessVetoed(AfterBarrier, "pim", i)
      BY <2>10 DEF ServePim
    <3>2. ~Urgent /\ Eligible(AfterBarrier["pim"][i])
      BY <2>10, <3>1 DEF ServePim, ReachesPim, Offers
    <3> QED
      BY <2>1, <3>1, <3>2, OfferPastRefresh, IssueHoldsOff
  <2>11. ASSUME NEW rdy, ServeReadWrite(rdy) PROVE HoldsOff
    <3>1. Source \in {"read", "write"} /\ AfterBarrier[Source] = buf[Source]
      BY <2>1, PassBarrierType DEF Source, TypeOK, ControllerOK
    <3>2. PICK i \in DOMAIN buf[Source] :
             /\ i = BestRequest(rows, rdy, buf[Source])
             /\ IssueUnlessVetoed(AfterBarrier, Source, i)
      BY <2>11 DEF ServeReadWrite
    <3>3. ~Urgent /\ Eligible(AfterBarrier[Source][i])
      BY <2>11, <3>1, <3>2 DEF ServeReadWrite, ReachesReadWrite, ReachesPim, Offers
    <3> QED
      BY <2>1, <3>1, <3>2, <3>3, OfferPastRefresh, IssueHoldsOff
  <2>12. ASSUME NEW rdy, ServeNone(rdy) PROVE HoldsOff
    BY <2>1, <2>3, <2>12 DEF ServeNone, NoIssue
  <2> QED
    BY <2>4, <2>5, <2>6, <2>7, <2>8, <2>9, <2>10, <2>11, <2>12
       DEF Next, MemorySlot, Slot
<1>2. [buf["priority"] # <<>> => HoldsOff]_vars
      => [buf["priority"] # <<>> =>
            /\ Len(buf'["active"]) <= Len(buf["active"])
            /\ \A b \in Bank : rows'[b] \subseteq
                   rows[b] \cup {q.row : q \in ToSet(buf["active"])}]_vars
  BY DEF HoldsOff
<1> QED
  BY <1>1, <1>2, TypeCorrect, PTL DEF Spec, RefreshHoldsOffActivation

(***************************************************************************)
(* Where the lines are.                                                    *)
(***************************************************************************)

(***************************************************************************)
(* The loop of get_best_request: best[j] is the candidate after request j. *)
(***************************************************************************)
IsLoop(r, rdy, s, best) ==
    /\ best[0] = 1
    /\ \A j \in 1..Len(s) :
          best[j] = IF Competes(r, s, j) THEN Better(r, rdy, s, best[j-1], j)
                    ELSE best[j-1]

LEMMA BestRequestLoop ==
    ASSUME NEW S, NEW s \in Seq(S), s # <<>>, NEW r, NEW rdy
    PROVE  \E best : /\ IsLoop(r, rdy, s, best)
                     /\ best \in [0..Len(s) -> DOMAIN s]
                     /\ BestRequest(r, rdy, s) = best[Len(s)]
<1> DEFINE better == [j \in DOMAIN s |-> [i \in DOMAIN s |-> Better(r, rdy, s, i, j)]]
           ids == [i \in DOMAIN s |-> i]
           n == Len(s)
           V == DOMAIN s
           step == [j \in Nat |-> [v \in V |->
                       IF j \in V /\ Competes(r, s, j) THEN better[j][v] ELSE v]]
           body(g, t) == IF t = {} THEN 1
                         ELSE IF Competes(r, s, ids[Max(t)])
                              THEN better[ids[Max(t)]][g[t \ {Max(t)}]]
                              ELSE g[t \ {Max(t)}]
           iter == CHOOSE g : g = [t \in SUBSET DOMAIN ids |-> body(g, t)]
<1>1. n \in Nat /\ V = 1..n /\ 1 \in V /\ DOMAIN ids = V
  BY LenProperties, EmptySeq
<1>2. BestRequest(r, rdy, s) = iter[DOMAIN ids]
  BY DEF BestRequest, FoldLeftDomain, FoldLeft, MapThenFoldSet
<1>3. \A i \in V : \A v \in V : better[i][v] = Better(r, rdy, s, v, i) /\ better[i][v] \in V
  BY DEF Better
<1>4. step \in [Nat -> [V -> V]]
  <2> HIDE DEF better
  <2> QED
    BY <1>3
<1>5. PICK it \in [SUBSET V -> V] : Peels(it, n, 1, step)
  <2> HIDE DEF step
  <2> QED
    BY <1>1, <1>4, FoldExists
<1>6. it = [t \in SUBSET DOMAIN ids |-> body(it, t)]
  <2> HIDE DEF better
  <2>1. ASSUME NEW t \in SUBSET V PROVE it[t] = body(it, t)
    <3>1. CASE t = {}
      BY <1>1, <1>5, <3>1 DEF Peels
    <3>2. CASE t # {}
      <4> DEFINE m == Max(t)
      <4>1. m \in V /\ m \in Nat /\ it[t \ {m}] \in V
        <5>1. m \in t
          BY <1>1, <3>2, MaxOfFinite
        <5> HIDE DEF m
        <5> QED
          BY <1>1, <5>1
      <4>2. it[t] = step[m][it[t \ {m}]]
        <5> HIDE DEF step
        <5> QED
          BY <1>1, <1>5, <3>2 DEF Peels
      <4>3. body(it, t) = IF Competes(r, s, ids[m]) THEN better[ids[m]][it[t \ {m}]]
                          ELSE it[t \ {m}]
        BY <3>2
      <4> HIDE DEF m, body
      <4> QED
        BY <4>1, <4>2, <4>3
    <3> QED
      BY <3>1, <3>2
  <2> HIDE DEF body
  <2> QED
    BY <1>1, <2>1
<1>7. iter = [t \in SUBSET DOMAIN ids |-> body(iter, t)]
  <2> HIDE DEF body
  <2> QED
    BY <1>6, Zenon
<1> DEFINE best == [j \in 0..n |-> iter[1..j]]
<1>8. best[0] = 1
  <2> HIDE DEF iter
  <2> QED
    BY <1>1, <1>7
<1>9. ASSUME NEW j \in 1..n
      PROVE  best[j] = IF Competes(r, s, j) THEN better[j][best[j-1]] ELSE best[j-1]
  <2>1. Max(1..j) = j
    <3>1. Max(1..j) \in 1..j /\ \A y \in 1..j : Max(1..j) >= y
      <4>1. j \in Nat /\ j \in 1..j
        BY <1>1
      <4> QED
        BY <4>1, MaxOfFinite
    <3>2. j \in 1..j
      BY <1>1
    <3> QED
      BY <1>1, <3>1, <3>2
  <2>2. (1..j) \ {j} = 1..j-1 /\ 1..j # {} /\ 1..j \in SUBSET V /\ ids[j] = j
        /\ best[j] = iter[1..j] /\ best[j-1] = iter[1..j-1]
    BY <1>1
  <2>3. iter[1..j] = body(iter, 1..j)
    <3> HIDE DEF iter, body
    <3> QED
      BY <1>1, <1>7, <2>2
  <2> HIDE DEF iter, better, ids, best
  <2> QED
    BY <2>1, <2>2, <2>3
<1>10. best \in [0..n -> V]
  <2> DEFINE P == {j \in Nat : j <= n => best[j] \in V}
  <2>1. 0 \in P
    <3> HIDE DEF best
    <3> QED
      BY <1>1, <1>8
  <2>2. ASSUME NEW j \in Nat, j \in P PROVE j + 1 \in P
    <3>1. CASE j + 1 <= n
      <4>1. j + 1 \in 1..n /\ best[j] \in V /\ (j + 1) - 1 = j /\ j + 1 \in V
        BY <1>1, <2>2, <3>1
      <4>2. best[j+1] \in V
        <5>1. best[j+1] = IF Competes(r, s, j+1) THEN better[j+1][best[j]] ELSE best[j]
          <6> HIDE DEF best, better
          <6> QED
            BY <1>9, <4>1
        <5> HIDE DEF best, better
        <5> QED
          BY <1>3, <4>1, <5>1
      <4> HIDE DEF best
      <4> QED
        BY <4>2
    <3>2. CASE ~(j + 1 <= n)
      BY <3>2
    <3> QED
      BY <3>1, <3>2
  <2>3. \A j \in Nat : j \in P
    <3> HIDE DEF P
    <3> QED
      BY <2>1, <2>2, SetInduction
  <2>4. \A j \in 0..n : best[j] \in V
    <3>1. \A j \in 0..n : j \in P /\ j <= n
      <4> HIDE DEF P
      <4> QED
        BY <1>1, <2>3
    <3> HIDE DEF best
    <3> QED
      BY <3>1
  <2> QED
    BY <2>4
<1>11. IsLoop(r, rdy, s, best)
  <2>1. \A j \in 1..n : best[j-1] \in V
    <3>1. \A j \in 1..n : j-1 \in 0..n
      BY <1>1
    <3> HIDE DEF best
    <3> QED
      BY <1>10, <3>1
  <2> HIDE DEF best, better
  <2> QED
    BY <1>1, <1>3, <1>8, <1>9, <2>1 DEF IsLoop
<1>12. BestRequest(r, rdy, s) = best[n]
  BY <1>1, <1>2
<1> QED
  <2> HIDE DEF best
  <2> QED
    BY <1>10, <1>11, <1>12

(* Request k takes the place of a candidate that is not ready and older.   *)
StealsHit(r, s, k) == ~RowHit(r, s[k]) /\ s[k].bank \in HitBanks(r, s)
Takes(r, rdy, s, k) ==
    Competes(r, s, k) /\ CheckReady(r, rdy, s[k]) /\ ~StealsHit(r, s, k)

(***************************************************************************)
(* In a buffer kept in the order of arrival the front is the best request  *)
(* if it is ready, and the first that takes its place if it is not.        *)
(***************************************************************************)
LEMMA BestOfSorted ==
    ASSUME NEW S, NEW s \in Seq(S), s # <<>>, NEW r, NEW rdy,
           \A i \in DOMAIN s : s[i].arrive \in Int,
           \A i, j \in DOMAIN s : i < j => s[i].arrive <= s[j].arrive
    PROVE  LET best == BestRequest(r, rdy, s)
           IN  /\ best \in DOMAIN s
               /\ \/ best = 1
                  \/ /\ ~CheckReady(r, rdy, s[1]) /\ Takes(r, rdy, s, best)
                     /\ \A k \in 2..best-1 : ~Takes(r, rdy, s, k)
<1> DEFINE n == Len(s)
           R(i) == CheckReady(r, rdy, s[i])
<1>1. n \in Nat /\ DOMAIN s = 1..n /\ 1 \in 1..n
  BY LenProperties, EmptySeq
<1>2. PICK best : /\ IsLoop(r, rdy, s, best)
                  /\ best \in [0..n -> DOMAIN s]
                  /\ BestRequest(r, rdy, s) = best[n]
  BY BestRequestLoop
<1>3. ASSUME NEW i \in DOMAIN s, NEW j \in DOMAIN s, i <= j
      PROVE  Better(r, rdy, s, i, j)
                = IF ~R(i) /\ R(j) /\ ~StealsHit(r, s, j) THEN j ELSE i
  <2>1. s[i].arrive <= s[j].arrive
    BY <1>1, <1>3
  <2> HIDE DEF R
  <2> QED
    BY <2>1 DEF Better, R, StealsHit, CheckReady
<1> DEFINE first2(b, j) ==
               \/ b = 1 /\ (R(1) \/ \A k \in 2..j : ~Takes(r, rdy, s, k))
               \/ /\ b \in 2..j /\ ~R(1) /\ Takes(r, rdy, s, b)
                  /\ \A k \in 2..b-1 : ~Takes(r, rdy, s, k)
           P == {j \in Nat : j <= n => first2(best[j], j)}
<1>4. 0 \in P
  BY <1>2 DEF IsLoop
<1>5. ASSUME NEW j \in Nat, j \in P PROVE j + 1 \in P
  <2> SUFFICES ASSUME j + 1 <= n PROVE first2(best[j+1], j+1)
    OBVIOUS
  <2>1. first2(best[j], j) /\ j + 1 \in 1..n /\ j \in 0..n /\ best[j] \in 1..n
    BY <1>1, <1>2, <1>5
  <2>2. best[j+1] = IF Competes(r, s, j+1) THEN Better(r, rdy, s, best[j], j+1)
                    ELSE best[j]
    <3>1. (j + 1) - 1 = j
      OBVIOUS
    <3> QED
      BY <1>1, <1>2, <2>1, <3>1 DEF IsLoop
  <2>3. best[j] <= j + 1
    BY <2>1
  <2>4. Better(r, rdy, s, best[j], j+1)
           = IF ~R(best[j]) /\ R(j+1) /\ ~StealsHit(r, s, j+1) THEN j+1 ELSE best[j]
    BY <1>1, <1>3, <2>1, <2>3
  <2> HIDE DEF R
  <2>5. CASE best[j] # 1
    BY <2>1, <2>2, <2>4, <2>5 DEF Takes, R
  <2>6. CASE best[j] = 1 /\ R(1)
    BY <2>1, <2>2, <2>4, <2>6
  <2>7. CASE best[j] = 1 /\ ~R(1)
    <3>1. j = 0 => best[j+1] = 1
      BY <2>2, <2>4, <2>7
    <3>2. \A k \in 2..j : ~Takes(r, rdy, s, k)
      BY <2>1, <2>7
    <3>3. CASE Takes(r, rdy, s, j+1)
      BY <2>1, <2>2, <2>4, <2>7, <3>1, <3>2, <3>3 DEF Takes, R
    <3>4. CASE ~Takes(r, rdy, s, j+1)
      BY <2>1, <2>2, <2>4, <2>7, <3>1, <3>2, <3>4 DEF Takes, R
    <3> QED
      BY <3>3, <3>4
  <2> QED
    BY <2>5, <2>6, <2>7
<1>6. n \in P
  <2> HIDE DEF P
  <2> QED
    BY <1>1, <1>4, <1>5, SetInduction
<1> QED
  BY <1>1, <1>2, <1>6

(* Among requests none of which may be held back for a row hit of another, *)
(* a ready one is chosen if there is one.                                  *)
LEMMA BestIsReady ==
    ASSUME NEW S, NEW s \in Seq(S), s # <<>>, NEW r, NEW rdy,
           \A i \in DOMAIN s : Competes(r, s, i) /\ ~StealsHit(r, s, i),
           NEW k \in DOMAIN s, CheckReady(r, rdy, s[k])
    PROVE  CheckReady(r, rdy, s[BestRequest(r, rdy, s)])
<1> DEFINE n == Len(s)
           R(i) == CheckReady(r, rdy, s[i])
<1>1. n \in Nat /\ DOMAIN s = 1..n
  BY LenProperties
<1>2. PICK best : /\ IsLoop(r, rdy, s, best)
                  /\ best \in [0..n -> DOMAIN s]
                  /\ BestRequest(r, rdy, s) = best[n]
  BY BestRequestLoop
<1>3. ASSUME NEW i \in DOMAIN s, NEW j \in DOMAIN s, R(i) \/ R(j)
      PROVE  R(Better(r, rdy, s, i, j))
  BY <1>3 DEF Better, StealsHit
<1> DEFINE P == {j \in Nat : j <= n => R(best[j]) \/ \A i \in 1..j : ~R(i)}
<1>4. 0 \in P
  OBVIOUS
<1>5. ASSUME NEW j \in Nat, j \in P PROVE j + 1 \in P
  <2> SUFFICES ASSUME j + 1 <= n, NEW i \in 1..j+1, R(i) PROVE R(best[j+1])
    OBVIOUS
  <2>1. j + 1 \in DOMAIN s /\ j \in 0..n /\ best[j] \in DOMAIN s
    BY <1>1, <1>2
  <2>2. best[j+1] = Better(r, rdy, s, best[j], j+1)
    BY <1>1, <1>2, <2>1 DEF IsLoop
  <2>3. R(best[j]) \/ R(j+1)
    <3> HIDE DEF R
    <3> QED
      BY <1>5
  <2> HIDE DEF R
  <2> QED
    BY <1>3, <2>1, <2>2, <2>3
<1>6. n \in P
  <2> HIDE DEF P
  <2> QED
    BY <1>1, <1>4, <1>5, SetInduction
<1> QED
  BY <1>1, <1>2, <1>6

(***************************************************************************)
(* Where the lines of the trace are.  The inductive invariant Inv:         *)
(*  - what a line buffer holds stands for a line of its kind that is not   *)
(*    served yet, each line in one place only;                             *)
(*  - the read, write and PIM buffers are in trace order;                  *)
(*  - every PIM line not served is in the PIM buffer;                      *)
(*  - pending holds the reads served and not completed, each once.         *)
(***************************************************************************)
LineBuffer == {"active", "read", "write", "pim"}
Queue == {"read", "write", "pim"}
TypesOf(b) == CASE b = "read" -> {"read"} [] b = "write" -> {"write"}
                [] b = "pim" -> PimType   [] OTHER -> {"read", "write"}

StandsForLine(q) ==
    /\ q.type = trace[q.id].type /\ q.bank = trace[q.id].bank
    /\ q.row = trace[q.id].row   /\ q.col = trace[q.id].col
    /\ q.arrive <= burst

RightKind(bufs, done) ==
    \A b \in LineBuffer : \A i \in DOMAIN bufs[b] :
        /\ StandsForLine(bufs[b][i])
        /\ bufs[b][i].type \in TypesOf(b)
        /\ bufs[b][i].id \notin done

InOrder(bufs) ==
    \A b \in Queue : \A i, j \in DOMAIN bufs[b] :
        i < j => /\ bufs[b][i].id < bufs[b][j].id
                 /\ bufs[b][i].arrive <= bufs[b][j].arrive

OnePlace(bufs) ==
    \A b, c \in LineBuffer : \A i \in DOMAIN bufs[b] : \A j \in DOMAIN bufs[c] :
        bufs[b][i].id = bufs[c][j].id => b = c /\ i = j

Placed(bufs, done) == RightKind(bufs, done) /\ InOrder(bufs) /\ OnePlace(bufs)

Holds(bufs, b, n) == \E i \in DOMAIN bufs[b] : bufs[b][i].id = n

PimKept(bufs, done) ==
    \A n \in 1..sent : n \notin done /\ trace[n].type \in PimType => Holds(bufs, "pim", n)

Delivering(pend, done, comp) ==
    /\ comp \subseteq done
    /\ \A i \in DOMAIN pend : /\ pend[i].req.id \in done \ comp
                              /\ trace[pend[i].req.id].type = "read"
    /\ \A i, j \in DOMAIN pend : pend[i].req.id = pend[j].req.id => i = j
    /\ \A n \in done : n \notin comp /\ trace[n].type = "read" =>
          \E i \in DOMAIN pend : pend[i].req.id = n

Inv == TypeOK /\ Placed(buf, served) /\ PimKept(buf, served)
       /\ Delivering(pending, served, completed)

(* Unless an activated request was dropped, every line is kept.            *)
Kept(bufs, done) ==
    \A n \in 1..sent : n \notin done => \E b \in LineBuffer : Holds(bufs, b, n)

----------------------------------------------------------------------------
(***************************************************************************)
(* Lemmas about sequences: what is where after a removal.                  *)
(***************************************************************************)
LEMMA RemoveAtElements ==
    ASSUME NEW S, NEW s \in Seq(S), NEW i \in DOMAIN s
    PROVE  /\ RemoveAt(s, i) \in Seq(S)
           /\ Len(RemoveAt(s, i)) = Len(s) - 1
           /\ DOMAIN RemoveAt(s, i) = 1..Len(s)-1
           /\ \A j \in 1..Len(s)-1 :
                 RemoveAt(s, i)[j] = s[IF j < i THEN j ELSE j + 1]
<1> DEFINE left == SubSeq(s, 1, i-1)
           right == SubSeq(s, i+1, Len(s))
<1>1. i \in 1..Len(s) /\ Len(s) \in Nat /\ i \in Int
  BY LenProperties
<1>2. \A j \in 1..Len(s) : s[j] \in S
  BY ElementOfSeq
<1>3. left \in Seq(S) /\ Len(left) = i - 1 /\ \A j \in 1..i-1 : left[j] = s[j]
  BY <1>1, <1>2, SubSeqProperties
<1>4. /\ right \in Seq(S) /\ Len(right) = Len(s) - i
      /\ \A j \in 1..Len(s)-i : right[j] = s[i+j]
  <2>1. i+1 \in Int /\ Len(s) \in Int /\ \A j \in i+1..Len(s) : s[j] \in S
    BY <1>1, <1>2
  <2>2. /\ SubSeq(s, i+1, Len(s)) \in Seq(S)
        /\ Len(SubSeq(s, i+1, Len(s)))
              = IF i+1 <= Len(s) THEN Len(s) - (i+1) + 1 ELSE 0
        /\ \A j \in 1..Len(s)-(i+1)+1 : SubSeq(s, i+1, Len(s))[j] = s[i+1+j-1]
    BY <2>1, SubSeqProperties
  <2>3. \A j \in 1..Len(s)-i : i+1+j-1 = i+j
    BY <1>1
  <2>4. Len(s)-(i+1)+1 = Len(s)-i
    BY <1>1
  <2> QED
    BY <1>1, <2>2, <2>3, <2>4
<1>5. RemoveAt(s, i) = left \o right
  BY DEF RemoveAt
<1>6. RemoveAt(s, i) \in Seq(S) /\ Len(RemoveAt(s, i)) = Len(s) - 1
      /\ DOMAIN RemoveAt(s, i) = 1..Len(s)-1
  BY RemoveAtType, LenProperties
<1> HIDE DEF left, right
<1>7. ASSUME NEW j \in 1..Len(s)-1
      PROVE  RemoveAt(s, i)[j] = s[IF j < i THEN j ELSE j + 1]
  <2>1. (left \o right)[j] = IF j <= Len(left) THEN left[j] ELSE right[j - Len(left)]
    BY <1>1, <1>3, <1>4, ConcatProperties
  <2>2. CASE j < i
    BY <1>1, <1>3, <1>5, <2>1, <2>2
  <2>3. CASE ~(j < i)
    <3>1. j - (i - 1) \in 1..Len(s)-i /\ i + (j - (i - 1)) = j + 1
      BY <1>1, <2>3
    <3>2. right[j - (i - 1)] = s[j + 1]
      BY <1>4, <3>1
    <3>3. (left \o right)[j] = right[j - (i - 1)]
      BY <1>1, <1>3, <2>1, <2>3
    <3> QED
      BY <1>5, <2>3, <3>2, <3>3
  <2> QED
    BY <2>2, <2>3
<1> QED
  BY <1>6, <1>7

LEMMA TailIsRemoval ==
    ASSUME NEW S, NEW s \in Seq(S), s # <<>>
    PROVE  1 \in DOMAIN s /\ Head(s) = s[1] /\ Tail(s) = RemoveAt(s, 1)
<1>1. /\ 1 \in DOMAIN s /\ Head(s) = s[1] /\ Len(s) \in Nat /\ DOMAIN s = 1..Len(s)
      /\ Tail(s) \in Seq(S) /\ Len(Tail(s)) = Len(s) - 1
      /\ \A i \in 1..Len(Tail(s)) : Tail(s)[i] = s[i+1]
  BY HeadTailProperties, LenProperties, EmptySeq
<1>2. /\ RemoveAt(s, 1) \in Seq(S) /\ Len(RemoveAt(s, 1)) = Len(s) - 1
      /\ \A j \in 1..Len(s)-1 : RemoveAt(s, 1)[j] = s[IF j < 1 THEN j ELSE j + 1]
  BY <1>1, RemoveAtElements
<1>3. \A j \in 1..Len(Tail(s)) : Tail(s)[j] = RemoveAt(s, 1)[j]
  BY <1>1, <1>2
<1> QED
  BY <1>1, <1>2, <1>3, SeqEqual

(* Appending and removing commute: the element appended stays last.        *)
LEMMA RemoveAfterAppend ==
    ASSUME NEW S, NEW s \in Seq(S), NEW i \in DOMAIN s, NEW e \in S
    PROVE  RemoveAt(Append(s, e), i) = Append(RemoveAt(s, i), e)
<1>1. /\ Len(s) \in Nat /\ DOMAIN s = 1..Len(s) /\ i \in 1..Len(s)
      /\ Append(s, e) \in Seq(S) /\ Len(Append(s, e)) = Len(s) + 1
      /\ Append(s, e)[Len(s) + 1] = e
      /\ \A j \in 1..Len(s) : Append(s, e)[j] = s[j]
  BY LenProperties, AppendProperties
<1>2. /\ RemoveAt(s, i) \in Seq(S) /\ Len(RemoveAt(s, i)) = Len(s) - 1
      /\ \A j \in 1..Len(s)-1 : RemoveAt(s, i)[j] = s[IF j < i THEN j ELSE j + 1]
  BY RemoveAtElements
<1>3. i \in DOMAIN Append(s, e)
  BY <1>1, LenProperties
<1>4. /\ RemoveAt(Append(s, e), i) \in Seq(S) /\ Len(RemoveAt(Append(s, e), i)) = Len(s)
      /\ \A j \in 1..Len(s) :
            RemoveAt(Append(s, e), i)[j] = Append(s, e)[IF j < i THEN j ELSE j + 1]
  <2>1. /\ RemoveAt(Append(s, e), i) \in Seq(S)
        /\ Len(RemoveAt(Append(s, e), i)) = Len(Append(s, e)) - 1
        /\ \A j \in 1..Len(Append(s, e))-1 :
              RemoveAt(Append(s, e), i)[j] = Append(s, e)[IF j < i THEN j ELSE j + 1]
    BY <1>1, <1>3, RemoveAtElements
  <2>2. Len(Append(s, e)) - 1 = Len(s)
    BY <1>1
  <2> QED
    BY <2>1, <2>2
<1>5. /\ Append(RemoveAt(s, i), e) \in Seq(S) /\ Len(Append(RemoveAt(s, i), e)) = Len(s)
      /\ Append(RemoveAt(s, i), e)[Len(s)] = e
      /\ \A j \in 1..Len(s)-1 : Append(RemoveAt(s, i), e)[j] = RemoveAt(s, i)[j]
  <2>1. /\ Append(RemoveAt(s, i), e) \in Seq(S)
        /\ Len(Append(RemoveAt(s, i), e)) = Len(RemoveAt(s, i)) + 1
        /\ \A j \in 1..Len(RemoveAt(s, i)) :
              Append(RemoveAt(s, i), e)[j] = RemoveAt(s, i)[j]
        /\ Append(RemoveAt(s, i), e)[Len(RemoveAt(s, i)) + 1] = e
    BY <1>2, AppendProperties
  <2>2. Len(RemoveAt(s, i)) + 1 = Len(s) /\ Len(RemoveAt(s, i)) = Len(s) - 1
    BY <1>1, <1>2
  <2> QED
    BY <2>1, <2>2
<1>6. ASSUME NEW j \in 1..Len(s)
      PROVE  RemoveAt(Append(s, e), i)[j] = Append(RemoveAt(s, i), e)[j]
  <2>1. CASE j = Len(s)
    BY <1>1, <1>4, <1>5, <2>1
  <2>2. CASE j # Len(s)
    <3> DEFINE k == IF j < i THEN j ELSE j + 1
    <3>1. j \in 1..Len(s)-1 /\ j \in Int /\ i \in Int
      <4>1. Len(s) \in Nat /\ i \in 1..Len(s)
        BY <1>1
      <4> QED
        BY <2>2, <4>1
    <3>2. k \in 1..Len(s)
      BY <1>1, <3>1
    <3> HIDE DEF k
    <3>3. Append(s, e)[k] = s[k]
      BY <1>1, <3>2
    <3> USE DEF k
    <3> QED
      BY <1>2, <1>4, <1>5, <3>1, <3>3
  <2> QED
    BY <2>1, <2>2
<1> QED
  BY <1>4, <1>5, <1>6, SeqEqual

----------------------------------------------------------------------------
(***************************************************************************)
(* Lemmas about placement: a request leaves its buffer, one is appended,   *)
(* one moves to the active buffer.                                         *)
(***************************************************************************)
LEMMA LineBuffers ==
    ASSUME NEW bufs, BuffersOK(bufs, sent), sent \in Nat, NEW b \in LineBuffer
    PROVE  /\ b \in Buffer /\ b # "priority"
           /\ bufs[b] \in Seq(Requests(sent))
           /\ Len(bufs[b]) \in Nat /\ DOMAIN bufs[b] = 1..Len(bufs[b])
           /\ \A i \in DOMAIN bufs[b] :
                 /\ bufs[b][i] \in Requests(sent) /\ bufs[b][i].id \in 1..sent
                 /\ bufs[b][i].arrive \in Nat
<1>1. b \in Buffer /\ b # "priority" /\ bufs[b] \in Seq(Requests(sent))
  BY DEF LineBuffer, Buffer, BuffersOK, Contents
<1>2. Len(bufs[b]) \in Nat /\ DOMAIN bufs[b] = 1..Len(bufs[b])
  BY <1>1, LenProperties
<1>3. \A i \in DOMAIN bufs[b] : bufs[b][i] \in Requests(sent)
  BY <1>1, <1>2, ElementOfSeq
<1>4. \A q \in Requests(sent) : q.id \in 1..sent /\ q.arrive \in Nat
  BY DEF Requests
<1> QED
  BY <1>1, <1>2, <1>3, <1>4

Absent(bufs, n) == \A b \in LineBuffer : ~Holds(bufs, b, n)

(* What is where after request i has left buffer b: request j was request  *)
(* Behind(i, j) before.                                                    *)
Behind(i, j) == IF j < i THEN j ELSE j + 1
IsRemoval(left, bufs, b, i) ==
    /\ \A c \in LineBuffer : c # b => left[c] = bufs[c]
    /\ \A j \in DOMAIN left[b] : /\ j \in Int /\ i \in Int
                                 /\ Behind(i, j) \in DOMAIN bufs[b]
                                 /\ left[b][j] = bufs[b][Behind(i, j)]
    /\ \A k \in DOMAIN bufs[b] : k # i =>
          \E j \in DOMAIN left[b] : left[b][j] = bufs[b][k]

LEMMA Removed ==
    ASSUME NEW bufs, BuffersOK(bufs, sent), sent \in Nat,
           NEW b \in LineBuffer, NEW i \in DOMAIN bufs[b],
           NEW left, left = [bufs EXCEPT ![b] = RemoveAt(@, i)]
    PROVE  IsRemoval(left, bufs, b, i)
<1> DEFINE s == bufs[b]
           n == Len(s)
<1>1. /\ b \in Buffer /\ s \in Seq(Requests(sent)) /\ n \in Nat /\ DOMAIN s = 1..n
      /\ \A c \in LineBuffer : c \in Buffer
  BY LineBuffers
<1>2. /\ left[b] = RemoveAt(s, i)
      /\ \A c \in LineBuffer : c # b => left[c] = bufs[c]
  BY <1>1 DEF BuffersOK
<1>4. i \in DOMAIN s /\ i \in 1..n
  BY <1>1
<1> HIDE DEF s
<1>3. /\ DOMAIN left[b] = 1..n-1
      /\ \A j \in 1..n-1 : left[b][j] = s[Behind(i, j)]
  <2>1. /\ DOMAIN RemoveAt(s, i) = 1..Len(s)-1
        /\ \A j \in 1..Len(s)-1 : RemoveAt(s, i)[j] = s[IF j < i THEN j ELSE j + 1]
    BY <1>1, <1>4, RemoveAtElements
  <2> QED
    BY <1>2, <2>1 DEF Behind
<1> HIDE DEF n
<1>5. \A j \in 1..n-1 : Behind(i, j) \in 1..n
  BY <1>1, <1>4 DEF Behind
<1>6. \A k \in 1..n : k # i => \E j \in 1..n-1 : k = Behind(i, j)
  <2> SUFFICES ASSUME NEW k \in 1..n, k # i
               PROVE  \E j \in 1..n-1 : k = Behind(i, j)
    OBVIOUS
  <2>1. CASE k < i
    BY <1>1, <1>4, <2>1 DEF Behind
  <2>2. CASE k > i
    <3>1. k - 1 \in 1..n-1 /\ ~(k - 1 < i) /\ k = k - 1 + 1
      BY <1>1, <1>4, <2>2
    <3> QED
      BY <3>1 DEF Behind
  <2> QED
    BY <1>1, <1>4, <2>1, <2>2
<1> QED
  BY <1>1, <1>2, <1>3, <1>4, <1>5, <1>6 DEF s, IsRemoval

(* The lines but n are where they were. *)
OthersStay(bufs, after, n) ==
    \A c \in LineBuffer : \A m : m # n /\ Holds(bufs, c, m) => Holds(after, c, m)

LEMMA RemovedPlaced ==
    ASSUME NEW bufs, BuffersOK(bufs, sent), sent \in Nat, NEW done, Placed(bufs, done),
           NEW b \in LineBuffer, NEW i \in DOMAIN bufs[b],
           NEW left, left = [bufs EXCEPT ![b] = RemoveAt(@, i)]
    PROVE  /\ Placed(left, done) /\ Absent(left, bufs[b][i].id)
           /\ Placed(left, done \cup {bufs[b][i].id})
           /\ OthersStay(bufs, left, bufs[b][i].id)
<1> DEFINE q == bufs[b][i]
           old(j) == Behind(i, j)
<1>1. /\ \A c \in LineBuffer : c # b => left[c] = bufs[c]
      /\ \A j \in DOMAIN left[b] : /\ j \in Int /\ i \in Int
                                   /\ old(j) \in DOMAIN bufs[b]
                                   /\ left[b][j] = bufs[b][old(j)]
      /\ \A k \in DOMAIN bufs[b] : k # i =>
            \E j \in DOMAIN left[b] : left[b][j] = bufs[b][k]
  <2>1. IsRemoval(left, bufs, b, i)
    BY Removed
  <2> QED
    BY <2>1 DEF IsRemoval
<1>2. \A j \in DOMAIN left[b] : old(j) # i
  BY <1>1 DEF Behind
<1>3. \A j, k \in DOMAIN left[b] : /\ old(j) = old(k) => j = k
                                   /\ j < k => old(j) < old(k)
  BY <1>1 DEF Behind
<1> HIDE DEF old
<1>4. RightKind(left, done)
  BY <1>1 DEF Placed, RightKind
<1>5. InOrder(left)
  <2> SUFFICES ASSUME NEW c \in Queue, NEW j \in DOMAIN left[c], NEW k \in DOMAIN left[c],
                      j < k
               PROVE  /\ left[c][j].id < left[c][k].id
                      /\ left[c][j].arrive <= left[c][k].arrive
    BY DEF InOrder
  <2>1. c \in LineBuffer
    BY DEF Queue, LineBuffer
  <2> QED
    BY <1>1, <1>3, <2>1 DEF Placed, InOrder
<1>6. OnePlace(left)
  <2> SUFFICES ASSUME NEW c \in LineBuffer, NEW d \in LineBuffer,
                      NEW j \in DOMAIN left[c], NEW k \in DOMAIN left[d],
                      left[c][j].id = left[d][k].id
               PROVE  c = d /\ j = k
    BY DEF OnePlace
  <2>1. OnePlace(bufs)
    BY DEF Placed
  <2>2. CASE c = b /\ d = b
    BY <1>1, <1>3, <2>1, <2>2 DEF OnePlace
  <2>3. CASE c = b /\ d # b
    BY <1>1, <2>1, <2>3 DEF OnePlace
  <2>4. CASE c # b /\ d = b
    BY <1>1, <2>1, <2>4 DEF OnePlace
  <2>5. CASE c # b /\ d # b
    BY <1>1, <2>1, <2>5 DEF OnePlace
  <2> QED
    BY <2>2, <2>3, <2>4, <2>5
<1>7. Absent(left, q.id)
  <2> SUFFICES ASSUME NEW c \in LineBuffer, NEW j \in DOMAIN left[c], left[c][j].id = q.id
               PROVE  FALSE
    BY DEF Absent, Holds
  <2>1. OnePlace(bufs)
    BY DEF Placed
  <2>2. CASE c = b
    BY <1>1, <1>2, <2>1, <2>2 DEF OnePlace
  <2>3. CASE c # b
    BY <1>1, <2>1, <2>3 DEF OnePlace
  <2> QED
    BY <2>2, <2>3
<1>8. RightKind(left, done \cup {q.id})
  BY <1>4, <1>7 DEF RightKind, Absent, Holds
<1>9. OthersStay(bufs, left, q.id)
  BY <1>1 DEF Holds, OthersStay
<1> QED
  BY <1>4, <1>5, <1>6, <1>7, <1>8, <1>9 DEF Placed

(* A request not held anywhere is appended to a buffer of its kind, behind *)
(* older ones if the buffer is in trace order.                             *)
Appended(longer, bufs, b, q) == longer = [bufs EXCEPT ![b] = Append(@, q)]
Newest(bufs, b, q) ==
    b \in Queue => \A i \in DOMAIN bufs[b] : /\ bufs[b][i].id < q.id
                                             /\ bufs[b][i].arrive <= q.arrive

LEMMA AppendedPlaced ==
    ASSUME NEW bufs, BuffersOK(bufs, sent), sent \in Nat, NEW done, Placed(bufs, done),
           NEW b \in LineBuffer, NEW q, Absent(bufs, q.id),
           StandsForLine(q), q.type \in TypesOf(b), q.id \notin done,
           Newest(bufs, b, q),
           NEW longer, Appended(longer, bufs, b, q)
    PROVE  Placed(longer, done) /\ Holds(longer, b, q.id) /\ OthersStay(bufs, longer, q.id)
<1> DEFINE n == Len(bufs[b])
<1>1. /\ n \in Nat /\ DOMAIN bufs[b] = 1..n /\ bufs[b] \in Seq(Requests(sent))
      /\ b \in Buffer /\ \A c \in LineBuffer : c \in Buffer
  BY LineBuffers
<1>2. /\ \A c \in LineBuffer : c # b => longer[c] = bufs[c]
      /\ longer[b] = Append(bufs[b], q)
  BY <1>1 DEF BuffersOK, Appended
<1>3. /\ DOMAIN longer[b] = 1..n+1 /\ longer[b][n+1] = q
      /\ \A j \in 1..n : longer[b][j] = bufs[b][j]
  BY <1>1, <1>2
<1> HIDE DEF n
<1>4. \A j \in 1..n+1 : j = n+1 \/ j \in 1..n
  BY <1>1
<1>5. RightKind(longer, done)
  BY <1>1, <1>2, <1>3, <1>4 DEF Placed, RightKind
<1>6. InOrder(longer)
  <2> SUFFICES ASSUME NEW c \in Queue, NEW j \in DOMAIN longer[c],
                      NEW k \in DOMAIN longer[c], j < k
               PROVE  /\ longer[c][j].id < longer[c][k].id
                      /\ longer[c][j].arrive <= longer[c][k].arrive
    BY DEF InOrder
  <2>1. c \in LineBuffer /\ InOrder(bufs)
    BY DEF Queue, LineBuffer, Placed
  <2>2. CASE c # b
    BY <1>2, <2>1, <2>2 DEF InOrder
  <2>3. CASE c = b /\ k \in 1..n
    <3>1. j \in 1..n /\ j \in DOMAIN bufs[c] /\ k \in DOMAIN bufs[c]
      BY <1>1, <1>3, <2>3
    <3>2. longer[c][j] = bufs[c][j] /\ longer[c][k] = bufs[c][k]
      BY <1>3, <2>3, <3>1
    <3> QED
      BY <2>1, <3>1, <3>2 DEF InOrder
  <2>4. CASE c = b /\ k = n+1
    <3>1. j \in 1..n
      BY <1>1, <1>3, <2>4
    <3> QED
      BY <1>1, <1>3, <2>4, <3>1 DEF Newest
  <2> QED
    BY <1>3, <1>4, <2>2, <2>3, <2>4
<1>7. OnePlace(longer)
  <2> SUFFICES ASSUME NEW c \in LineBuffer, NEW d \in LineBuffer,
                      NEW j \in DOMAIN longer[c], NEW k \in DOMAIN longer[d],
                      longer[c][j].id = longer[d][k].id
               PROVE  c = d /\ j = k
    BY DEF OnePlace
  <2> DEFINE isNew(e, l) == e = b /\ l = n+1
  <2>1. \A e \in LineBuffer : \A l \in DOMAIN longer[e] :
            \/ isNew(e, l) /\ longer[e][l] = q
            \/ l \in DOMAIN bufs[e] /\ longer[e][l] = bufs[e][l] /\ bufs[e][l].id # q.id
    BY <1>1, <1>2, <1>3, <1>4 DEF Absent, Holds
  <2> QED
    BY <2>1 DEF Placed, OnePlace
<1>8. Holds(longer, b, q.id)
  BY <1>1, <1>3 DEF Holds
<1>9. OthersStay(bufs, longer, q.id)
  <2> SUFFICES ASSUME NEW c \in LineBuffer, NEW m, NEW i \in DOMAIN bufs[c],
                      bufs[c][i].id = m
               PROVE  Holds(longer, c, m)
    BY DEF Holds, OthersStay
  <2>1. CASE c # b
    BY <1>2, <2>1 DEF Holds
  <2>2. CASE c = b
    <3>1. i \in DOMAIN longer[b] /\ longer[b][i] = bufs[b][i]
      BY <1>1, <1>3, <2>2
    <3> QED
      BY <2>2, <3>1 DEF Holds
  <2> QED
    BY <2>1, <2>2
<1> QED
  BY <1>5, <1>6, <1>7, <1>8, <1>9 DEF Placed

(* A load or a store moves to the active buffer. *)
Moved(moved, bufs, b, i) ==
    moved = [[bufs EXCEPT !["active"] = Append(@, bufs[b][i])] EXCEPT ![b] = RemoveAt(@, i)]

LEMMA MovedPlaced ==
    ASSUME NEW bufs, BuffersOK(bufs, sent), sent \in Nat, NEW done, Placed(bufs, done),
           NEW b \in LineBuffer, NEW i \in DOMAIN bufs[b],
           bufs[b][i].type \in {"read", "write"}, NEW moved, Moved(moved, bufs, b, i)
    PROVE  /\ Placed(moved, done)
           /\ \A n : Holds(bufs, "pim", n) => Holds(moved, "pim", n)
           /\ \A n : (\E c \in LineBuffer : Holds(bufs, c, n))
                        => \E c \in LineBuffer : Holds(moved, c, n)
<1> DEFINE left == [bufs EXCEPT ![b] = RemoveAt(@, i)]
           q == bufs[b][i]
<1>1. /\ b \in Buffer /\ "active" \in Buffer /\ "active" \in LineBuffer
      /\ bufs["active"] \in Seq(Requests(sent)) /\ q \in Requests(sent)
      /\ bufs[b] \in Seq(Requests(sent))
      /\ \A c \in Buffer : c \in DOMAIN bufs
      /\ bufs = [c \in Buffer |-> bufs[c]]
  BY LineBuffers DEF LineBuffer, Buffer, BuffersOK
<1>2. Placed(left, done) /\ Absent(left, q.id) /\ OthersStay(bufs, left, q.id)
  <2>1. left = [bufs EXCEPT ![b] = RemoveAt(@, i)]
    OBVIOUS
  <2> HIDE DEF left
  <2>2. /\ Placed(left, done) /\ Absent(left, bufs[b][i].id)
        /\ OthersStay(bufs, left, bufs[b][i].id)
    BY <2>1, RemovedPlaced
  <2> QED
    BY <2>2
<1>3. BuffersOK(left, sent)
  BY <1>1, RemoveFromBuffer
<1>4. moved = [left EXCEPT !["active"] = Append(@, q)]
  <2>1. CASE b = "active"
    <3>1. RemoveAt(Append(bufs[b], q), i) = Append(RemoveAt(bufs[b], i), q)
      BY <1>1, RemoveAfterAppend
    <3> QED
      BY <1>1, <2>1, <3>1 DEF Moved
  <2>2. CASE b # "active"
    BY <1>1, <2>2 DEF Moved
  <2> QED
    BY <2>1, <2>2
<1>5. /\ StandsForLine(q) /\ q.type \in TypesOf("active") /\ q.id \notin done
      /\ b # "pim"
  BY DEF Placed, RightKind, TypesOf, PimType
<1> HIDE DEF left
<1>6. /\ Placed(moved, done) /\ Holds(moved, "active", q.id)
      /\ OthersStay(left, moved, q.id)
  <2>1. Newest(left, "active", q)
    BY DEF Queue, Newest
  <2>2. "active" \in LineBuffer /\ Appended(moved, left, "active", q)
    BY <1>1, <1>4 DEF Appended
  <2> QED
    BY <1>2, <1>3, <1>5, <2>1, <2>2, AppendedPlaced
<1>7. ASSUME NEW n, Holds(bufs, "pim", n) PROVE Holds(moved, "pim", n)
  <2>1. n # q.id /\ "pim" \in LineBuffer
    BY <1>5, <1>7 DEF Placed, OnePlace, Holds, LineBuffer
  <2> QED
    BY <1>2, <1>6, <1>7, <2>1 DEF OthersStay
<1>8. ASSUME NEW n, NEW c \in LineBuffer, Holds(bufs, c, n)
      PROVE  \E d \in LineBuffer : Holds(moved, d, n)
  <2>1. CASE n = q.id
    BY <1>1, <1>6, <2>1
  <2>2. CASE n # q.id
    BY <1>2, <1>6, <1>8, <2>2 DEF OthersStay
  <2> QED
    BY <2>1, <2>2
<1> QED
  BY <1>6, <1>7, <1>8

(* Nothing of this looks at the priority buffer.                           *)
LEMMA SameLines ==
    ASSUME NEW bufs, NEW other, \A b \in LineBuffer : other[b] = bufs[b]
    PROVE  /\ \A done : Placed(bufs, done) => Placed(other, done)
           /\ \A done : PimKept(bufs, done) => PimKept(other, done)
           /\ \A done : Kept(bufs, done) => Kept(other, done)
<1>1. Queue \subseteq LineBuffer /\ "pim" \in LineBuffer
  BY DEF Queue, LineBuffer
<1>2. \A b \in LineBuffer : \A n : Holds(bufs, b, n) => Holds(other, b, n)
  BY DEF Holds
<1>3. \A done : RightKind(bufs, done) => RightKind(other, done)
  BY DEF RightKind
<1>4. InOrder(bufs) => InOrder(other)
  BY <1>1 DEF InOrder
<1>5. OnePlace(bufs) => OnePlace(other)
  BY DEF OnePlace
<1>6. \A done : Placed(bufs, done) => Placed(other, done)
  BY <1>3, <1>4, <1>5 DEF Placed
<1>7. \A done : PimKept(bufs, done) => PimKept(other, done)
  BY <1>1, <1>2 DEF PimKept
<1>8. \A done : Kept(bufs, done) => Kept(other, done)
  BY <1>2 DEF Kept
<1> QED
  BY <1>6, <1>7, <1>8

(***************************************************************************)
(* Lemmas about pending.                                                   *)
(***************************************************************************)
LEMMA ServedRead ==
    ASSUME NEW S, NEW pend \in Seq(S), NEW done, NEW comp, Delivering(pend, done, comp),
           NEW d \in S, d.req.id \notin done, trace[d.req.id].type = "read"
    PROVE  Delivering(Append(pend, d), done \cup {d.req.id}, comp)
<1> DEFINE n == Len(pend)
           more == Append(pend, d)
<1>1. /\ n \in Nat /\ DOMAIN pend = 1..n /\ DOMAIN more = 1..n+1
      /\ more[n+1] = d /\ \A j \in 1..n : more[j] = pend[j]
  BY LenProperties, AppendProperties
<1> HIDE DEF n, more
<1>2. \A j \in 1..n+1 : j = n+1 \/ j \in 1..n
  BY <1>1
<1>3. \A j \in 1..n : pend[j].req.id # d.req.id
  BY <1>1 DEF Delivering
<1>4. \A i, j \in DOMAIN more : more[i].req.id = more[j].req.id => i = j
  BY <1>1, <1>2, <1>3 DEF Delivering
<1>5. ASSUME NEW m \in done \cup {d.req.id}, m \notin comp, trace[m].type = "read"
      PROVE  \E i \in DOMAIN more : more[i].req.id = m
  <2>1. CASE m = d.req.id
    <3>1. n+1 \in DOMAIN more
      BY <1>1
    <3> QED
      BY <1>1, <2>1, <3>1
  <2>2. CASE m \in done
    <3>1. PICK i \in 1..n : pend[i].req.id = m
      BY <1>1, <1>5, <2>2 DEF Delivering
    <3>2. i \in 1..n+1
      BY <1>1
    <3> QED
      BY <1>1, <3>1, <3>2
  <2> QED
    BY <1>5, <2>1, <2>2
<1>6. \A i \in DOMAIN more : /\ more[i].req.id \in (done \cup {d.req.id}) \ comp
                             /\ trace[more[i].req.id].type = "read"
  <2>1. d.req.id \notin comp
    BY DEF Delivering
  <2> QED
    BY <1>1, <1>2, <2>1 DEF Delivering
<1> QED
  BY <1>4, <1>5, <1>6 DEF Delivering, more

LEMMA ServedOther ==
    ASSUME NEW pend, NEW done, NEW comp, Delivering(pend, done, comp),
           NEW n, trace[n].type # "read"
    PROVE  Delivering(pend, done \cup {n}, comp)
  BY DEF Delivering

(***************************************************************************)
(* The barrier passed on the way leaves the PIM buffer from the front.     *)
(***************************************************************************)
LEMMA BarrierPassed ==
    ASSUME NEW n, BuffersOK(buf, n)
    PROVE  /\ Passed(buf) = {}
           /\ FrontBarrier(buf["pim"]) =>
                 /\ 1 \in DOMAIN buf["pim"]
                 /\ buf["pim"][1].type = "pim-barrier"
                 /\ AfterBarrier = [buf EXCEPT !["pim"] = RemoveAt(@, 1)]
                 /\ Passed(AfterBarrier) = {buf["pim"][1].id}
           /\ ~FrontBarrier(buf["pim"]) => AfterBarrier = buf
<1>1. /\ buf["pim"] \in Seq(Requests(n)) /\ "pim" \in Buffer
      /\ buf = [b \in Buffer |-> buf[b]]
  BY DEF BuffersOK, Contents, Buffer
<1>2. ASSUME FrontBarrier(buf["pim"])
      PROVE  /\ 1 \in DOMAIN buf["pim"]
             /\ buf["pim"][1].type = "pim-barrier"
             /\ AfterBarrier = [buf EXCEPT !["pim"] = RemoveAt(@, 1)]
             /\ Passed(AfterBarrier) = {buf["pim"][1].id}
  <2>1. buf["pim"] # <<>>
    BY <1>2 DEF FrontBarrier
  <2>2. /\ 1 \in DOMAIN buf["pim"] /\ Head(buf["pim"]) = buf["pim"][1]
        /\ Tail(buf["pim"]) = RemoveAt(buf["pim"], 1)
    BY <1>1, <2>1, TailIsRemoval
  <2>3. /\ AfterBarrier["pim"] = Tail(buf["pim"])
        /\ AfterBarrier = [buf EXCEPT !["pim"] = RemoveAt(@, 1)]
    BY <1>1, <1>2, <2>2 DEF AfterBarrier, PassBarrier
  <2>4. Tail(buf["pim"]) # buf["pim"]
    BY <1>1, <2>1, HeadTailProperties, LenProperties
  <2> QED
    BY <1>2, <2>2, <2>3, <2>4 DEF Passed, FrontBarrier
<1>3. ASSUME ~FrontBarrier(buf["pim"]) PROVE AfterBarrier = buf
  BY <1>1, <1>3 DEF AfterBarrier, PassBarrier
<1> QED
  BY <1>2, <1>3 DEF Passed

(***************************************************************************)
(* What a slot comes to: nothing is issued, or the command of one request. *)
(***************************************************************************)
Picked(rdy, bufs, b, i) ==
    \/ /\ b = "active" /\ bufs = buf /\ isPim' = isPim
       /\ i = BestRequest(rows, rdy, buf["active"])
    \/ b = "priority" /\ bufs = buf /\ i = 1 /\ ~Offers(buf["active"], rdy)
    \/ /\ b = "pim" /\ bufs = AfterBarrier /\ isPim' = TRUE
       /\ i = BestRequest(rows, rdy, AfterBarrier["pim"])
    \/ /\ b \in {"read", "write"} /\ bufs = AfterBarrier /\ isPim' = FALSE
       /\ i = BestRequest(rows, rdy, bufs[b])
       /\ ~Offers(buf["active"], rdy)

Issued(rdy, bufs, b, i) ==
    /\ Picked(rdy, bufs, b, i)
    /\ b \in Buffer /\ i \in DOMAIN bufs[b] /\ bufs \in {buf, AfterBarrier}
    /\ CheckReady(rows, rdy, bufs[b][i]) /\ Eligible(bufs[b][i])
    /\ ~Vetoed(bufs[b][i]) /\ Issue(bufs, b, i)

NothingIssued == \E bufs \in {buf, AfterBarrier} : \E types : NoIssue(bufs, types)

LEMMA SlotOutcome ==
    ASSUME TypeOK, Slot
    PROVE  \E rdy \in Readiness :
              \/ NothingIssued
              \/ \E bufs, b, i : Issued(rdy, bufs, b, i)
<1>1. /\ {"active", "priority", "pim", "read", "write"} \subseteq Buffer
      /\ \A b \in Buffer \ {"pim"} : AfterBarrier[b] = buf[b]
  BY PassBarrierType DEF Buffer, TypeOK, ControllerOK
<1>2. PICK rdy \in Readiness :
         \/ ServeActive(rdy) \/ ServePriority(rdy) \/ WaitForPriority(rdy)
         \/ ServePim(rdy) \/ ServeReadWrite(rdy) \/ ServeNone(rdy)
  BY DEF Slot
<1>3. ASSUME NEW bufs \in {buf, AfterBarrier}, NEW b \in Buffer, NEW i \in DOMAIN bufs[b],
             Picked(rdy, bufs, b, i), CheckReady(rows, rdy, bufs[b][i]),
             Eligible(bufs[b][i]),
             IssueUnlessVetoed(bufs, b, i)
      PROVE  NothingIssued \/ Issued(rdy, bufs, b, i)
  BY <1>3 DEF IssueUnlessVetoed, NothingIssued, Issued
<1>4. CASE ServeActive(rdy)
  <2>1. PICK i \in DOMAIN buf["active"] :
           i = BestRequest(rows, rdy, buf["active"]) /\ IssueUnlessVetoed(buf, "active", i)
    BY <1>4 DEF ServeActive
  <2>2. /\ isPim' = isPim /\ CheckReady(rows, rdy, buf["active"][i])
        /\ Eligible(buf["active"][i])
    BY <1>4, <2>1 DEF ServeActive, Offers
  <2> QED
    BY <1>1, <1>3, <2>1, <2>2 DEF Picked
<1>5. CASE ServePriority(rdy)
  <2>1. 1 \in DOMAIN buf["priority"] /\ Head(buf["priority"]) = buf["priority"][1]
    BY <1>5, UrgentHead DEF ServePriority, TypeOK
  <2>2. Picked(rdy, buf, "priority", 1) /\ Eligible(Head(buf["priority"]))
    BY <1>5 DEF ServePriority, Picked, Urgent
  <2> QED
    BY <1>1, <1>3, <1>5, <2>1, <2>2 DEF ServePriority
<1>6. CASE WaitForPriority(rdy)
  BY <1>6 DEF WaitForPriority, NothingIssued
<1>7. CASE ServePim(rdy)
  <2>1. PICK i \in DOMAIN AfterBarrier["pim"] :
           /\ i = BestRequest(rows, rdy, AfterBarrier["pim"])
           /\ IssueUnlessVetoed(AfterBarrier, "pim", i)
    BY <1>7 DEF ServePim
  <2>2. /\ isPim' = TRUE /\ CheckReady(rows, rdy, AfterBarrier["pim"][i])
        /\ Eligible(AfterBarrier["pim"][i])
    BY <1>7, <2>1 DEF ServePim, Offers
  <2> QED
    BY <1>1, <1>3, <2>1, <2>2 DEF Picked
<1>8. CASE ServeReadWrite(rdy)
  <2>1. Source \in {"read", "write"} /\ AfterBarrier[Source] = buf[Source]
        /\ Source \in Buffer
    BY <1>1 DEF Source, Buffer
  <2>2. PICK i \in DOMAIN buf[Source] :
           /\ i = BestRequest(rows, rdy, buf[Source])
           /\ IssueUnlessVetoed(AfterBarrier, Source, i)
    BY <1>8 DEF ServeReadWrite
  <2>3. isPim' = FALSE /\ CheckReady(rows, rdy, buf[Source][i])
        /\ ~Offers(buf["active"], rdy) /\ Eligible(buf[Source][i])
    BY <1>8, <2>2 DEF ServeReadWrite, ReachesReadWrite, ReachesPim, Offers
  <2>4. Picked(rdy, AfterBarrier, Source, i)
    BY <2>1, <2>2, <2>3 DEF Picked
  <2> HIDE DEF Source
  <2> QED
    BY <1>3, <2>1, <2>2, <2>3, <2>4
<1>9. CASE ServeNone(rdy)
  BY <1>9 DEF ServeNone, NothingIssued
<1> QED
  BY <1>2, <1>4, <1>5, <1>6, <1>7, <1>8, <1>9

(* What holds when the barrier at the front has been passed, or not.       *)
Done(bufs) == served \cup Passed(bufs)

LEMMA PassedInv ==
    ASSUME Inv, NEW bufs \in {buf, AfterBarrier}
    PROVE  /\ BuffersOK(bufs, sent) /\ sent \in Nat
           /\ Placed(bufs, Done(bufs)) /\ PimKept(bufs, Done(bufs))
           /\ Delivering(pending, Done(bufs), completed)
           /\ Kept(buf, served) => Kept(bufs, Done(bufs))
           /\ \A n \in Passed(bufs) :
                 /\ n \in (1..sent) \ served /\ trace[n].type = "pim-barrier"
                 /\ buf["pim"] # <<>> /\ buf["pim"][1].id = n
           /\ \A b \in LineBuffer \ {"pim"} : bufs[b] = buf[b]
<1>1. /\ BuffersOK(buf, sent) /\ sent \in Nat
      /\ Placed(buf, served) /\ PimKept(buf, served)
      /\ Delivering(pending, served, completed)
  BY SystemAssumption, LenProperties DEF Inv, TypeOK, ControllerOK, SystemAssumption
<1>2. BuffersOK(AfterBarrier, sent) /\ \A b \in Buffer \ {"pim"} : AfterBarrier[b] = buf[b]
  BY <1>1, PassBarrierType
<1>3. \A b \in LineBuffer \ {"pim"} : bufs[b] = buf[b]
  BY <1>2 DEF LineBuffer, Buffer
<1>4. CASE bufs = buf
  BY <1>1, <1>4, BarrierPassed DEF Done
<1>5. CASE bufs = AfterBarrier /\ ~FrontBarrier(buf["pim"])
  <2>1. bufs = buf
    BY <1>1, <1>5, BarrierPassed
  <2> QED
    BY <1>4, <2>1
<1>6. CASE bufs = AfterBarrier /\ FrontBarrier(buf["pim"])
  <2> DEFINE q == buf["pim"][1]
  <2>1. /\ 1 \in DOMAIN buf["pim"] /\ q.type = "pim-barrier" /\ "pim" \in LineBuffer
        /\ AfterBarrier = [buf EXCEPT !["pim"] = RemoveAt(@, 1)]
        /\ Passed(AfterBarrier) = {q.id}
    BY <1>1, <1>6, BarrierPassed DEF LineBuffer
  <2>2. /\ Placed(AfterBarrier, served) /\ Absent(AfterBarrier, q.id)
        /\ Placed(AfterBarrier, served \cup {q.id})
        /\ OthersStay(buf, AfterBarrier, q.id)
    BY <1>1, <2>1, RemovedPlaced
  <2>3. q.id \in 1..sent /\ q.id \notin served /\ trace[q.id].type = "pim-barrier"
    <3>1. q.id \in 1..sent
      BY <1>1, <2>1, LineBuffers
    <3>2. StandsForLine(q) /\ q.id \notin served
      BY <1>1, <2>1 DEF Placed, RightKind
    <3> QED
      BY <2>1, <3>1, <3>2 DEF StandsForLine
  <2>4. Done(bufs) = served \cup {q.id} /\ Passed(bufs) = {q.id}
    BY <1>6, <2>1 DEF Done
  <2> HIDE DEF q
  <2>5. PimKept(bufs, Done(bufs))
    BY <1>1, <1>6, <2>1, <2>2, <2>4 DEF PimKept, OthersStay
  <2>6. Kept(buf, served) => Kept(bufs, Done(bufs))
    BY <1>6, <2>2, <2>4 DEF Kept, OthersStay
  <2>7. Delivering(pending, Done(bufs), completed)
    BY <1>1, <2>3, <2>4, ServedOther
  <2>8. buf["pim"] # <<>> /\ buf["pim"][1].id = q.id
    BY <1>6 DEF FrontBarrier, q
  <2> QED
    BY <1>1, <1>2, <1>3, <1>6, <2>2, <2>3, <2>4, <2>5, <2>6, <2>7, <2>8
<1> QED
  BY <1>4, <1>5, <1>6

(***************************************************************************)
(* What the three outcomes of an issue do to the lines: the request leaves *)
(* served, moves to the active buffer (or is dropped, that buffer being    *)
(* full), or stays.                                                        *)
(***************************************************************************)
Overfull(bufs, b, i) ==
    /\ Len(bufs["active"]) >= ActiveSize /\ ~isPim'
    /\ Cmd(rows, bufs[b][i]) \in Opening

LEMMA RefreshIssued ==
    ASSUME Inv, NEW bufs \in {buf, AfterBarrier}, NEW i \in DOMAIN bufs["priority"],
           Issue(bufs, "priority", i)
    PROVE  /\ served' = Done(bufs) /\ pending' = pending
           /\ \A c \in LineBuffer : buf'[c] = bufs[c]
<1>1. BuffersOK(bufs, sent) /\ "priority" \in Buffer
  BY PassedInv DEF Buffer
<1>2. bufs["priority"][i] \in Refreshes
  BY <1>1, BufferedRequest
<1>3. /\ bufs["priority"][i].id = 0 /\ bufs["priority"][i].type # "read"
      /\ Cmd(rows, bufs["priority"][i]) \notin Opening
  BY <1>2, RefreshCommand
<1>4. \A c \in LineBuffer : c \in Buffer /\ c # "priority"
  BY DEF LineBuffer, Buffer
<1>5. bufs = [c \in Buffer |-> bufs[c]]
  BY <1>1 DEF BuffersOK
<1> QED
  BY <1>3, <1>4, <1>5 DEF Issue, Done

LEMMA IssuedInv ==
    ASSUME Inv, NEW bufs \in {buf, AfterBarrier}, NEW b \in Buffer,
           NEW i \in DOMAIN bufs[b], Issue(bufs, b, i), b = "pim" => isPim'
    PROVE  /\ Placed(buf', served') /\ PimKept(buf', served')
           /\ Delivering(pending', served', completed')
           /\ Kept(buf, served) /\ ~Overfull(bufs, b, i) => Kept(buf', served')
           /\ \/ served' = Done(bufs)
              \/ /\ b # "priority" /\ Cmd(rows, bufs[b][i]) = Final(bufs[b][i])
                 /\ bufs[b][i].id \in (1..sent) \ Done(bufs)
                 /\ served' = Done(bufs) \cup {bufs[b][i].id}
<1> DEFINE q == bufs[b][i]
           done == Done(bufs)
<1>1. /\ BuffersOK(bufs, sent) /\ sent \in Nat /\ Placed(bufs, done) /\ PimKept(bufs, done)
      /\ Delivering(pending, done, completed)
      /\ Kept(buf, served) => Kept(bufs, done)
  BY PassedInv
<1>2. completed' = completed
  BY DEF Issue
<1>3. CASE b = "priority"
  <2>1. /\ served' = done /\ pending' = pending
        /\ \A c \in LineBuffer : buf'[c] = bufs[c]
    BY <1>3, RefreshIssued
  <2>2. /\ Placed(bufs, done) => Placed(buf', done)
        /\ PimKept(bufs, done) => PimKept(buf', done)
        /\ Kept(bufs, done) => Kept(buf', done)
    BY <2>1, SameLines
  <2> QED
    BY <1>1, <1>2, <2>1, <2>2
<1>4. CASE b # "priority"
  <2>1. /\ b \in LineBuffer /\ q \in Requests(sent)
    BY <1>1, <1>4, BufferedRequest DEF LineBuffer, Buffer
  <2>2. /\ q.id \in 1..sent /\ q.id \notin done /\ StandsForLine(q) /\ q.type \in TypesOf(b)
        /\ {q.id} \ {0} = {q.id}
    BY <1>1, <2>1 DEF Requests, Placed, RightKind
  <2>3. CASE /\ Cmd(rows, q) = Final(q)
             /\ buf' = [bufs EXCEPT ![b] = RemoveAt(@, i)]
             /\ pending' = IF q.type = "read"
                           THEN Append(pending, [req |-> q, left |-> ReadLatency])
                           ELSE pending
             /\ served' = done \cup {q.id}
    <3>1. /\ Placed(buf', served') /\ Absent(buf', q.id) /\ OthersStay(bufs, buf', q.id)
      BY <1>1, <2>1, <2>3, RemovedPlaced
    <3>2. Delivering(pending', served', completed')
      <4>1. CASE q.type = "read"
        <5> DEFINE d == [req |-> q, left |-> ReadLatency]
        <5>1. d \in Delivery(sent) /\ pending \in Seq(Delivery(sent))
          BY <2>1, ControllerAssumption
             DEF Delivery, ControllerAssumption, Inv, TypeOK, ControllerOK
        <5>2. d.req.id = q.id /\ trace[q.id].type = "read"
          BY <2>2, <4>1 DEF StandsForLine
        <5>3. pending' = Append(pending, d)
          BY <2>3, <4>1
        <5> HIDE DEF d, q
        <5>4. Delivering(Append(pending, d), done \cup {d.req.id}, completed)
          BY <1>1, <2>2, <5>1, <5>2, ServedRead
        <5> QED
          BY <1>2, <2>3, <5>2, <5>3, <5>4
      <4>2. CASE q.type # "read"
        BY <1>1, <1>2, <2>2, <2>3, <4>2, ServedOther DEF StandsForLine
      <4> QED
        BY <4>1, <4>2
    <3>3. PimKept(buf', served')
      <4>1. "pim" \in LineBuffer
        BY DEF LineBuffer
      <4> HIDE DEF q, done
      <4> QED
        BY <1>1, <2>3, <3>1, <4>1 DEF PimKept, OthersStay
    <3>4. Kept(bufs, done) => Kept(buf', served')
      <4> HIDE DEF q, done
      <4> QED
        BY <2>3, <3>1 DEF Kept, OthersStay
    <3> QED
      BY <1>1, <1>4, <2>2, <2>3, <3>1, <3>2, <3>3, <3>4
  <2> DEFINE activated == IF Len(bufs["active"]) < ActiveSize
                          THEN [bufs EXCEPT !["active"] = Append(@, q)] ELSE bufs
  <2>4. CASE /\ Cmd(rows, q) # Final(q) /\ Cmd(rows, q) \in Opening /\ ~isPim'
             /\ buf' = [activated EXCEPT ![b] = RemoveAt(@, i)]
             /\ served' = done /\ pending' = pending
    <3>1. b # "pim" /\ q.type \in {"read", "write"}
      BY <2>1, <2>2, <2>4 DEF TypesOf, LineBuffer
    <3>2. CASE Len(bufs["active"]) < ActiveSize
      <4> DEFINE after == buf'
      <4>1. Moved(after, bufs, b, i)
        BY <2>4, <3>2 DEF Moved
      <4> HIDE DEF after
      <4>2. /\ Placed(after, done)
            /\ \A n : Holds(bufs, "pim", n) => Holds(after, "pim", n)
            /\ \A n : (\E c \in LineBuffer : Holds(bufs, c, n))
                         => \E c \in LineBuffer : Holds(after, c, n)
        BY <1>1, <2>1, <3>1, <4>1, MovedPlaced
      <4>3. PimKept(after, done) /\ (Kept(bufs, done) => Kept(after, done))
        <5> HIDE DEF done
        <5> QED
          BY <1>1, <4>2 DEF PimKept, Kept
      <4> QED
        BY <1>1, <1>2, <2>4, <4>2, <4>3 DEF after
    <3>3. CASE ~(Len(bufs["active"]) < ActiveSize)
      <4>1. buf' = [bufs EXCEPT ![b] = RemoveAt(@, i)]
        BY <2>4, <3>3
      <4>2. Placed(buf', done) /\ OthersStay(bufs, buf', q.id)
        BY <1>1, <2>1, <4>1, RemovedPlaced
      <4>3. PimKept(buf', done)
        <5>1. trace[q.id].type \notin PimType
          BY <2>2, <3>1 DEF StandsForLine, PimType
        <5>2. "pim" \in LineBuffer
          BY DEF LineBuffer
        <5> HIDE DEF q, done
        <5> QED
          BY <1>1, <4>2, <5>1, <5>2 DEF PimKept, OthersStay
      <4>4. Overfull(bufs, b, i)
        <5>1. Len(bufs["active"]) \in Nat /\ ActiveSize \in Nat
          BY <1>1, LineBuffers, ControllerAssumption DEF ControllerAssumption, LineBuffer
        <5> QED
          BY <2>4, <3>3, <5>1 DEF Overfull
      <4> QED
        BY <1>1, <1>2, <2>4, <4>2, <4>3, <4>4
    <3> QED
      BY <3>2, <3>3
  <2>5. CASE buf' = bufs /\ served' = done /\ pending' = pending
    BY <1>1, <1>2, <2>5
  <2> QED
    BY <2>2, <2>3, <2>4, <2>5 DEF Issue, Done
<1> QED
  BY <1>3, <1>4

(* The oldest read of pending is completed, the others only age.           *)
LEMMA ReadCompleted ==
    ASSUME Inv, ServeCompletedReads
    PROVE  /\ Delivering(pending', served, completed')
           /\ \/ completed' = completed
              \/ \E n \in served \ completed : /\ trace[n].type = "read"
                                               /\ completed' = completed \cup {n}
<1> DEFINE older(d) == [d EXCEPT !.left = IF @ = 0 THEN 0 ELSE @ - 1]
           aged == [i \in DOMAIN pending |-> older(pending[i])]
           n == Len(pending)
<1>1. /\ pending \in Seq(Delivery(sent)) /\ n \in Nat /\ DOMAIN pending = 1..n
      /\ \A i \in 1..n : pending[i] \in Delivery(sent)
      /\ Delivering(pending, served, completed)
      /\ pending # <<>> => n # 0
  BY LenProperties, ElementOfSeq, EmptySeq DEF Inv, TypeOK, ControllerOK
<1>2. \A d \in Delivery(sent) : older(d) \in Delivery(sent) /\ older(d).req = d.req
  BY ControllerAssumption DEF Delivery, ControllerAssumption
<1>3. /\ aged \in Seq(Delivery(sent)) /\ Len(aged) = n /\ DOMAIN aged = 1..n
      /\ \A i \in 1..n : aged[i].req = pending[i].req
  <2>1. aged \in [1..n -> Delivery(sent)] /\ \A i \in 1..n : aged[i].req = pending[i].req
    <3> HIDE DEF older, n
    <3> QED
      BY <1>1, <1>2
  <2>2. DOMAIN aged = 1..n
    BY <1>1
  <2> HIDE DEF aged, n
  <2>3. aged \in Seq(Delivery(sent))
    BY <1>1, <2>1, SeqDef
  <2> QED
    BY <1>1, <2>1, <2>2, <2>3, LenProperties
<1>4. \/ pending' = aged /\ completed' = completed
      \/ /\ pending # <<>> /\ pending' = Tail(aged)
         /\ completed' = completed \cup {aged[1].req.id}
  BY DEF ServeCompletedReads
<1> HIDE DEF aged, n
<1>5. CASE pending' = aged /\ completed' = completed
  BY <1>1, <1>3, <1>5 DEF Delivering
<1>6. CASE /\ pending # <<>> /\ pending' = Tail(aged)
           /\ completed' = completed \cup {aged[1].req.id}
  <2> DEFINE done == pending[1].req.id
  <2>1. 1 \in 1..n /\ aged # <<>> /\ aged[1].req.id = done
    <3>1. 1 \in 1..n
      BY <1>1, <1>6
    <3> QED
      BY <1>3, <3>1, EmptySeq
  <2>2. /\ DOMAIN Tail(aged) = 1..n-1
        /\ \A i \in 1..n-1 : i + 1 \in 1..n /\ Tail(aged)[i].req = pending[i+1].req
    <3>1. /\ Tail(aged) \in Seq(Delivery(sent)) /\ Len(Tail(aged)) = n - 1
          /\ \A i \in 1..n-1 : Tail(aged)[i] = aged[i+1]
      BY <1>3, <2>1, HeadTailProperties
    <3>2. DOMAIN Tail(aged) = 1..n-1
      BY <3>1, LenProperties
    <3>3. \A i \in 1..n-1 : i + 1 \in 1..n
      BY <1>1
    <3> QED
      BY <1>3, <3>1, <3>2, <3>3
  <2>3. done \in served \ completed /\ trace[done].type = "read"
    BY <1>1, <2>1 DEF Delivering
  <2>4. \A i \in 1..n-1 : pending[i+1].req.id # done
    <3>1. \A i \in 1..n-1 : i + 1 # 1
      BY <1>1
    <3> QED
      BY <1>1, <2>1, <2>2, <3>1 DEF Delivering
  <2>5. \A i, j \in 1..n-1 : pending[i+1].req.id = pending[j+1].req.id => i = j
    <3>1. \A i, j \in 1..n-1 : i + 1 = j + 1 => i = j
      BY <1>1
    <3> QED
      BY <1>1, <2>2, <3>1 DEF Delivering
  <2>6. \A k \in 1..n : k # 1 => \E i \in 1..n-1 : k = i + 1
    <3> SUFFICES ASSUME NEW k \in 1..n, k # 1 PROVE \E i \in 1..n-1 : k = i + 1
      OBVIOUS
    <3>1. k - 1 \in 1..n-1 /\ k = (k - 1) + 1
      BY <1>1
    <3> QED
      BY <3>1
  <2>7. completed' = completed \cup {done}
    BY <1>6, <2>1
  <2> HIDE DEF done
  <2>8. ASSUME NEW m \in served, m \notin completed', trace[m].type = "read"
        PROVE  \E i \in DOMAIN pending' : pending'[i].req.id = m
    <3>1. m \notin completed /\ m # done
      BY <2>7, <2>8
    <3>2. PICK k \in 1..n : pending[k].req.id = m
      BY <1>1, <2>8, <3>1 DEF Delivering
    <3>3. k # 1
      BY <3>1, <3>2 DEF done
    <3>4. PICK i \in 1..n-1 : k = i + 1
      BY <2>6, <3>3
    <3> QED
      BY <1>6, <2>2, <3>2, <3>4
  <2>9. \A i \in 1..n-1 : /\ pending[i+1].req.id \in served \ completed'
                          /\ trace[pending[i+1].req.id].type = "read"
    BY <1>1, <2>2, <2>4, <2>7 DEF Delivering
  <2>10. completed' \subseteq served
    BY <1>1, <2>3, <2>7 DEF Delivering
  <2>11. \A i, j \in DOMAIN pending' : pending'[i].req.id = pending'[j].req.id => i = j
    <3>1. /\ DOMAIN pending' = 1..n-1
          /\ \A i \in 1..n-1 : pending'[i].req.id = pending[i+1].req.id
      BY <1>6, <2>2
    <3> QED
      BY <2>5, <3>1
  <2>12. \A i \in DOMAIN pending' : /\ pending'[i].req.id \in served \ completed'
                                    /\ trace[pending'[i].req.id].type = "read"
    BY <1>6, <2>2, <2>9
  <2> QED
    BY <2>3, <2>7, <2>8, <2>10, <2>11, <2>12 DEF Delivering
<1> QED
  BY <1>4, <1>5, <1>6

(***************************************************************************)
(* The frontend: a line sent is forwarded, served at once, or appended to  *)
(* the buffer of its kind, behind all lines sent before.                   *)
(***************************************************************************)
LEMMA SentInv ==
    ASSUME Inv, FrontendSend
    PROVE  Inv' /\ (Kept(buf, served) => Kept(buf, served)')
<1> DEFINE q == Request(sent + 1)
<1>1. /\ trace \in Seq(TraceLine) /\ sent \in Nat /\ burst \in 0..sent
      /\ BuffersOK(buf, sent) /\ served \subseteq 1..sent
      /\ pending \in Seq(Delivery(sent))
      /\ Placed(buf, served) /\ PimKept(buf, served)
      /\ Delivering(pending, served, completed)
  BY SystemAssumption, LenProperties DEF Inv, TypeOK, ControllerOK, SystemAssumption
<1>2. /\ sent' = sent + 1 /\ sent + 1 \in 1..Len(trace) /\ trace' = trace /\ burst' = burst
      /\ completed' = completed /\ (Forward(q) \/ Enqueue(q))
  BY <1>1, LenProperties DEF FrontendSend, Finished, Send, Inv, TypeOK
<1>3. /\ trace[sent + 1] \in TraceLine /\ q.id = sent + 1
      /\ q.type = trace[sent + 1].type /\ StandsForLine(q) /\ q.arrive = burst
  <2>1. trace[sent + 1] \in TraceLine
    BY <1>1, <1>2, ElementOfSeq
  <2> QED
    BY <1>1, <2>1 DEF Request, StandsForLine
<1>4. \A b \in LineBuffer : \A i \in DOMAIN buf[b] :
          buf[b][i].id \in 1..sent /\ buf[b][i].arrive \in Nat
  BY <1>1, LineBuffers
<1>5. sent + 1 \notin 1..sent /\ \A n \in 1..sent + 1 : n = sent + 1 \/ n \in 1..sent
  BY <1>1
<1>6. Absent(buf, q.id) /\ q.id \notin served
  BY <1>1, <1>3, <1>4, <1>5 DEF Absent, Holds
<1>7. TypeOK'
  BY SendType DEF Inv
<1> HIDE DEF q
<1>8. CASE Forward(q)
  <2>1. /\ buf' = buf /\ q.type = "read" /\ served' = served \cup {q.id}
        /\ pending' = Append(pending, [req |-> [q EXCEPT !.arrive = -1], left |-> 1])
    BY <1>8 DEF Forward, Forwarded
  <2> DEFINE d == [req |-> [q EXCEPT !.arrive = -1], left |-> 1]
  <2>2. d.req.id = q.id /\ trace[q.id].type = "read"
    BY <1>3, <2>1 DEF q, Request
  <2>3. Delivering(pending', served', completed')
    <3>1. pending' = Append(pending, d)
      BY <2>1
    <3>2. pending \in Seq(Delivery(sent) \cup {d}) /\ d \in Delivery(sent) \cup {d}
      BY <1>1, SeqMonotonic
    <3> HIDE DEF d
    <3>3. Delivering(Append(pending, d), served \cup {d.req.id}, completed)
      BY <1>1, <1>6, <2>2, <3>2, ServedRead
    <3> QED
      BY <1>2, <2>1, <2>2, <3>1, <3>3
  <2>4. Placed(buf, served')
    BY <1>1, <1>6, <2>1 DEF Placed, RightKind, Absent, Holds
  <2>5. PimKept(buf, served)'
    <3>1. \A n \in 1..sent + 1 : n \notin served' => n \in 1..sent /\ n \notin served
      BY <1>3, <1>5, <2>1
    <3> QED
      BY <1>1, <1>2, <2>1, <3>1 DEF PimKept, Holds
  <2>6. Kept(buf, served) => Kept(buf, served)'
    <3>1. \A n \in 1..sent + 1 : n \notin served' => n \in 1..sent /\ n \notin served
      BY <1>3, <1>5, <2>1
    <3> QED
      BY <1>2, <2>1, <3>1 DEF Kept, Holds
  <2> QED
    BY <1>2, <1>7, <2>1, <2>3, <2>4, <2>5, <2>6
       DEF Inv, Placed, RightKind, InOrder, OnePlace, StandsForLine, Delivering
<1>9. CASE Enqueue(q)
  <2> DEFINE b == Home(q)
  <2>1. /\ buf' = [buf EXCEPT ![b] = Append(@, q)]
        /\ served' = served /\ pending' = pending
    BY <1>9 DEF Enqueue
  <2>2. b \in LineBuffer /\ b \in Queue /\ q.type \in TypesOf(b)
        /\ (q.type \in PimType => b = "pim")
    BY <1>3 DEF Home, LineBuffer, Queue, TypesOf, TraceLine, PimType
  <2> HIDE DEF b
  <2>3. Newest(buf, b, q)
    <3> SUFFICES ASSUME NEW i \in DOMAIN buf[b]
                 PROVE  buf[b][i].id < q.id /\ buf[b][i].arrive <= q.arrive
      BY DEF Newest
    <3>1. buf[b][i].id \in 1..sent /\ StandsForLine(buf[b][i])
      BY <1>1, <1>4, <2>2 DEF Placed, RightKind
    <3> QED
      BY <1>1, <1>3, <3>1 DEF StandsForLine
  <2> DEFINE longer == buf'
  <2>4. Appended(longer, buf, b, q)
    BY <2>1 DEF Appended
  <2> HIDE DEF longer
  <2>5. Placed(longer, served) /\ Holds(longer, b, q.id) /\ OthersStay(buf, longer, q.id)
    BY <1>1, <1>3, <1>6, <2>2, <2>3, <2>4, AppendedPlaced
  <2>6. \A c \in LineBuffer : \A n : Holds(buf, c, n) => Holds(longer, c, n)
    BY <2>5, <1>6 DEF OthersStay, Absent
  <2>7. PimKept(buf, served)'
    <3> SUFFICES ASSUME NEW n \in 1..sent + 1, n \notin served, trace[n].type \in PimType
                 PROVE  Holds(longer, "pim", n)
      BY <1>2, <2>1 DEF PimKept, Holds, longer
    <3>1. CASE n = sent + 1
      BY <1>3, <2>2, <2>5, <3>1
    <3>2. CASE n \in 1..sent
      <4>1. "pim" \in LineBuffer
        BY DEF LineBuffer
      <4> QED
        BY <1>1, <2>6, <3>2, <4>1 DEF PimKept
    <3> QED
      BY <1>5, <3>1, <3>2
  <2>8. Kept(buf, served) => Kept(buf, served)'
    <3> SUFFICES ASSUME Kept(buf, served), NEW n \in 1..sent + 1, n \notin served
                 PROVE  \E c \in LineBuffer : Holds(longer, c, n)
      BY <1>2, <2>1 DEF Kept, Holds, longer
    <3>1. CASE n = sent + 1
      BY <1>3, <2>2, <2>5, <3>1
    <3>2. CASE n \in 1..sent
      BY <2>6, <3>2 DEF Kept
    <3> QED
      BY <1>5, <3>1, <3>2
  <2> QED
    <3>1. Placed(buf, served)'
      BY <1>2, <2>1, <2>5, SMTT(30)
         DEF Placed, RightKind, InOrder, OnePlace, StandsForLine, longer
    <3>2. Delivering(pending, served, completed)'
      BY <1>1, <1>2, <2>1 DEF Delivering
    <3> QED
      BY <1>7, <2>7, <2>8, <3>1, <3>2 DEF Inv
<1> QED
  BY <1>2, <1>8, <1>9

(***************************************************************************)
(* The invariant, step by step.  Dropping an activation is the only step   *)
(* that loses a line.                                                      *)
(***************************************************************************)
LEMMA SlotInv ==
    ASSUME Inv, MemorySlot
    PROVE  /\ Inv'
           /\ Kept(buf, served) => \/ Kept(buf, served)'
                                   \/ \E rdy, bufs, b, i : /\ Issued(rdy, bufs, b, i)
                                                           /\ Overfull(bufs, b, i)
<1>1. /\ trace' = trace /\ sent' = sent /\ burst' = burst /\ Slot /\ TypeOK
      /\ BuffersOK(buf, sent)
  BY DEF MemorySlot, Inv, TypeOK, ControllerOK
<1>2. TypeOK'
  BY <1>1, NextType DEF Next
<1>3. ASSUME /\ Placed(buf', served') /\ PimKept(buf', served')
             /\ Delivering(pending', served', completed')
      PROVE  Inv'
  <2>1. Placed(buf, served)'
    BY <1>1, <1>3 DEF Placed, RightKind, InOrder, OnePlace, StandsForLine
  <2>2. PimKept(buf, served)'
    BY <1>1, <1>3 DEF PimKept, Holds
  <2>3. Delivering(pending, served, completed)'
    BY <1>1, <1>3 DEF Delivering
  <2> QED
    BY <1>2, <2>1, <2>2, <2>3 DEF Inv
<1>4. Kept(buf', served') => Kept(buf, served)'
  BY <1>1 DEF Kept, Holds
<1>5. CASE NothingIssued
  <2>1. PICK bufs \in {buf, AfterBarrier} :
           /\ buf' = bufs /\ served' = Done(bufs)
           /\ pending' = pending /\ completed' = completed
    BY <1>5 DEF NothingIssued, NoIssue, Done
  <2>2. /\ Placed(bufs, Done(bufs)) /\ PimKept(bufs, Done(bufs))
        /\ Delivering(pending, Done(bufs), completed)
        /\ Kept(buf, served) => Kept(bufs, Done(bufs))
    BY PassedInv
  <2> QED
    BY <1>3, <1>4, <2>1, <2>2
<1>6. ASSUME NEW rdy, NEW bufs, NEW b, NEW i, Issued(rdy, bufs, b, i)
      PROVE  Inv' /\ (Kept(buf, served) /\ ~Overfull(bufs, b, i) => Kept(buf, served)')
  <2>1. /\ bufs \in {buf, AfterBarrier} /\ b \in Buffer /\ i \in DOMAIN bufs[b]
        /\ Issue(bufs, b, i) /\ (b = "pim" => isPim')
    BY <1>6 DEF Issued, Picked
  <2>2. /\ Placed(buf', served') /\ PimKept(buf', served')
        /\ Delivering(pending', served', completed')
        /\ Kept(buf, served) /\ ~Overfull(bufs, b, i) => Kept(buf', served')
    BY <2>1, IssuedInv
  <2> QED
    BY <1>3, <1>4, <2>2
<1> QED
  BY <1>1, <1>5, <1>6, SlotOutcome

LEMMA CycleInv ==
    ASSUME Inv, MemoryCycle \/ MemoryCycleWithRefresh
    PROVE  Inv' /\ (Kept(buf, served) => Kept(buf, served)')
<1>1. /\ trace' = trace /\ sent' = sent /\ burst' = burst /\ StartCycle
      /\ TypeOK /\ served' = served
  BY DEF MemoryCycle, Cycle, MemoryCycleWithRefresh, CycleWithRefresh, RefreshFails,
         StartCycle, Inv
<1>2. TypeOK'
  BY <1>1, NextType DEF Next
<1>3. \A b \in LineBuffer : buf'[b] = buf[b]
  <2>1. \A b \in LineBuffer : b \in Buffer /\ b # "priority"
    BY DEF LineBuffer, Buffer
  <2> QED
    BY <1>1, <2>1 DEF MemoryCycle, Cycle, MemoryCycleWithRefresh, CycleWithRefresh,
                      RefreshFails, TypeOK, ControllerOK, BuffersOK
<1>4. /\ Placed(buf', served) /\ PimKept(buf', served)
      /\ Kept(buf, served) => Kept(buf', served)
  BY <1>3, SameLines DEF Inv
<1>5. Delivering(pending', served, completed')
  BY <1>1, ReadCompleted DEF StartCycle
<1>6. Placed(buf, served)'
  BY <1>1, <1>4 DEF Placed, RightKind, InOrder, OnePlace, StandsForLine
<1>7. PimKept(buf, served)' /\ (Kept(buf', served) => Kept(buf, served)')
  BY <1>1, <1>4 DEF PimKept, Kept, Holds
<1>8. Delivering(pending, served, completed)'
  BY <1>1, <1>5 DEF Delivering
<1> QED
  BY <1>2, <1>4, <1>6, <1>7, <1>8 DEF Inv

LEMMA InitInv == Init => Inv /\ Kept(buf, served)
<1> SUFFICES ASSUME Init PROVE Inv /\ Kept(buf, served)
  OBVIOUS
<1>1. /\ TypeOK /\ buf = [b \in Buffer |-> <<>>] /\ pending = <<>> /\ served = {}
      /\ completed = {} /\ sent = 0
  BY InitType DEF Init, ControllerInit
<1>2. LineBuffer \subseteq Buffer /\ Queue \subseteq Buffer
  BY DEF LineBuffer, Queue, Buffer
<1>3. Placed(buf, served)
  BY <1>1, <1>2 DEF Placed, RightKind, InOrder, OnePlace
<1>4. PimKept(buf, served) /\ Delivering(pending, served, completed) /\ Kept(buf, served)
  BY <1>1 DEF PimKept, Delivering, Kept
<1> QED
  BY <1>1, <1>3, <1>4 DEF Inv

(* A frontend tick that ends, and a step that changes nothing. *)
LEMMA IdleInv ==
    ASSUME Inv, FrontendDone \/ UNCHANGED vars
    PROVE  Inv' /\ (Kept(buf, served) => Kept(buf, served)')
<1>1. /\ trace' = trace /\ sent' = sent /\ buf' = buf /\ served' = served
      /\ pending' = pending /\ completed' = completed
      /\ burst \in 0..sent /\ burst' \in {burst, sent} /\ TypeOK /\ sent \in Nat
      /\ BuffersOK(buf, sent)
  BY SystemAssumption, LenProperties
     DEF FrontendDone, ctrl, vars, Inv, TypeOK, ControllerOK, SystemAssumption
<1>2. TypeOK'
  BY <1>1, NextType DEF Next
<1>3. \A b \in LineBuffer : \A i \in DOMAIN buf[b] :
         StandsForLine(buf[b][i]) => StandsForLine(buf[b][i])'
  BY <1>1, LineBuffers DEF StandsForLine
<1>4. Placed(buf, served)'
  BY <1>1, <1>3 DEF Inv, Placed, RightKind, InOrder, OnePlace
<1>5. /\ PimKept(buf, served)' /\ Delivering(pending, served, completed)'
      /\ Kept(buf, served) => Kept(buf, served)'
  BY <1>1 DEF Inv, PimKept, Holds, Delivering, Kept
<1> QED
  BY <1>2, <1>4, <1>5 DEF Inv

LEMMA NextInv ==
    ASSUME Inv, [Next]_vars
    PROVE  Inv'
  BY SentInv, CycleInv, SlotInv, IdleInv DEF Next, Terminated

THEOREM LinesInPlace == Spec => []Inv
  BY InitInv, NextInv, PTL DEF Spec

----------------------------------------------------------------------------
(***************************************************************************)
(* The order of barriers.  Every PIM line served has all PIM lines before  *)
(* the last barrier served; a slot keeps it so: what it chooses from the   *)
(* PIM buffer lies before the first barrier not passed yet.                *)
(***************************************************************************)
OrderKept(done) ==
    \A n \in done : \A m \in 1..n : Service!Separated(m, n) => m \in done

(* The commands of a barrier, and those of a line to be served. *)
LEMMA FinalCommands ==
    ASSUME NEW q
    PROVE  /\ q.type = "pim-barrier" => Cmd(rows, q) = "BARRIER"
           /\ q.type \in {"read", "write"} \cup PimType =>
                 Final(q) \notin Opening \cup Closing
<1>1. Translation["pim-barrier"] = "BARRIER"
  BY DEF Translation, PimType
<1>2. "BARRIER" \notin RowAccess
  BY DEF RowAccess
<1>3. q.type = "pim-barrier" => Cmd(rows, q) = "BARRIER"
  BY <1>1, <1>2 DEF Cmd, PreqCommand
<1>4. \A t \in {"read", "write"} \cup PimType : Translation[t] \notin Opening \cup Closing
  BY DEF Translation, PimType, Opening, Closing
<1> QED
  BY <1>3, <1>4 DEF Final

(* A barrier waits for no timing constraint. *)
LEMMA BarrierReady ==
    ASSUME TypeOK, NEW rdy \in Readiness, NEW i \in DOMAIN AfterBarrier["pim"],
           AfterBarrier["pim"][i].type = "pim-barrier"
    PROVE  CheckReady(rows, rdy, AfterBarrier["pim"][i])
<1> DEFINE q == AfterBarrier["pim"][i]
<1>1. /\ buf["pim"] \in Seq(Requests(sent)) /\ "pim" \in Buffer
      /\ buf = [b \in Buffer |-> buf[b]]
  BY DEF TypeOK, ControllerOK, BuffersOK, Contents, Buffer
<1>2. q \in ToSet(buf["pim"])
  <2>1. AfterBarrier["pim"] = PassBarrier(buf["pim"])
    BY <1>1 DEF AfterBarrier
  <2>2. CASE FrontBarrier(buf["pim"])
    <3>1. /\ Tail(buf["pim"]) \in Seq(Requests(sent))
          /\ Len(Tail(buf["pim"])) = Len(buf["pim"]) - 1 /\ Len(buf["pim"]) \in Nat
          /\ \A j \in 1..Len(Tail(buf["pim"])) : Tail(buf["pim"])[j] = buf["pim"][j+1]
      BY <1>1, <2>2, HeadTailProperties, LenProperties DEF FrontBarrier
    <3>2. DOMAIN Tail(buf["pim"]) = 1..Len(buf["pim"]) - 1
          /\ DOMAIN buf["pim"] = 1..Len(buf["pim"])
      BY <1>1, <3>1, LenProperties
    <3>3. AfterBarrier["pim"] = Tail(buf["pim"])
      BY <2>1, <2>2 DEF PassBarrier
    <3>4. i \in 1..Len(buf["pim"]) - 1 /\ i + 1 \in 1..Len(buf["pim"])
      BY <3>1, <3>2, <3>3
    <3> QED
      BY <3>1, <3>2, <3>3, <3>4 DEF ToSet
  <2>3. CASE ~FrontBarrier(buf["pim"])
    BY <2>1, <2>3 DEF PassBarrier, ToSet
  <2> QED
    BY <2>2, <2>3
<1>3. <<Cmd(rows, q), q.bank>> \in Wanted
  BY <1>1, <1>2 DEF Wanted
<1>4. Cmd(rows, q) = "BARRIER"
  BY FinalCommands
<1> HIDE DEF q
<1>5. <<Cmd(rows, q), q.bank>> \in Unconstrained
  BY <1>3, <1>4 DEF Unconstrained
<1>6. Unconstrained \subseteq rdy
  BY DEF Readiness, Unconstrained
<1> QED
  BY <1>5, <1>6 DEF CheckReady, q

(* What a PIM buffer serves lies before its first barrier.                 *)
LEMMA PimInOrder ==
    ASSUME Inv, OrderKept(served), NEW rdy \in Readiness, NEW i,
           Issued(rdy, AfterBarrier, "pim", i),
           NEW q, q = AfterBarrier["pim"][i], Cmd(rows, q) = Final(q),
           NEW m \in 1..q.id, Service!Separated(m, q.id)
    PROVE  m \in Done(AfterBarrier)
<1> DEFINE s == AfterBarrier["pim"]
           done == Done(AfterBarrier)
<1>1. /\ BuffersOK(AfterBarrier, sent) /\ sent \in Nat
      /\ Placed(AfterBarrier, done) /\ PimKept(AfterBarrier, done)
      /\ \A n \in Passed(AfterBarrier) :
            /\ n \in (1..sent) \ served /\ trace[n].type = "pim-barrier"
            /\ buf["pim"] # <<>> /\ buf["pim"][1].id = n
      /\ "pim" \in LineBuffer /\ "pim" \in Queue
      /\ Placed(buf, served) /\ PimKept(buf, served) /\ BuffersOK(buf, sent)
      /\ "pim-barrier" \in PimType
  BY PassedInv DEF LineBuffer, Queue, Inv, TypeOK, ControllerOK, PimType
<1>2. /\ s \in Seq(Requests(sent)) /\ Len(s) \in Nat /\ DOMAIN s = 1..Len(s)
      /\ \A j \in DOMAIN s : s[j] \in Requests(sent) /\ s[j].id \in 1..sent
                             /\ s[j].arrive \in Nat
  BY <1>1, LineBuffers
<1>3. i \in DOMAIN s /\ i = BestRequest(rows, rdy, s)
  BY DEF Issued, Picked
<1>4. \A j, k \in DOMAIN s : j < k => s[j].id < s[k].id /\ s[j].arrive <= s[k].arrive
  BY <1>1 DEF Placed, InOrder
<1>5. \A j \in DOMAIN s : s[j].type = trace[s[j].id].type /\ s[j].id \notin done
  BY <1>1 DEF Placed, RightKind, StandsForLine
<1>6. PICK k \in m..q.id : trace[k].type = "pim-barrier"
  BY DEF Service!Separated
<1>7. m < q.id /\ trace[m].type \in PimType /\ q.id \in 1..sent /\ m \in 1..sent
  BY <1>1, <1>2, <1>3 DEF Service!Separated, Service!IsPim
<1> SUFFICES ASSUME m \notin done PROVE FALSE
  OBVIOUS
<1>8. PICK j \in DOMAIN s : s[j].id = m
  BY <1>1, <1>7 DEF PimKept, Holds
<1>9. k \in 1..sent /\ m <= k /\ k <= q.id
  <2>1. sent \in Nat
    BY <1>1
  <2> QED
    BY <1>6, <1>7, <2>1
<1>10. k \notin served
  <2>1. CASE k = m
    BY <2>1 DEF Done
  <2>2. CASE k # m
    <3>1. Service!Separated(m, k) /\ m \in 1..k
      <4>1. k \in m..k /\ m < k /\ m \in 1..k
        BY <1>7, <1>9, <2>2
      <4> QED
        BY <1>1, <1>6, <1>7, <4>1 DEF Service!Separated, Service!IsPim
    <3> QED
      BY <3>1 DEF OrderKept, Done
  <2> QED
    BY <2>1, <2>2
<1>11. k \notin Passed(AfterBarrier)
  <2> SUFFICES ASSUME k \in Passed(AfterBarrier) PROVE FALSE
    OBVIOUS
  <2>1. buf["pim"] # <<>> /\ buf["pim"][1].id = k
    BY <1>1
  <2>2. k # m
    BY DEF Done
  <2>3. m \notin served
    BY DEF Done
  <2>4. PICK l \in DOMAIN buf["pim"] : buf["pim"][l].id = m
    BY <1>1, <1>7, <2>3 DEF PimKept, Holds
  <2>5. /\ DOMAIN buf["pim"] = 1..Len(buf["pim"]) /\ Len(buf["pim"]) \in Nat
    BY <1>1, LineBuffers
  <2>6. 1 \in DOMAIN buf["pim"] /\ (l = 1 \/ 1 < l)
    BY <2>4, <2>5
  <2>7. l # 1
    BY <2>1, <2>2, <2>4
  <2>8. k < m
    BY <1>1, <2>1, <2>4, <2>6, <2>7 DEF Placed, InOrder
  <2> QED
    BY <1>7, <1>9, <2>8
<1>12. k \notin done
  BY <1>10, <1>11 DEF Done
<1>13. PICK l \in DOMAIN s : s[l].id = k
  BY <1>1, <1>6, <1>9, <1>12 DEF PimKept, Holds
<1>14. j < i /\ j <= l /\ l <= i
  <2>1. \A x, y \in DOMAIN s : s[x].id <= s[y].id => x <= y
    <3> SUFFICES ASSUME NEW x \in DOMAIN s, NEW y \in DOMAIN s, ~(x <= y)
                 PROVE  ~(s[x].id <= s[y].id)
      OBVIOUS
    <3>1. y < x
      BY <1>2
    <3>2. s[y].id < s[x].id /\ s[y].id \in Int /\ s[x].id \in Int
      BY <1>2, <1>4, <3>1
    <3> QED
      BY <3>2
  <2>2. s[i] = q
    OBVIOUS
  <2>3. j <= i /\ j <= l /\ l <= i /\ j # i
    BY <1>3, <1>7, <1>8, <1>9, <1>13, <2>1, <2>2
  <2> QED
    BY <1>2, <1>3, <2>3
<1>15. s[l].type = "pim-barrier"
  BY <1>5, <1>6, <1>13
<1>16. ~CheckReady(rows, rdy, s[1]) /\ Competes(rows, s, i)
  <2>1. s # <<>> /\ i # 1
    BY <1>2, <1>3, <1>14, EmptySeq
  <2>2. /\ \A x \in DOMAIN s : s[x].arrive \in Int
        /\ \A x, y \in DOMAIN s : x < y => s[x].arrive <= s[y].arrive
    BY <1>2, <1>4
  <2> HIDE DEF s
  <2>3. \/ BestRequest(rows, rdy, s) = 1
        \/ ~CheckReady(rows, rdy, s[1]) /\ Takes(rows, rdy, s, BestRequest(rows, rdy, s))
    BY <1>2, <2>1, <2>2, BestOfSorted
  <2> QED
    BY <1>3, <2>1, <2>3 DEF Takes
<1>17. \A x \in 2..i : s[x].type # "pim-barrier"
  <2>1. q.type \in {"read", "write"} \cup PimType
    BY <1>2, <1>3 DEF Requests
  <2>2. Cmd(rows, s[i]) \notin Opening \cup Closing
    BY <2>1, FinalCommands
  <2> QED
    BY <1>16, <2>2 DEF Competes
<1>18. l = 1
  <2>1. l \in 1..Len(s) /\ i \in 1..Len(s)
    BY <1>2, <1>3
  <2> HIDE DEF s
  <2> QED
    BY <1>2, <1>14, <1>15, <1>17, <2>1
<1>19. CheckReady(rows, rdy, s[l])
  BY <1>15, BarrierReady DEF Inv
<1> QED
  BY <1>16, <1>18, <1>19

(* A slot serves one line at most, and a barrier in passing, in order.     *)
InBarrierOrder(S) ==
    /\ S \subseteq (1..sent) \ served /\ served' = served \cup S
    /\ \A n \in S : \A m \in 1..n : Service!Separated(m, n) => m \in served \cup S
    /\ \A m, n \in S : m = n \/ trace[m].type = "pim-barrier"
                             \/ trace[n].type = "pim-barrier"

LEMMA PassedInOrder ==
    ASSUME Inv, OrderKept(served), NEW bufs \in {buf, AfterBarrier},
           NEW n \in Passed(bufs), NEW m \in 1..n, Service!Separated(m, n)
    PROVE  m \in served
<1>1. /\ n \in (1..sent) \ served /\ trace[n].type = "pim-barrier"
      /\ buf["pim"] # <<>> /\ buf["pim"][1].id = n
      /\ sent \in Nat /\ "pim" \in LineBuffer /\ "pim" \in Queue
      /\ Placed(buf, served) /\ PimKept(buf, served) /\ BuffersOK(buf, sent)
  BY PassedInv DEF LineBuffer, Queue, Inv, TypeOK, ControllerOK
<1> SUFFICES ASSUME m \notin served PROVE FALSE
  OBVIOUS
<1>2. m < n /\ trace[m].type \in PimType
  BY DEF Service!Separated, Service!IsPim
<1>3. m \in 1..sent
  <2>1. sent \in Nat /\ n \in 1..sent
    BY <1>1
  <2> QED
    BY <2>1
<1>4. PICK l \in DOMAIN buf["pim"] : buf["pim"][l].id = m
  BY <1>1, <1>2, <1>3 DEF PimKept, Holds
<1>5. DOMAIN buf["pim"] = 1..Len(buf["pim"]) /\ Len(buf["pim"]) \in Nat
  BY <1>1, LineBuffers
<1>6. 1 \in DOMAIN buf["pim"] /\ (l = 1 \/ 1 < l)
  BY <1>4, <1>5
<1>7. l # 1
  BY <1>1, <1>2, <1>4
<1>8. n < m
  BY <1>1, <1>4, <1>6, <1>7 DEF Placed, InOrder
<1>9. n \in Int /\ m \in Int
  BY <1>1, <1>3
<1> QED
  BY <1>2, <1>8, <1>9

LEMMA SlotInOrder ==
    ASSUME Inv, OrderKept(served), MemorySlot
    PROVE  \E S : InBarrierOrder(S)
<1>1. Slot /\ TypeOK
  BY DEF MemorySlot, Inv
<1>2. PICK rdy \in Readiness : NothingIssued \/ \E bufs, b, i : Issued(rdy, bufs, b, i)
  BY <1>1, SlotOutcome
<1>3. ASSUME NEW bufs \in {buf, AfterBarrier}, served' = Done(bufs)
      PROVE  InBarrierOrder(Passed(bufs))
  <2>1. \A n \in Passed(bufs) : n \in (1..sent) \ served /\ trace[n].type = "pim-barrier"
    BY PassedInv
  <2> QED
    BY <1>3, <2>1, PassedInOrder DEF InBarrierOrder, Done
<1>4. CASE NothingIssued
  BY <1>3, <1>4 DEF NothingIssued, NoIssue, Done
<1>5. ASSUME NEW bufs, NEW b, NEW i, Issued(rdy, bufs, b, i)
      PROVE  \E S : InBarrierOrder(S)
  <2> DEFINE q == bufs[b][i]
  <2>1. /\ bufs \in {buf, AfterBarrier} /\ b \in Buffer /\ i \in DOMAIN bufs[b]
        /\ Issue(bufs, b, i) /\ (b = "pim" => isPim' /\ bufs = AfterBarrier)
    <3>1. b = "pim" => isPim' /\ bufs = AfterBarrier
      BY <1>5 DEF Issued, Picked
    <3> QED
      BY <1>5, <3>1 DEF Issued
  <2>2. \/ served' = Done(bufs)
        \/ /\ b # "priority" /\ Cmd(rows, q) = Final(q)
           /\ q.id \in (1..sent) \ Done(bufs)
           /\ served' = Done(bufs) \cup {q.id}
    BY <2>1, IssuedInv
  <2>3. CASE /\ b # "priority" /\ Cmd(rows, q) = Final(q)
             /\ q.id \in (1..sent) \ Done(bufs)
             /\ served' = Done(bufs) \cup {q.id}
    <3> DEFINE S == Passed(bufs) \cup {q.id}
    <3>1. /\ Placed(bufs, Done(bufs)) /\ b \in LineBuffer
          /\ \A n \in Passed(bufs) : /\ n \in (1..sent) \ served
                                     /\ trace[n].type = "pim-barrier"
          /\ \A m, n \in Passed(bufs) : m = n
      <4>1. b \in LineBuffer
        BY <2>1, <2>3 DEF LineBuffer, Buffer
      <4>2. \A m, n \in Passed(bufs) : m = n
        BY DEF Passed
      <4> QED
        BY <2>1, <4>1, <4>2, PassedInv
    <3>2. q.type = trace[q.id].type /\ q.type \in TypesOf(b)
      BY <2>1, <3>1 DEF Placed, RightKind, StandsForLine
    <3>3. ASSUME NEW m \in 1..q.id, Service!Separated(m, q.id)
          PROVE  m \in served \cup S
      <4>1. trace[q.id].type \in PimType
        BY <3>3 DEF Service!Separated, Service!IsPim
      <4>2. b = "pim"
        BY <3>1, <3>2, <4>1 DEF TypesOf, LineBuffer, PimType
      <4>3. bufs = AfterBarrier
        BY <2>1, <4>2
      <4>4. q = AfterBarrier["pim"][i] /\ Issued(rdy, AfterBarrier, "pim", i)
        BY <1>5, <4>2, <4>3
      <4> HIDE DEF q
      <4>5. m \in Done(AfterBarrier)
        BY <2>3, <3>3, <4>4, PimInOrder
      <4> QED
        BY <4>3, <4>5 DEF Done
    <3>4. \A n \in Passed(bufs) : \A m \in 1..n : Service!Separated(m, n) => m \in served
      BY <2>1, PassedInOrder
    <3> HIDE DEF q
    <3>5. InBarrierOrder(S)
      BY <2>3, <3>1, <3>3, <3>4 DEF InBarrierOrder, Done
    <3> QED
      BY <3>5
  <2> QED
    BY <1>3, <2>1, <2>2, <2>3
<1> QED
  BY <1>2, <1>4, <1>5

(***************************************************************************)
(* The refinement.  Every step of the system is a step of the service, or  *)
(* changes nothing the service shows.                                      *)
(***************************************************************************)
LEMMA ServiceInit == Init => Service!Init
  BY DEF Init, ControllerInit, Service!Init

LEMMA SendServes ==
    ASSUME Inv, FrontendSend
    PROVE  Service!Accept \/ Service!AcceptForwarded
<1> DEFINE q == Request(sent + 1)
<1>1. sent \in 0..Len(trace) /\ sent # Len(trace) /\ Len(trace) \in Nat
  BY SystemAssumption, LenProperties
     DEF Inv, TypeOK, FrontendSend, Finished, SystemAssumption
<1>2. sent < Len(trace)
  BY <1>1
<1>3. /\ sent' = sent + 1 /\ trace' = trace /\ completed' = completed
      /\ Forward(q) \/ Enqueue(q)
  BY DEF FrontendSend, Send
<1>4. CASE Enqueue(q)
  BY <1>2, <1>3, <1>4 DEF Enqueue, Service!Accept
<1>5. CASE Forward(q)
  <2>1. /\ q.type = "read" /\ served' = served \cup {sent + 1}
    BY <1>5 DEF Forward, Forwarded, Request
  <2>2. PICK i \in DOMAIN buf["write"] : SameAddr(buf["write"][i], q)
    BY <1>5 DEF Forward, Forwarded
  <2> DEFINE w == buf["write"][i].id
  <2>3. /\ "write" \in LineBuffer /\ BuffersOK(buf, sent) /\ sent \in Nat
        /\ Placed(buf, served)
    BY <1>1 DEF LineBuffer, Inv, TypeOK, ControllerOK
  <2>4. w \in 1..sent /\ w \notin served /\ StandsForLine(buf["write"][i])
        /\ buf["write"][i].type = "write"
    <3>1. w \in 1..sent
      BY <2>2, <2>3, LineBuffers
    <3>2. /\ w \notin served /\ StandsForLine(buf["write"][i])
          /\ buf["write"][i].type \in TypesOf("write")
      BY <2>2, <2>3 DEF Placed, RightKind
    <3> QED
      BY <3>1, <3>2 DEF TypesOf
  <2>5. trace[w].type = "write" /\ Service!SameAddress(w, sent + 1)
    BY <2>2, <2>4 DEF StandsForLine, SameAddr, Request, Service!SameAddress
  <2>6. trace[sent + 1].type = "read"
    BY <2>1 DEF Request
  <2> HIDE DEF w
  <2> QED
    BY <1>2, <1>3, <2>1, <2>4, <2>5, <2>6 DEF Service!AcceptForwarded
<1> QED
  BY <1>3, <1>4, <1>5

LEMMA StepServes ==
    ASSUME Inv, OrderKept(served), [Next]_vars
    PROVE  Service!Next \/ UNCHANGED Service!vars
<1>1. CASE FrontendSend
  BY <1>1, SendServes DEF Service!Next
<1>2. CASE FrontendDone \/ UNCHANGED vars
  BY <1>2 DEF FrontendDone, ctrl, vars, Service!vars
<1>3. CASE MemoryCycle \/ MemoryCycleWithRefresh
  <2>1. /\ trace' = trace /\ sent' = sent /\ served' = served /\ ServeCompletedReads
    BY <1>3 DEF MemoryCycle, Cycle, MemoryCycleWithRefresh, CycleWithRefresh, RefreshFails,
                StartCycle
  <2>2. \/ completed' = completed
        \/ \E n \in served \ completed : /\ trace[n].type = "read"
                                         /\ completed' = completed \cup {n}
    BY <2>1, ReadCompleted
  <2>3. served \subseteq 1..sent
    BY DEF Inv, TypeOK, ControllerOK
  <2>4. ASSUME NEW n \in served \ completed, trace[n].type = "read",
               completed' = completed \cup {n}
        PROVE  n \in 1..sent /\ Service!Deliver(n)
    BY <2>1, <2>3, <2>4 DEF Service!Deliver
  <2> QED
    BY <2>1, <2>2, <2>4 DEF Service!Next, Service!vars
<1>4. CASE MemorySlot
  <2>1. PICK S : InBarrierOrder(S)
    BY <1>4, SlotInOrder
  <2>2. trace' = trace /\ sent' = sent /\ completed' = completed
    <3>1. NothingIssued \/ \E rdy, bufs, b, i : Issued(rdy, bufs, b, i)
      BY <1>4, SlotOutcome DEF MemorySlot, Inv
    <3>2. NothingIssued => completed' = completed
      BY DEF NothingIssued, NoIssue
    <3>3. \A rdy, bufs, b, i : Issued(rdy, bufs, b, i) => completed' = completed
      BY DEF Issued, Issue
    <3> QED
      BY <1>4, <3>1, <3>2, <3>3 DEF MemorySlot
  <2>3. CASE S = {}
    BY <2>1, <2>2, <2>3 DEF InBarrierOrder, Service!vars
  <2>4. CASE S # {}
    <3>1. S \in SUBSET ((1..sent) \ served) /\ Service!Serve(S)
      BY <2>1, <2>2 DEF InBarrierOrder, Service!Serve
    <3> QED
      BY <2>4, <3>1 DEF Service!Next
  <2> QED
    BY <2>3, <2>4
<1> QED
  BY <1>1, <1>2, <1>3, <1>4 DEF Next, Terminated

LEMMA OrderStep ==
    ASSUME Inv, OrderKept(served), [Next]_vars
    PROVE  OrderKept(served)'
<1>1. sent \in Nat /\ sent \in 0..Len(trace) /\ served \subseteq 1..sent
  BY SystemAssumption, LenProperties DEF Inv, TypeOK, ControllerOK, SystemAssumption
<1>2. trace' = trace
  BY DEF Next, Terminated, vars, FrontendSend, FrontendDone, MemoryCycle,
         MemoryCycleWithRefresh, MemorySlot
<1>3. \A m, n : Service!Separated(m, n)' = Service!Separated(m, n)
  BY <1>2 DEF Service!Separated, Service!IsPim
<1>4. ASSUME NEW S, served' = served \cup S,
             \A n \in S : \A m \in 1..n : Service!Separated(m, n) => m \in served \cup S
      PROVE  OrderKept(served)'
  BY <1>3, <1>4 DEF OrderKept
<1>5. CASE served' = served
  BY <1>3, <1>5 DEF OrderKept
<1>6. CASE FrontendSend
  <2> DEFINE q == Request(sent + 1)
  <2>1. CASE Forward(q)
    <3>1. trace[sent + 1].type = "read" /\ served' = served \cup {sent + 1}
      BY <2>1 DEF Forward, Forwarded, Request
    <3>2. \A m : ~Service!Separated(m, sent + 1)
      BY <3>1 DEF Service!Separated, Service!IsPim, PimType
    <3>3. \A n \in {sent + 1} : \A m \in 1..n :
              Service!Separated(m, n) => m \in served \cup {sent + 1}
      BY <3>2
    <3> QED
      BY <1>4, <3>1, <3>3
  <2>2. CASE Enqueue(q)
    BY <1>5, <2>2 DEF Enqueue
  <2> QED
    BY <1>6, <2>1, <2>2 DEF FrontendSend, Send
<1>7. CASE FrontendDone \/ MemoryCycle \/ MemoryCycleWithRefresh \/ UNCHANGED vars
  BY <1>5, <1>7 DEF FrontendDone, ctrl, MemoryCycle, Cycle, MemoryCycleWithRefresh,
                    CycleWithRefresh, RefreshFails, StartCycle, vars
<1>8. CASE MemorySlot
  <2>1. PICK S : InBarrierOrder(S)
    BY <1>8, SlotInOrder
  <2> QED
    BY <1>4, <2>1 DEF InBarrierOrder
<1> QED
  BY <1>6, <1>7, <1>8 DEF Next, Terminated

(***************************************************************************)
(* The memory system implements the service it promises the frontend,      *)
(* whatever the buffers, the readiness of commands and the write mode do:  *)
(* acceptance in trace order, service at most once, PIM lines in the order *)
(* of barriers, forwarding from unserved writes only, and one delivery     *)
(* after service.                                                          *)
(***************************************************************************)
THEOREM Implements == Spec => ImplementsService
<1>1. Init => Inv /\ OrderKept(served)
  <2>1. Init => OrderKept(served)
    BY DEF Init, ControllerInit, OrderKept
  <2> QED
    BY <2>1, InitInv
<1>2. Inv /\ OrderKept(served) /\ [Next]_vars => (Inv /\ OrderKept(served))'
  BY NextInv, OrderStep
<1>3. Inv /\ OrderKept(served) /\ [Next]_vars => [Service!Next]_(Service!vars)
  BY StepServes
<1> QED
  BY <1>1, <1>2, <1>3, ServiceInit, PTL DEF Spec, ImplementsService, Service!Spec

----------------------------------------------------------------------------
(***************************************************************************)
(* Nothing is doubled, and nothing is lost unless an activation is         *)
(* dropped: the controller ignores that the active buffer, being full,     *)
(* has refused the request it then removes from its queue.                 *)
(***************************************************************************)
ActivationDropped ==
    /\ Len(buf["active"]) >= ActiveSize /\ ~isPim'
    /\ \E cmd \in Opening : slots' = Append(slots, cmd)

NothingDoubled ==
    \A n \in 1..sent :
        /\ n \in served => Places(n) = {}
        /\ \A x, y \in Places(n) : x = y
        /\ Cardinality(InFlight(n)) =
              IF trace[n].type = "read" /\ n \in served \ completed THEN 1 ELSE 0

LEMMA PlacesOfLine ==
    ASSUME Inv, NEW n \in 1..sent
    PROVE  /\ \A x : x \in Places(n) <=>
                 \E b \in LineBuffer : \E i \in DOMAIN buf[b] :
                    x = <<b, i>> /\ buf[b][i].id = n
           /\ n \in served => Places(n) = {}
           /\ \A x, y \in Places(n) : x = y
<1>1. BuffersOK(buf, sent) /\ sent \in Nat /\ Placed(buf, served)
  BY SystemAssumption, LenProperties DEF Inv, TypeOK, ControllerOK, SystemAssumption
<1>2. Buffer = LineBuffer \cup {"priority"}
  BY DEF Buffer, LineBuffer
<1>3. \A i \in DOMAIN buf["priority"] : buf["priority"][i].id # n
  <2>1. "priority" \in Buffer
    BY <1>2
  <2>2. \A i \in DOMAIN buf["priority"] : buf["priority"][i] \in Refreshes
    BY <1>1, <2>1, BufferedRequest
  <2>3. \A q \in Refreshes : q.id = 0
    BY DEF Refreshes, RefreshRequest
  <2>4. n # 0
    BY <1>1
  <2> QED
    BY <2>2, <2>3, <2>4
<1>4. \A x : x \in Places(n) <=>
         \E b \in LineBuffer : \E i \in DOMAIN buf[b] : x = <<b, i>> /\ buf[b][i].id = n
  BY <1>2, <1>3 DEF Places
<1>5. n \in served => Places(n) = {}
  BY <1>1, <1>4 DEF Placed, RightKind
<1>6. \A x, y \in Places(n) : x = y
  BY <1>1, <1>4 DEF Placed, OnePlace
<1> QED
  BY <1>4, <1>5, <1>6

LEMMA ReadsInFlight ==
    ASSUME Inv, NEW n \in 1..sent
    PROVE  Cardinality(InFlight(n)) =
              IF trace[n].type = "read" /\ n \in served \ completed THEN 1 ELSE 0
<1>1. Delivering(pending, served, completed)
  BY DEF Inv
<1>2. \A i, j \in InFlight(n) : i = j
  BY <1>1 DEF InFlight, Delivering
<1>3. InFlight(n) # {} <=> trace[n].type = "read" /\ n \in served \ completed
  BY <1>1 DEF InFlight, Delivering
<1>4. CASE InFlight(n) = {}
  BY <1>3, <1>4, FS_EmptySet
<1>5. CASE InFlight(n) # {}
  <2>1. PICK i : i \in InFlight(n)
    BY <1>5
  <2>2. InFlight(n) = {i}
    BY <1>2, <2>1
  <2> QED
    BY <1>3, <1>5, <2>2, FS_Singleton
<1> QED
  BY <1>4, <1>5

LEMMA KeptNotLost ==
    ASSUME Inv, Kept(buf, served)
    PROVE  NoRequestLost
<1> SUFFICES ASSUME NEW n \in 1..sent
             PROVE  Cardinality(Places(n)) = IF n \in served THEN 0 ELSE 1
  BY ReadsInFlight DEF NoRequestLost
<1>1. CASE n \in served
  BY <1>1, PlacesOfLine, FS_EmptySet
<1>2. CASE n \notin served
  <2>1. PICK b \in LineBuffer : \E i \in DOMAIN buf[b] : buf[b][i].id = n
    BY <1>2 DEF Kept, Holds
  <2> PICK i \in DOMAIN buf[b] : buf[b][i].id = n
    BY <2>1
  <2>2. <<b, i>> \in Places(n) /\ \A x, y \in Places(n) : x = y
    BY PlacesOfLine
  <2>3. Places(n) = {<<b, i>>}
    BY <2>2
  <2> QED
    BY <1>2, <2>3, FS_Singleton
<1> QED
  BY <1>1, <1>2

(* A line is in one place at most until it is served and in none then; a   *)
(* read served is in pending once until it is completed: moving requests,  *)
(* dropping barriers and forwarding double nothing.                        *)
THEOREM NeverDoubled == Spec => []NothingDoubled
<1>1. Inv => NothingDoubled
  BY PlacesOfLine, ReadsInFlight DEF NothingDoubled
<1> QED
  BY <1>1, LinesInPlace, PTL

LEMMA KeptStep ==
    ASSUME Inv, Kept(buf, served), [Next]_vars, [~ActivationDropped]_vars
    PROVE  Kept(buf, served)'
<1>1. CASE MemorySlot /\ ~ActivationDropped
  <2>1. slots \in Seq(Command)
    BY DEF Inv, TypeOK, ControllerOK
  <2>2. ASSUME NEW rdy, NEW bufs, NEW b, NEW i, Issued(rdy, bufs, b, i),
               Overfull(bufs, b, i)
        PROVE  FALSE
    <3>1. bufs["active"] = buf["active"] /\ "active" \in LineBuffer
      BY <2>2, PassedInv DEF Issued, LineBuffer
    <3>2. slots' = slots \o <<Cmd(rows, bufs[b][i])>>
      BY <2>2 DEF Issued, Issue, EndSlot
    <3>3. slots' = Append(slots, Cmd(rows, bufs[b][i]))
      BY <2>1, <3>2
    <3> QED
      BY <1>1, <2>2, <3>1, <3>3 DEF Overfull, ActivationDropped
  <2> QED
    BY <1>1, <2>2, SlotInv
<1> QED
  BY <1>1, SentInv, CycleInv, IdleInv DEF Next, Terminated

(* As long as no activation is dropped, every line sent is in exactly one  *)
(* place until it is served.                                               *)
THEOREM NothingLost == Spec /\ [][~ActivationDropped]_vars => []NoRequestLost
<1>1. Inv /\ Kept(buf, served) /\ [Next]_vars /\ [~ActivationDropped]_vars
      => (Inv /\ Kept(buf, served))'
  BY NextInv, KeptStep
<1>2. Inv /\ Kept(buf, served) => NoRequestLost
  BY KeptNotLost
<1> QED
  BY <1>1, <1>2, InitInv, PTL DEF Spec

----------------------------------------------------------------------------
(***************************************************************************)
(* Loads and stores only: no PIM line in the trace, and no refresh.  Then  *)
(* only the veto decides which rows are closed.                            *)
(***************************************************************************)
LoadsAndStoresOnly ==
    /\ MaxRefresh = 0
    /\ \A t \in Traces : \A i \in DOMAIN t : t[i].type \in {"read", "write"}

(* What a load or a store needs: its row is open, or its bank is closed,   *)
(* or another row is in the way.                                           *)
LEMMA LoadStoreCommand ==
    ASSUME rows \in RowState, NEW q, q.type \in {"read", "write"}, q.bank \in Bank
    PROVE  /\ Final(q) \in {"RD", "WR"}
           /\ q.row \in rows[q.bank] => Cmd(rows, q) = Final(q)
           /\ q.row \notin rows[q.bank] /\ rows[q.bank] = {} => Cmd(rows, q) = "ACT"
           /\ q.row \notin rows[q.bank] /\ rows[q.bank] # {} => Cmd(rows, q) = "PRE"
<1>1. Final(q) \in {"RD", "WR"}
  BY DEF Final, Translation, PimType
<1>2. /\ Final(q) \in RowAccess /\ Reach(Final(q), q.bank) = {q.bank}
      /\ Opener(Final(q)) = "ACT" /\ Closer(Final(q)) = "PRE"
  BY <1>1 DEF RowAccess, Reach, Opener, Closer
<1>3. ~Before(q.bank, q.bank)
  BY OrganizationAssumption DEF Before, Bank, OrganizationAssumption
<1>4. FirstLackingIsClosed(rows, {q.bank}, q.row) <=> rows[q.bank] = {}
  BY <1>3 DEF FirstLackingIsClosed
<1>5. Cmd(rows, q) = PreqCommand(rows, Final(q), q.bank, q.row)
  BY DEF Cmd, Final
<1> QED
  BY <1>1, <1>2, <1>4, <1>5 DEF PreqCommand

(* What the commands of loads and stores do to the rows. *)
LEMMA LoadStoreRows ==
    ASSUME rows \in RowState, NEW b \in Bank, NEW r, NEW cmd
    PROVE  /\ cmd \in {"RD", "WR"} => RowsAfter(rows, cmd, b, r) = rows
           /\ cmd = "ACT" => /\ r \in RowsAfter(rows, cmd, b, r)[b]
                             /\ \A c \in Bank : rows[c] \subseteq RowsAfter(rows, cmd, b, r)[c]
           /\ cmd = "PRE" => \A c \in Bank : c # b => RowsAfter(rows, cmd, b, r)[c] = rows[c]
<1>1. cmd \in {"RD", "WR", "ACT", "PRE"} => Reach(cmd, b) = {b}
  BY DEF Reach
<1>2. /\ cmd \in {"RD", "WR"} => cmd \notin Opening /\ cmd \notin Closing
      /\ cmd = "ACT" => cmd \in Opening
      /\ cmd = "PRE" => cmd \notin Opening
  BY DEF Opening, Closing
<1> QED
  BY <1>1, <1>2 DEF RowsAfter, RowState

(***************************************************************************)
(* The invariant: no refresh waits, and an active request keeps its row.   *)
(***************************************************************************)
LoadStoreInv ==
    /\ Inv
    /\ buf["priority"] = <<>>
    /\ ActiveRequestsHoldTheirRow

LEMMA LoadStoreState ==
    ASSUME LoadsAndStoresOnly, Inv
    PROVE  /\ \A n \in 1..sent : trace[n].type \in {"read", "write"}
           /\ buf["pim"] = <<>> /\ AfterBarrier = buf /\ Passed(buf) = {}
           /\ BuffersOK(buf, sent) /\ sent \in Nat /\ rows \in RowState
           /\ \A b \in LineBuffer : \A i \in DOMAIN buf[b] :
                 /\ buf[b][i].type \in {"read", "write"} /\ buf[b][i].bank \in Bank
                 /\ buf[b][i].id \in 1..sent
                 /\ StandsForLine(buf[b][i]) /\ buf[b][i].type \in TypesOf(b)
<1>1. /\ trace \in Traces /\ trace \in Seq(TraceLine) /\ sent \in 0..Len(trace)
      /\ Len(trace) \in Nat /\ sent \in Nat
      /\ BuffersOK(buf, sent) /\ rows \in RowState /\ Placed(buf, served)
  BY SystemAssumption, LenProperties DEF Inv, TypeOK, ControllerOK, SystemAssumption
<1>2. \A n \in 1..sent : trace[n].type \in {"read", "write"}
  <2>1. DOMAIN trace = 1..Len(trace)
    BY <1>1, LenProperties
  <2>2. 1..sent \subseteq DOMAIN trace
    BY <1>1, <2>1
  <2> QED
    BY <1>1, <2>2 DEF LoadsAndStoresOnly
<1>3. \A b \in LineBuffer : \A i \in DOMAIN buf[b] :
         /\ buf[b][i] \in Requests(sent) /\ buf[b][i].id \in 1..sent
         /\ StandsForLine(buf[b][i]) /\ buf[b][i].type \in TypesOf(b)
  BY <1>1, LineBuffers DEF Placed, RightKind
<1>4. \A b \in LineBuffer : \A i \in DOMAIN buf[b] :
         buf[b][i].type \in {"read", "write"} /\ buf[b][i].bank \in Bank
  BY <1>2, <1>3 DEF StandsForLine, Requests
<1>5. buf["pim"] = <<>>
  <2>1. "pim" \in LineBuffer
    BY DEF LineBuffer
  <2>2. \A i \in DOMAIN buf["pim"] : FALSE
    BY <1>3, <1>4, <2>1 DEF TypesOf, PimType
  <2>3. buf["pim"] \in Seq(Requests(sent))
    BY <1>1, <2>1, LineBuffers
  <2>4. Len(buf["pim"]) \in Nat /\ DOMAIN buf["pim"] = 1..Len(buf["pim"])
    BY <2>3, LenProperties
  <2>5. Len(buf["pim"]) = 0
    <3>1. CASE Len(buf["pim"]) # 0
      <4>1. 1 \in 1..Len(buf["pim"])
        BY <2>4, <3>1
      <4> QED
        BY <2>2, <2>4, <4>1
    <3> QED
      BY <3>1
  <2> QED
    BY <2>3, <2>5, EmptySeq
<1>6. AfterBarrier = buf /\ Passed(buf) = {}
  BY <1>1, <1>5, BarrierPassed DEF FrontBarrier
<1> QED
  BY <1>1, <1>2, <1>3, <1>4, <1>5, <1>6

(* What a slot issues: a command of a load or a store.                     *)
LEMMA LoadStoreIssued ==
    ASSUME LoadsAndStoresOnly, LoadStoreInv, NEW rdy, NEW bufs, NEW b, NEW i,
           Issued(rdy, bufs, b, i)
    PROVE  /\ bufs = buf /\ b \in {"active", "read", "write"} /\ b \in LineBuffer
           /\ i \in DOMAIN buf[b]
           /\ buf[b][i].type \in {"read", "write"} /\ buf[b][i].bank \in Bank
<1>1. /\ bufs \in {buf, AfterBarrier} /\ b \in Buffer /\ i \in DOMAIN bufs[b]
  BY DEF Issued
<1>2. bufs = buf /\ buf["pim"] = <<>> /\ buf["priority"] = <<>>
  BY <1>1, LoadStoreState DEF LoadStoreInv
<1>3. b # "pim" /\ b # "priority"
  BY <1>1, <1>2
<1> QED
  BY <1>1, <1>2, <1>3, LoadStoreState DEF LoadStoreInv, Buffer, LineBuffer

(* The active requests hold their rows, whichever are left. *)
HoldRows(s, r) ==
    \A i, j \in DOMAIN s : /\ s[i].row \in r[s[i].bank]
                           /\ s[i].bank = s[j].bank => i = j

LEMMA ActiveAsSequence == ActiveRequestsHoldTheirRow <=> HoldRows(buf["active"], rows)
  BY DEF ActiveRequestsHoldTheirRow, HoldRows

LEMMA HoldAfterRemoval ==
    ASSUME NEW S, NEW s \in Seq(S), NEW r, HoldRows(s, r), NEW i \in DOMAIN s
    PROVE  HoldRows(RemoveAt(s, i), r)
<1> DEFINE t == RemoveAt(s, i)
           old(j) == IF j < i THEN j ELSE j + 1
<1>1. Len(s) \in Nat /\ DOMAIN s = 1..Len(s) /\ i \in 1..Len(s)
  BY LenProperties
<1>2. DOMAIN t = 1..Len(s)-1 /\ \A j \in 1..Len(s)-1 : t[j] = s[old(j)]
  BY RemoveAtElements
<1>3. \A j \in 1..Len(s)-1 : old(j) \in 1..Len(s)
  BY <1>1
<1>4. \A j, k \in 1..Len(s)-1 : old(j) = old(k) => j = k
  BY <1>1
<1> HIDE DEF old, t
<1>5. HoldRows(t, r)
  BY <1>1, <1>2, <1>3, <1>4 DEF HoldRows
<1> QED
  BY <1>5 DEF t

LEMMA HoldAfterAppend ==
    ASSUME NEW S, NEW s \in Seq(S), NEW r, HoldRows(s, r), NEW q,
           q.row \in r[q.bank], \A j \in DOMAIN s : s[j].bank # q.bank
    PROVE  HoldRows(Append(s, q), r)
<1> DEFINE t == Append(s, q)
           n == Len(s)
<1>1. n \in Nat /\ DOMAIN s = 1..n
  BY LenProperties
<1>2. DOMAIN t = 1..n+1 /\ t[n+1] = q /\ \A j \in 1..n : t[j] = s[j]
  BY <1>1
<1>3. \A j \in 1..n+1 : j = n+1 \/ j \in 1..n
  BY <1>1
<1> HIDE DEF t, n
<1>4. HoldRows(t, r)
  BY <1>1, <1>2, <1>3 DEF HoldRows
<1> QED
  BY <1>4 DEF t

(* No active request has its bank closed: opening a row disturbs none.     *)
LEMMA OpenedForOne ==
    ASSUME LoadsAndStoresOnly, LoadStoreInv, NEW rdy, NEW bufs, NEW b, NEW i,
           Issued(rdy, bufs, b, i), Cmd(rows, buf[b][i]) \in Opening
    PROVE  /\ Cmd(rows, buf[b][i]) = "ACT" /\ b \in {"read", "write"}
           /\ \A j \in DOMAIN buf["active"] : buf["active"][j].bank # buf[b][i].bank
<1> DEFINE q == buf[b][i]
<1>1. /\ b \in {"active", "read", "write"} /\ i \in DOMAIN buf[b]
      /\ q.type \in {"read", "write"} /\ q.bank \in Bank /\ rows \in RowState
  BY LoadStoreIssued, LoadStoreState DEF LoadStoreInv
<1>2. HoldRows(buf["active"], rows)
  BY ActiveAsSequence DEF LoadStoreInv
<1>3. /\ Final(q) \in {"RD", "WR"}
      /\ q.row \in rows[q.bank] => Cmd(rows, q) = Final(q)
      /\ q.row \notin rows[q.bank] /\ rows[q.bank] = {} => Cmd(rows, q) = "ACT"
      /\ q.row \notin rows[q.bank] /\ rows[q.bank] # {} => Cmd(rows, q) = "PRE"
  BY <1>1, LoadStoreCommand
<1>4. {"RD", "WR", "PRE"} \cap Opening = {}
  BY DEF Opening
<1>5. q.row \notin rows[q.bank] /\ rows[q.bank] = {} /\ Cmd(rows, q) = "ACT"
  BY <1>3, <1>4
<1>6. b # "active"
  BY <1>1, <1>2, <1>5 DEF HoldRows
<1>7. \A j \in DOMAIN buf["active"] : buf["active"][j].bank # q.bank
  BY <1>2, <1>5 DEF HoldRows
<1> QED
  BY <1>1, <1>5, <1>6, <1>7

LEMMA LoadStoreSlot ==
    ASSUME LoadsAndStoresOnly, LoadStoreInv, MemorySlot
    PROVE  ActiveRequestsHoldTheirRow' /\ buf'["priority"] = <<>>
<1>1. /\ BuffersOK(buf, sent) /\ sent \in Nat /\ rows \in RowState
      /\ AfterBarrier = buf
      /\ HoldRows(buf["active"], rows) /\ buf["priority"] = <<>>
      /\ buf["active"] \in Seq(Requests(sent)) /\ "active" \in Buffer
      /\ buf = [c \in Buffer |-> buf[c]] /\ "priority" \in Buffer
  BY LoadStoreState, ActiveAsSequence
     DEF LoadStoreInv, BuffersOK, Contents, Buffer
<1>2. ASSUME HoldRows(buf'["active"], rows') PROVE ActiveRequestsHoldTheirRow'
  BY <1>2 DEF ActiveRequestsHoldTheirRow, HoldRows
<1>3. CASE NothingIssued
  <2>1. buf' = buf /\ rows' = rows
    BY <1>1, <1>3 DEF NothingIssued, NoIssue
  <2> QED
    BY <1>1, <1>2, <2>1
<1>4. ASSUME NEW rdy, NEW bufs, NEW b, NEW i, Issued(rdy, bufs, b, i)
      PROVE  HoldRows(buf'["active"], rows') /\ buf'["priority"] = <<>>
  <2> DEFINE q == buf[b][i]
             cmd == Cmd(rows, q)
  <2>1. /\ bufs = buf /\ b \in {"active", "read", "write"} /\ i \in DOMAIN buf[b]
        /\ q.type \in {"read", "write"} /\ q.bank \in Bank /\ b \in Buffer
    BY <1>4, LoadStoreIssued DEF Buffer
  <2>2. /\ Final(q) \in {"RD", "WR"}
        /\ q.row \in rows[q.bank] => cmd = Final(q)
        /\ q.row \notin rows[q.bank] /\ rows[q.bank] = {} => cmd = "ACT"
        /\ q.row \notin rows[q.bank] /\ rows[q.bank] # {} => cmd = "PRE"
    <3>1. rows \in RowState /\ q.type \in {"read", "write"} /\ q.bank \in Bank
      BY <1>1, <2>1
    <3> QED
      BY <3>1, LoadStoreCommand
  <2>3. rows' = RowsAfter(rows, cmd, q.bank, q.row) /\ Issue(buf, b, i) /\ ~Vetoed(q)
    BY <1>4, <2>1 DEF Issued, Issue
  <2>4. /\ cmd \in {"RD", "WR"} => rows' = rows
        /\ cmd = "ACT" => /\ q.row \in rows'[q.bank]
                          /\ \A c \in Bank : rows[c] \subseteq rows'[c]
        /\ cmd = "PRE" => \A c \in Bank : c # q.bank => rows'[c] = rows[c]
    BY <1>1, <2>1, <2>3, LoadStoreRows
  <2>5. \A j \in DOMAIN buf["active"] : buf["active"][j].bank \in Bank
    BY LoadStoreState DEF LoadStoreInv, LineBuffer
  <2>6. {"RD", "WR", "PRE"} \cap Opening = {} /\ "ACT" \in Opening /\ "PRE" \in Closing
    BY DEF Opening, Closing
  <2> DEFINE activated == IF Len(buf["active"]) < ActiveSize
                          THEN [buf EXCEPT !["active"] = Append(@, q)] ELSE buf
  <2>7. CASE cmd = Final(q)
    <3>1. rows' = rows /\ buf' = [buf EXCEPT ![b] = RemoveAt(@, i)]
      BY <2>2, <2>3, <2>4, <2>7 DEF Issue
    <3>2. buf'["active"] = IF b = "active" THEN RemoveAt(buf["active"], i)
                           ELSE buf["active"]
      BY <1>1, <3>1
    <3>3. buf'["priority"] = <<>>
      BY <1>1, <2>1, <3>1
    <3>4. b = "active" => HoldRows(RemoveAt(buf["active"], i), rows)
      BY <1>1, <2>1, HoldAfterRemoval
    <3> QED
      BY <1>1, <3>1, <3>2, <3>3, <3>4
  <2>8. CASE cmd # Final(q) /\ cmd \in Opening
    <3>1. /\ cmd = "ACT" /\ b \in {"read", "write"}
          /\ \A j \in DOMAIN buf["active"] : buf["active"][j].bank # q.bank
      BY <1>4, <2>8, OpenedForOne
    <3>2. \/ buf' = [activated EXCEPT ![b] = RemoveAt(@, i)]
          \/ buf' = buf
      BY <2>3, <2>8 DEF Issue
    <3>3. /\ buf'["priority"] = <<>>
          /\ buf'["active"] \in {buf["active"], Append(buf["active"], q)}
      BY <1>1, <3>1, <3>2
    <3>4. HoldRows(buf["active"], rows')
      <4> HIDE DEF q, cmd
      <4> QED
        BY <1>1, <2>4, <2>5, <3>1 DEF HoldRows
    <3>5. HoldRows(Append(buf["active"], q), rows')
      <4> HIDE DEF q, cmd
      <4> QED
        BY <1>1, <2>4, <3>1, <3>4, HoldAfterAppend
    <3> QED
      BY <3>3, <3>4, <3>5
  <2>9. CASE cmd # Final(q) /\ cmd \notin Opening
    <3>1. cmd = "PRE" /\ buf' = buf
      BY <2>2, <2>3, <2>6, <2>9 DEF Issue
    <3>2. \A j \in DOMAIN buf["active"] : buf["active"][j].bank # q.bank
      BY <2>3, <2>6, <3>1 DEF Vetoed
    <3>3. HoldRows(buf["active"], rows')
      <4> HIDE DEF q, cmd
      <4> QED
        BY <1>1, <2>4, <2>5, <3>1, <3>2 DEF HoldRows
    <3> QED
      BY <1>1, <3>1, <3>3
  <2> QED
    BY <2>7, <2>8, <2>9
<1>5. NothingIssued \/ \E rdy, bufs, b, i : Issued(rdy, bufs, b, i)
  BY SlotOutcome DEF MemorySlot, LoadStoreInv, Inv
<1> QED
  BY <1>2, <1>3, <1>4, <1>5, <1>1

LEMMA LoadStoreInit == Init => LoadStoreInv
  BY InitInv DEF Init, ControllerInit, LoadStoreInv, ActiveRequestsHoldTheirRow, Buffer

LEMMA LoadStoreNext ==
    ASSUME LoadsAndStoresOnly, LoadStoreInv, [Next]_vars
    PROVE  LoadStoreInv'
<1>1. Inv'
  BY NextInv DEF LoadStoreInv
<1>2. CASE MemorySlot
  BY <1>1, <1>2, LoadStoreSlot DEF LoadStoreInv
<1>3. CASE /\ buf'["active"] = buf["active"] /\ buf'["priority"] = buf["priority"]
           /\ rows' = rows
  BY <1>1, <1>3 DEF LoadStoreInv, ActiveRequestsHoldTheirRow
<1>4. CASE FrontendSend
  <2>1. /\ BuffersOK(buf, sent) /\ "active" \in Buffer /\ "priority" \in Buffer
    BY DEF LoadStoreInv, Inv, TypeOK, ControllerOK, Buffer
  <2>2. rows' = rows
    BY <1>4 DEF FrontendSend, Send
  <2>3. buf'["active"] = buf["active"] /\ buf'["priority"] = buf["priority"]
    BY <1>4, <2>1 DEF FrontendSend, Send, Forward, Enqueue, Home, BuffersOK
  <2> QED
    BY <1>3, <2>2, <2>3
<1>5. ~MemoryCycleWithRefresh
  BY DEF MemoryCycleWithRefresh, LoadsAndStoresOnly, LoadStoreInv, Inv, TypeOK
<1>6. CASE FrontendDone \/ MemoryCycle \/ UNCHANGED vars
  BY <1>3, <1>6 DEF FrontendDone, MemoryCycle, Cycle, StartCycle, ctrl, vars
<1> QED
  BY <1>2, <1>4, <1>5, <1>6 DEF Next, Terminated

(* Without PIM lines and refreshes an active request keeps its row open    *)
(* until it is served, and no two active requests share a bank: the veto   *)
(* of closing commands is all it takes.                                    *)
THEOREM ActiveRowsHeld ==
    ASSUME LoadsAndStoresOnly
    PROVE  Spec => []ActiveRequestsHoldTheirRow
<1>1. LoadStoreInv /\ [Next]_vars => LoadStoreInv'
  BY LoadStoreNext
<1>2. LoadStoreInv => ActiveRequestsHoldTheirRow
  BY DEF LoadStoreInv
<1> QED
  BY <1>1, <1>2, LoadStoreInit, PTL DEF Spec

(***************************************************************************)
(* Nothing is dropped if the trace addresses no more banks than the active *)
(* buffer has room for: no two active requests share a bank.               *)
(***************************************************************************)
FewBanks ==
    \A t \in Traces : Cardinality({t[i].bank : i \in DOMAIN t}) <= ActiveSize

(* Only the issue of an opening command drops an activation. *)
LEMMA DroppedByIssue ==
    ASSUME Inv, Next, ActivationDropped
    PROVE  \E rdy, bufs, b, i : Issued(rdy, bufs, b, i) /\ Cmd(rows, bufs[b][i]) \in Opening
<1>1. slots \in Seq(Command) /\ Len(slots) \in Nat
  BY LenProperties DEF Inv, TypeOK, ControllerOK
<1>2. PICK cmd \in Opening : slots' = Append(slots, cmd)
  BY DEF ActivationDropped
<1>3. cmd \in Command
  BY DEF Command
<1>4. Len(Append(slots, cmd)) = Len(slots) + 1
  BY <1>1, <1>3, AppendProperties
<1>5. slots' # slots /\ slots' # <<>>
  <2>1. slots' # slots
    BY <1>1, <1>2, <1>4
  <2>2. Len(slots') # 0
    BY <1>1, <1>2, <1>4
  <2> QED
    BY <2>1, <2>2
<1>6. CASE FrontendSend \/ FrontendDone \/ MemoryCycle \/ MemoryCycleWithRefresh
           \/ Terminated
  BY <1>5, <1>6 DEF FrontendSend, Send, FrontendDone, ctrl, MemoryCycle, Cycle,
                    MemoryCycleWithRefresh, CycleWithRefresh, RefreshFails, StartCycle,
                    Terminated, vars
<1>7. CASE MemorySlot
  <2>1. NothingIssued => slots' = slots
    BY <1>1 DEF NothingIssued, NoIssue, EndSlot
  <2>2. PICK rdy, bufs, b, i : Issued(rdy, bufs, b, i)
    BY <1>5, <1>7, <2>1, SlotOutcome DEF MemorySlot, Inv
  <2> DEFINE c == Cmd(rows, bufs[b][i])
  <2>3. slots' = slots \o <<c>>
    BY <2>2 DEF Issued, Issue, EndSlot
  <2> HIDE DEF c
  <2>4. c = cmd
    <3>1. (slots \o <<c>>)[Len(slots) + 1] = c
      BY <1>1
    <3>2. Append(slots, cmd)[Len(slots) + 1] = cmd
      BY <1>1
    <3> QED
      BY <1>2, <2>3, <3>1, <3>2
  <2> QED
    BY <1>2, <2>2, <2>4 DEF c
<1> QED
  BY <1>6, <1>7 DEF Next

LEMMA RoomForActivation ==
    ASSUME LoadsAndStoresOnly, FewBanks, LoadStoreInv, [Next]_vars
    PROVE  [~ActivationDropped]_vars
<1> SUFFICES ASSUME Next, ActivationDropped PROVE FALSE
  BY DEF vars
<1>1. PICK rdy, bufs, b, i :
         Issued(rdy, bufs, b, i) /\ Cmd(rows, bufs[b][i]) \in Opening
  BY DroppedByIssue DEF LoadStoreInv
<1> DEFINE q == buf[b][i]
           s == buf["active"]
           n == Len(s)
           banks == {trace[k].bank : k \in DOMAIN trace}
           f == [k \in DOMAIN trace |-> trace[k].bank]
           g == [j \in 1..n |-> s[j].bank]
<1>2. bufs = buf /\ b \in LineBuffer /\ i \in DOMAIN buf[b] /\ "active" \in LineBuffer
  BY <1>1, LoadStoreIssued DEF LineBuffer
<1>3. \A j \in DOMAIN s : s[j].bank # q.bank
  BY <1>1, <1>2, OpenedForOne
<1>4. /\ trace \in Traces /\ trace \in Seq(TraceLine) /\ Len(trace) \in Nat
      /\ DOMAIN trace = 1..Len(trace) /\ sent \in 0..Len(trace) /\ sent \in Nat
      /\ BuffersOK(buf, sent) /\ ActiveSize \in Nat
  BY SystemAssumption, ControllerAssumption, LenProperties
     DEF LoadStoreInv, Inv, TypeOK, ControllerOK, SystemAssumption, ControllerAssumption
<1>5. n \in Nat /\ DOMAIN s = 1..n /\ n >= ActiveSize
  BY <1>2, <1>4, LineBuffers DEF ActivationDropped
<1>6. \A c \in LineBuffer : \A j \in DOMAIN buf[c] : buf[c][j].bank \in banks
  <2>1. \A c \in LineBuffer : \A j \in DOMAIN buf[c] :
           buf[c][j].id \in 1..sent /\ StandsForLine(buf[c][j])
    BY LoadStoreState DEF LoadStoreInv
  <2>2. 1..sent \subseteq DOMAIN trace
    BY <1>4
  <2> QED
    BY <2>1, <2>2 DEF StandsForLine
<1>7. IsFiniteSet(banks) /\ Cardinality(banks) \in Nat
  <2>1. IsFiniteSet(DOMAIN trace)
    BY <1>4, FS_Interval
  <2>2. f \in Surjection(DOMAIN trace, banks)
    BY DEF Surjection
  <2> HIDE DEF f, banks
  <2> QED
    BY <2>1, <2>2, FS_Surjection, FS_CardinalityType
<1>8. Cardinality(banks) <= ActiveSize
  BY <1>4 DEF FewBanks
<1>9. q.bank \in banks
  BY <1>2, <1>6
<1>10. g \in Injection(1..n, banks \ {q.bank})
  <2>1. \A j \in 1..n : s[j].bank \in banks \ {q.bank}
    BY <1>2, <1>3, <1>5, <1>6
  <2>2. \A j, k \in 1..n : s[j].bank = s[k].bank => j = k
    <3>1. HoldRows(s, rows)
      BY ActiveAsSequence DEF LoadStoreInv
    <3> QED
      BY <1>5, <3>1 DEF HoldRows
  <2> HIDE DEF banks, q, s, n
  <2> QED
    BY <2>1, <2>2 DEF Injection, IsInjective
<1> HIDE DEF banks, q, g, n
<1>11. IsFiniteSet(banks \ {q.bank})
       /\ Cardinality(banks \ {q.bank}) = Cardinality(banks) - 1
  BY <1>7, <1>9, FS_RemoveElement
<1>12. Cardinality(1..n) <= Cardinality(banks \ {q.bank})
  BY <1>10, <1>11, FS_Injection
<1>13. Cardinality(1..n) = n
  BY <1>5, FS_Interval
<1> QED
  BY <1>4, <1>5, <1>7, <1>8, <1>11, <1>12, <1>13

(* Loads and stores on few enough banks are never lost.                    *)
THEOREM LoadsAndStoresKept ==
    ASSUME LoadsAndStoresOnly, FewBanks
    PROVE  Spec => []NoRequestLost
<1>1. LoadStoreInv /\ [Next]_vars => LoadStoreInv' /\ [~ActivationDropped]_vars
  BY LoadStoreNext, RoomForActivation
<1> QED
  BY <1>1, LoadStoreInit, NothingLost, PTL DEF Spec

----------------------------------------------------------------------------
(***************************************************************************)
(* Two writes to one address.  The earlier one is served before the later  *)
(* one leaves the write buffer: in the write buffer the scheduler prefers  *)
(* the earlier of two requests that need the same command, and in the      *)
(* active buffer the earlier one is a row hit, offered before the write    *)
(* buffer is looked at.                                                    *)
(***************************************************************************)
SameWrite(m, n) ==
    /\ trace[m].type = "write" /\ trace[n].type = "write"
    /\ Service!SameAddress(m, n) /\ m < n

WritesPassed(bufs, done) ==
    \A m, n \in 1..sent :
        SameWrite(m, n) /\ (n \in done \/ Holds(bufs, "active", n)) => m \in done

(* Where no barrier is every request competes; where every request has its *)
(* row open none is held back.                                             *)
LEMMA NoBarrierCompetes ==
    ASSUME NEW S, NEW s \in Seq(S), NEW r,
           \A i \in DOMAIN s : s[i].type \in {"read", "write"}
    PROVE  \A i \in DOMAIN s : Competes(r, s, i)
<1>1. Len(s) \in Nat /\ DOMAIN s = 1..Len(s)
  BY LenProperties
<1>2. \A i \in DOMAIN s : \A k \in 2..i : k \in DOMAIN s
  BY <1>1
<1> QED
  BY <1>2 DEF Competes

(* The active buffer offers one of its requests if one is ready: all of    *)
(* them are column commands.                                               *)
LEMMA ActiveOffers ==
    ASSUME LoadsAndStoresOnly, LoadStoreInv, NEW rdy,
           NEW j \in DOMAIN buf["active"], CheckReady(rows, rdy, buf["active"][j]),
           Eligible(buf["active"][j])
    PROVE  Offers(buf["active"], rdy)
<1> DEFINE s == buf["active"]
           k == BestRequest(rows, rdy, s)
<1>1. /\ \A i \in DOMAIN s : s[i].type \in {"read", "write"} /\ s[i].bank \in Bank
      /\ rows \in RowState /\ BuffersOK(buf, sent) /\ sent \in Nat
      /\ "active" \in LineBuffer
  BY LoadStoreState DEF LoadStoreInv, LineBuffer
<1>2. s \in Seq(Requests(sent)) /\ s # <<>> /\ DOMAIN s = 1..Len(s) /\ Len(s) \in Nat
  <2>1. s \in Seq(Requests(sent)) /\ DOMAIN s = 1..Len(s) /\ Len(s) \in Nat
    BY <1>1, LineBuffers
  <2>2. s # <<>>
    BY <2>1, EmptySeq
  <2> QED
    BY <2>1, <2>2
<1>3. \A i \in DOMAIN s : s[i].row \in rows[s[i].bank]
  BY ActiveAsSequence DEF LoadStoreInv, HoldRows
<1>4. \A i \in DOMAIN s : Cmd(rows, s[i]) = Final(s[i]) /\ Final(s[i]) \in {"RD", "WR"}
  BY <1>1, <1>3, LoadStoreCommand
<1>5. \A i \in DOMAIN s : CommandType(Cmd(rows, s[i])) = "col" /\ RowHit(rows, s[i])
  <2>1. \A c \in {"RD", "WR"} : CommandType(c) = "col" /\ c \in RowAccess
    BY DEF CommandType, RowAccess
  <2> QED
    BY <1>3, <1>4, <2>1 DEF RowHit, RowBufferHit
<1>6. \A i \in DOMAIN s : Competes(rows, s, i)
  BY <1>1, <1>2, NoBarrierCompetes
<1>7. \A i \in DOMAIN s : ~StealsHit(rows, s, i)
  BY <1>5 DEF StealsHit
<1> HIDE DEF s
<1>8. CheckReady(rows, rdy, s[k])
  BY <1>2, <1>6, <1>7, BestIsReady DEF s
<1>9. k \in DOMAIN s
  <2>1. \E best : /\ IsLoop(rows, rdy, s, best) /\ best \in [0..Len(s) -> DOMAIN s]
                  /\ k = best[Len(s)]
    BY <1>2, BestRequestLoop
  <2>2. Len(s) \in 0..Len(s)
    BY <1>2
  <2> QED
    BY <2>1, <2>2
<1> HIDE DEF k
<1>10. Eligible(s[k])
  BY <1>5, <1>9 DEF Eligible, s
<1> QED
  BY <1>2, <1>8, <1>10 DEF Offers, s, k

(* The earlier of two requests alike in all the scheduler looks at is the  *)
(* one chosen from a buffer in the order of arrival.                       *)
LEMMA EarlierFirst ==
    ASSUME NEW S, NEW s \in Seq(S), NEW r, NEW rdy,
           \A i \in DOMAIN s : s[i].arrive \in Int /\ s[i].type \in {"read", "write"},
           \A i, j \in DOMAIN s : i < j => s[i].arrive <= s[j].arrive,
           NEW i \in DOMAIN s, NEW j \in DOMAIN s, j < i,
           s[i].type = s[j].type, s[i].bank = s[j].bank, s[i].row = s[j].row,
           CheckReady(r, rdy, s[i])
    PROVE  i # BestRequest(r, rdy, s)
<1>1. /\ Len(s) \in Nat /\ DOMAIN s = 1..Len(s) /\ s # <<>>
      /\ i \in 1..Len(s) /\ j \in 1..Len(s) /\ i # 1
  <2>1. Len(s) \in Nat /\ DOMAIN s = 1..Len(s)
    BY LenProperties
  <2>2. i # 1 /\ s # <<>>
    BY <2>1, EmptySeq
  <2> QED
    BY <2>1, <2>2
<1>2. Cmd(r, s[i]) = Cmd(r, s[j])
  BY DEF Cmd
<1>3. CheckReady(r, rdy, s[j])
  BY <1>2 DEF CheckReady
<1>4. StealsHit(r, s, i) <=> StealsHit(r, s, j)
  BY <1>2 DEF StealsHit, RowHit
<1>5. \A k \in DOMAIN s : Competes(r, s, k)
  BY NoBarrierCompetes
<1> SUFFICES ASSUME i = BestRequest(r, rdy, s) PROVE FALSE
  OBVIOUS
<1>6. /\ ~CheckReady(r, rdy, s[1]) /\ Takes(r, rdy, s, i)
      /\ \A k \in 2..i-1 : ~Takes(r, rdy, s, k)
  BY <1>1, BestOfSorted
<1>7. Takes(r, rdy, s, j)
  BY <1>3, <1>4, <1>5, <1>6 DEF Takes
<1>8. j # 1
  BY <1>3, <1>6
<1>9. j \in 2..i-1
  BY <1>1, <1>8
<1> QED
  BY <1>6, <1>7, <1>9

LEMMA ChosenWrite ==
    ASSUME LoadsAndStoresOnly, LoadStoreInv, Kept(buf, served),
           WritesPassed(buf, served),
           NEW rdy, NEW bufs, NEW b, NEW i, Issued(rdy, bufs, b, i),
           NEW m \in 1..sent, SameWrite(m, buf[b][i].id)
    PROVE  m \in served
<1> DEFINE q == buf[b][i]
<1>1. /\ bufs = buf /\ b \in {"active", "read", "write"} /\ b \in LineBuffer
      /\ i \in DOMAIN buf[b] /\ q.type \in {"read", "write"} /\ q.bank \in Bank
  BY LoadStoreIssued
<1>2. /\ \A c \in LineBuffer : \A j \in DOMAIN buf[c] :
            /\ buf[c][j].type \in {"read", "write"} /\ buf[c][j].bank \in Bank
            /\ buf[c][j].id \in 1..sent
            /\ StandsForLine(buf[c][j]) /\ buf[c][j].type \in TypesOf(c)
      /\ BuffersOK(buf, sent) /\ sent \in Nat /\ rows \in RowState
      /\ Placed(buf, served)
  BY LoadStoreState DEF LoadStoreInv, Inv
<1>3. q.id \in 1..sent /\ StandsForLine(q) /\ q.type = "write" /\ q.type \in TypesOf(b)
  BY <1>1, <1>2 DEF SameWrite, StandsForLine
<1> SUFFICES ASSUME m \notin served PROVE FALSE
  OBVIOUS
<1>4. CASE b = "active"
  <2>1. Holds(buf, "active", q.id)
    BY <1>1, <1>4 DEF Holds
  <2> QED
    BY <1>3, <2>1 DEF WritesPassed
<1>5. CASE b # "active"
  <2>1. b = "write" /\ ~Offers(buf["active"], rdy)
        /\ i = BestRequest(rows, rdy, buf["write"])
        /\ CheckReady(rows, rdy, q) /\ Eligible(q)
    <3>1. b = "write"
      BY <1>1, <1>3, <1>5 DEF TypesOf
    <3> QED
      BY <1>1, <3>1 DEF Issued, Picked
  <2>2. PICK c \in LineBuffer : Holds(buf, c, m)
    BY DEF Kept
  <2>3. PICK j \in DOMAIN buf[c] : buf[c][j].id = m
    BY <2>2 DEF Holds
  <2> DEFINE p == buf[c][j]
  <2>4. StandsForLine(p) /\ p.type \in TypesOf(c)
    BY <1>2, <2>3
  <2>5. p.type = "write" /\ p.bank = q.bank /\ p.row = q.row /\ m < q.id
    BY <1>3, <2>3, <2>4 DEF SameWrite, StandsForLine, Service!SameAddress
  <2>6. Cmd(rows, p) = Cmd(rows, q)
    BY <1>3, <2>5 DEF Cmd
  <2>7. CheckReady(rows, rdy, p) /\ Eligible(p)
    BY <2>1, <2>5, <2>6 DEF CheckReady, Eligible
  <2>8. c = "active" \/ c = "write"
    BY <2>4, <2>5 DEF TypesOf, LineBuffer, PimType
  <2>9. CASE c = "active"
    BY <2>1, <2>3, <2>7, <2>9, ActiveOffers
  <2>10. CASE c = "write"
    <3> DEFINE s == buf["write"]
    <3>1. /\ "write" \in LineBuffer /\ "write" \in Queue
          /\ s \in Seq(Requests(sent)) /\ DOMAIN s = 1..Len(s) /\ Len(s) \in Nat
          /\ \A k \in DOMAIN s : s[k].arrive \in Int /\ s[k].id \in Int
      <4>1. "write" \in LineBuffer /\ "write" \in Queue
        BY DEF LineBuffer, Queue
      <4> QED
        BY <1>2, <4>1, LineBuffers
    <3>2. \A k, l \in DOMAIN s : k < l => s[k].id < s[l].id /\ s[k].arrive <= s[l].arrive
      BY <1>2, <3>1 DEF Placed, InOrder
    <3>3. \A k \in DOMAIN s : s[k].type \in {"read", "write"}
      BY <1>2, <3>1
    <3>4. i \in DOMAIN s /\ j \in DOMAIN s /\ s[i] = q /\ s[j] = p /\ s[j].id = m
      BY <1>1, <2>1, <2>3, <2>10
    <3>5. j < i
      <4>1. i # j /\ ~(i < j)
        <5>1. s[j].id < s[i].id /\ s[j].id \in Int /\ s[i].id \in Int
          BY <2>5, <3>1, <3>4
        <5> QED
          BY <3>2, <3>4, <5>1
      <4> QED
        BY <3>1, <3>4, <4>1
    <3>6. /\ s[i].type = s[j].type /\ s[i].bank = s[j].bank /\ s[i].row = s[j].row
          /\ CheckReady(rows, rdy, s[i]) /\ i = BestRequest(rows, rdy, s)
      BY <1>3, <2>1, <2>5, <3>4
    <3> HIDE DEF s, p, q
    <3> QED
      BY <3>1, <3>2, <3>3, <3>4, <3>5, <3>6, EarlierFirst
  <2> QED
    BY <2>8, <2>9, <2>10
<1> QED
  BY <1>4, <1>5

(* What an issue adds to the served and to the active lines is the request *)
(* it was chosen for.                                                      *)
LEMMA IssuedAlone ==
    ASSUME LoadsAndStoresOnly, LoadStoreInv, NEW rdy, NEW bufs, NEW b, NEW i,
           Issued(rdy, bufs, b, i)
    PROVE  /\ served \subseteq served' /\ served' \subseteq served \cup {buf[b][i].id}
           /\ \A n : Holds(buf', "active", n) =>
                        Holds(buf, "active", n) \/ n = buf[b][i].id
<1> DEFINE q == buf[b][i]
           s == buf["active"]
<1>1. /\ bufs = buf /\ b \in {"active", "read", "write"} /\ b \in LineBuffer
      /\ i \in DOMAIN buf[b] /\ Issue(buf, b, i)
  BY LoadStoreIssued DEF Issued
<1>2. /\ Passed(buf) = {} /\ BuffersOK(buf, sent) /\ sent \in Nat
      /\ "active" \in LineBuffer /\ buf = [c \in Buffer |-> buf[c]]
      /\ b \in Buffer /\ "active" \in Buffer
  BY <1>1, LoadStoreState DEF LoadStoreInv, LineBuffer, Buffer, BuffersOK
<1>3. s \in Seq(Requests(sent)) /\ Len(s) \in Nat /\ DOMAIN s = 1..Len(s)
  BY <1>2, LineBuffers
<1>4. served \subseteq served' /\ served' \subseteq served \cup {q.id}
  BY <1>1, <1>2 DEF Issue
<1>5. \/ buf'["active"] = s \/ buf'["active"] = Append(s, q)
      \/ b = "active" /\ buf'["active"] = RemoveAt(s, i)
      \/ b = "active" /\ buf'["active"] = RemoveAt(Append(s, q), i)
  <2>1. CASE buf' = [buf EXCEPT ![b] = RemoveAt(@, i)]
    BY <1>1, <1>2, <2>1
  <2>2. CASE buf' = [[buf EXCEPT !["active"] = Append(@, q)] EXCEPT ![b] = RemoveAt(@, i)]
    BY <1>1, <1>2, <2>2
  <2>3. CASE buf' = buf
    BY <2>3
  <2> QED
    BY <1>1, <2>1, <2>2, <2>3 DEF Issue
<1>6. q \in Requests(sent)
  BY <1>1, <1>2, LineBuffers
<1>7. \A n : (\E j \in DOMAIN Append(s, q) : Append(s, q)[j].id = n) =>
                 Holds(buf, "active", n) \/ n = q.id
  <2>1. /\ DOMAIN Append(s, q) = 1..Len(s)+1 /\ Append(s, q)[Len(s)+1] = q
        /\ \A j \in 1..Len(s) : Append(s, q)[j] = s[j]
    BY <1>3
  <2>2. \A j \in 1..Len(s)+1 : j = Len(s)+1 \/ j \in 1..Len(s)
    BY <1>3
  <2> HIDE DEF q
  <2> QED
    BY <1>3, <2>1, <2>2 DEF Holds
<1>8. ASSUME NEW t, NEW S, t \in Seq(S), NEW k \in DOMAIN t
      PROVE  \A n : (\E j \in DOMAIN RemoveAt(t, k) : RemoveAt(t, k)[j].id = n) =>
                       \E j \in DOMAIN t : t[j].id = n
  <2>1. /\ DOMAIN RemoveAt(t, k) = 1..Len(t)-1 /\ DOMAIN t = 1..Len(t) /\ Len(t) \in Nat
        /\ \A j \in 1..Len(t)-1 : RemoveAt(t, k)[j] = t[IF j < k THEN j ELSE j + 1]
    BY <1>8, RemoveAtElements, LenProperties
  <2>2. \A j \in 1..Len(t)-1 : (IF j < k THEN j ELSE j + 1) \in DOMAIN t
    BY <2>1
  <2> QED
    BY <2>1, <2>2
<1>9. Append(s, q) \in Seq(Requests(sent)) /\ (b = "active" => i \in DOMAIN Append(s, q))
  BY <1>1, <1>3, <1>6, AppendProperties, LenProperties
<1> HIDE DEF q
<1>10. ASSUME NEW n, NEW j \in DOMAIN buf'["active"], buf'["active"][j].id = n
       PROVE  Holds(buf, "active", n) \/ n = q.id
  <2>1. CASE buf'["active"] = s
    BY <1>10, <2>1 DEF Holds
  <2>2. CASE buf'["active"] = Append(s, q)
    <3>1. \E k \in DOMAIN Append(s, q) : Append(s, q)[k].id = n
      BY <1>10, <2>2
    <3> QED
      BY <1>7, <3>1
  <2>3. CASE b = "active" /\ buf'["active"] = RemoveAt(s, i)
    <3>1. \E k \in DOMAIN RemoveAt(s, i) : RemoveAt(s, i)[k].id = n
      BY <1>10, <2>3
    <3> QED
      BY <1>1, <1>3, <1>8, <2>3, <3>1 DEF Holds
  <2>4. CASE b = "active" /\ buf'["active"] = RemoveAt(Append(s, q), i)
    <3> DEFINE t == Append(s, q)
    <3>1. \E k \in DOMAIN RemoveAt(t, i) : RemoveAt(t, i)[k].id = n
      BY <1>10, <2>4
    <3>2. t \in Seq(Requests(sent)) /\ i \in DOMAIN t
      BY <1>9, <2>4
    <3> HIDE DEF t
    <3>3. \E k \in DOMAIN t : t[k].id = n
      BY <1>8, <3>1, <3>2
    <3> QED
      BY <1>7, <3>3 DEF t
  <2> QED
    BY <1>5, <2>1, <2>2, <2>3, <2>4
<1>11. \A n : Holds(buf', "active", n) => Holds(buf, "active", n) \/ n = q.id
  BY <1>10 DEF Holds
<1> QED
  BY <1>4, <1>11 DEF q

LEMMA WritesStep ==
    ASSUME LoadsAndStoresOnly, LoadStoreInv, Kept(buf, served),
           WritesPassed(buf, served), [Next]_vars
    PROVE  WritesPassed(buf, served)'
<1>1. /\ sent \in Nat /\ served \subseteq 1..sent /\ BuffersOK(buf, sent)
      /\ "active" \in LineBuffer /\ "active" \in Buffer
  BY SystemAssumption, LenProperties
     DEF LoadStoreInv, Inv, TypeOK, ControllerOK, SystemAssumption, LineBuffer, Buffer
<1>2. trace' = trace
  BY DEF Next, Terminated, vars, FrontendSend, FrontendDone, MemoryCycle,
         MemoryCycleWithRefresh, MemorySlot
<1>3. \A m, n : SameWrite(m, n)' = SameWrite(m, n)
  BY <1>2 DEF SameWrite, Service!SameAddress
<1>4. CASE sent' = sent /\ served' = served /\ buf'["active"] = buf["active"]
  BY <1>3, <1>4 DEF WritesPassed, Holds
<1>5. CASE FrontendSend
  <2> DEFINE q == Request(sent + 1)
  <2>1. /\ sent' = sent + 1 /\ buf'["active"] = buf["active"]
        /\ served \subseteq served'
        /\ served' \subseteq served \cup {sent + 1}
        /\ trace[sent + 1].type = "write" => served' = served
    <3>1. sent' = sent + 1 /\ (Forward(q) \/ Enqueue(q))
      BY <1>5 DEF FrontendSend, Send
    <3>2. buf'["active"] = buf["active"]
      BY <1>1, <3>1 DEF Forward, Enqueue, Home, BuffersOK
    <3> QED
      BY <3>1, <3>2 DEF Forward, Forwarded, Enqueue, Request
  <2>2. \A n : Holds(buf, "active", n) => n \in 1..sent
    BY <1>1, LineBuffers DEF Holds
  <2>3. sent + 1 \notin 1..sent /\ \A n \in 1..sent + 1 : n = sent + 1 \/ n \in 1..sent
    BY <1>1
  <2>4. \A m, n \in 1..sent + 1 : SameWrite(m, n) => m \in 1..sent
    <3>1. \A n \in 1..sent + 1 : ~(sent + 1 < n)
      BY <1>1
    <3> QED
      BY <2>3, <3>1 DEF SameWrite
  <2>5. \A n \in served' : trace[n].type = "write" => n \in served
    BY <2>1
  <2> SUFFICES ASSUME NEW m \in 1..sent + 1, NEW n \in 1..sent + 1, SameWrite(m, n),
                      n \in served' \/ Holds(buf, "active", n)
               PROVE  m \in served'
    BY <1>3, <2>1 DEF WritesPassed, Holds
  <2>6. n \in served \/ Holds(buf, "active", n)
    BY <2>5 DEF SameWrite
  <2>7. n \in 1..sent /\ m \in 1..sent
    BY <1>1, <2>2, <2>4, <2>6
  <2>8. m \in served
    BY <2>6, <2>7 DEF WritesPassed
  <2> QED
    BY <2>1, <2>8
<1>6. CASE FrontendDone \/ MemoryCycle \/ UNCHANGED vars
  BY <1>4, <1>6 DEF FrontendDone, MemoryCycle, Cycle, StartCycle, ctrl, vars
<1>7. ~MemoryCycleWithRefresh
  BY DEF MemoryCycleWithRefresh, LoadsAndStoresOnly, LoadStoreInv, Inv, TypeOK
<1>8. CASE MemorySlot
  <2>1. sent' = sent
    BY <1>8 DEF MemorySlot
  <2>2. CASE NothingIssued
    <3>1. buf' = buf /\ served' = served
      BY <2>2, LoadStoreState DEF NothingIssued, NoIssue, LoadStoreInv
    <3> QED
      BY <1>4, <2>1, <3>1
  <2>3. ASSUME NEW rdy, NEW bufs, NEW b, NEW i, Issued(rdy, bufs, b, i)
        PROVE  WritesPassed(buf, served)'
    <3> DEFINE q == buf[b][i]
    <3>1. /\ served \subseteq served' /\ served' \subseteq served \cup {q.id}
          /\ \A n : Holds(buf', "active", n) => Holds(buf, "active", n) \/ n = q.id
      BY <2>3, IssuedAlone
    <3>2. \A m \in 1..sent : SameWrite(m, q.id) => m \in served
      BY <2>3, ChosenWrite
    <3> HIDE DEF q
    <3> SUFFICES ASSUME NEW m \in 1..sent, NEW n \in 1..sent, SameWrite(m, n),
                        n \in served' \/ Holds(buf', "active", n)
                 PROVE  m \in served'
      BY <1>3, <2>1 DEF WritesPassed, Holds
    <3>3. n \in served \/ Holds(buf, "active", n) \/ n = q.id
      BY <3>1
    <3>4. m \in served
      BY <3>2, <3>3 DEF WritesPassed
    <3> QED
      BY <3>1, <3>4
  <2>4. NothingIssued \/ \E rdy, bufs, b, i : Issued(rdy, bufs, b, i)
    BY <1>8, SlotOutcome DEF MemorySlot, LoadStoreInv, Inv
  <2> QED
    BY <2>2, <2>3, <2>4
<1> QED
  BY <1>5, <1>6, <1>7, <1>8 DEF Next, Terminated

(* Without PIM lines and refreshes two writes to one address are served in *)
(* trace order, unless the first of them was dropped.                      *)
THEOREM WritesServedInOrder ==
    ASSUME LoadsAndStoresOnly
    PROVE  Spec /\ [][~ActivationDropped]_vars => []WritesKeepOrder
<1> DEFINE WInv == LoadStoreInv /\ Kept(buf, served) /\ WritesPassed(buf, served)
<1>1. Init => WInv
  <2>1. Init => WritesPassed(buf, served)
    BY DEF Init, ControllerInit, WritesPassed
  <2> QED
    BY <2>1, LoadStoreInit, InitInv
<1>2. WInv /\ [Next]_vars /\ [~ActivationDropped]_vars => WInv'
  BY LoadStoreNext, KeptStep, WritesStep DEF LoadStoreInv
<1>3. WInv => WritesKeepOrder
  BY DEF WritesPassed, WritesKeepOrder, SameWrite
<1> QED
  BY <1>1, <1>2, <1>3, PTL DEF Spec

(* So they are if the trace addresses no more banks than the active buffer *)
(* has room for.                                                           *)
THEOREM FewBanksWritesInOrder ==
    ASSUME LoadsAndStoresOnly, FewBanks
    PROVE  Spec => []WritesKeepOrder
<1>1. LoadStoreInv /\ [Next]_vars => LoadStoreInv' /\ [~ActivationDropped]_vars
  BY LoadStoreNext, RoomForActivation
<1> QED
  BY <1>1, LoadStoreInit, WritesServedInOrder, PTL DEF Spec
=============================================================================
