------------------------- MODULE HBM3PIMController -------------------------
(***************************************************************************)
(* The HBM3-PIM controller of one channel.  Each memory cycle it completes *)
(* at most one read, lets the refresh manager queue refreshes, and then    *)
(* picks up to two commands to issue: one of any type, and a second one of *)
(* the other type (row or column).                                         *)
(*                                                                         *)
(* One cycle is three phases in a fixed order (variable phase): "cycle",   *)
(* "first", "second".  Everything a phase does is one step.                *)
(***************************************************************************)
EXTENDS PIMScheduler

CONSTANTS
    QueueSize,     \* max_size of the read, write and PIM buffers (32)
    ActiveSize,    \* max_size of the active buffer (32)
    PrioritySize,  \* max_size of the priority buffer (512*3 + 32)
    ReadLatency,   \* m_read_latency, in cycles
    MaxQuiet       \* cycles without a command after which all timing
                   \* constraints have expired

ASSUME ControllerAssumption ==
    {QueueSize, ActiveSize, PrioritySize, ReadLatency, MaxQuiet} \subseteq Nat \ {0}

VARIABLES
    rows,       \* the device: open rows of every bank
    buf,        \* the request buffers, by name
    pending,    \* reads waiting for their data: FIFO of [req, left]
    isPim,      \* is_pim
    writeMode,  \* m_is_write_mode
    phase,      \* where the cycle is
    first,      \* first_command's type as the second slot reads it
    quiet,      \* cycles since a command was issued, up to MaxQuiet
    slots,      \* the commands issued in this cycle
    served,     \* history: requests whose final command was issued, that
                \*   were forwarded, and barriers passed
    completed   \* history: reads whose callback was called

ctrl == <<rows, buf, pending, isPim, writeMode, phase, first, quiet, slots,
          served, completed>>

Buffer == {"active", "priority", "read", "write", "pim"}

ControllerInit ==
    /\ rows = AllClosed
    /\ buf = [b \in Buffer |-> <<>>]
    /\ pending = <<>>
    /\ isPim = FALSE
    /\ writeMode = FALSE
    /\ phase = "idle"
    /\ first = "any"
    /\ quiet = 0
    /\ slots = <<>>
    /\ served = {}
    /\ completed = {}

----------------------------------------------------------------------------
(* send: the frontend hands over a request between two cycles. *)

Home(q) == CASE q.type = "read" -> "read" [] q.type = "write" -> "write"
             [] OTHER -> "pim"

(* Mutant of SameAddr: the row is left out of the address. *)
SameAddrWithoutRow(p, q) == p.bank = q.bank /\ p.col = q.col

SameAddr(p, q) == p.bank = q.bank /\ p.row = q.row /\ p.col = q.col

(* A read that finds its address in the write buffer is forwarded; its     *)
(* arrival time is never set.                                              *)
Forwarded(q) ==
    q.type = "read" /\ \E i \in DOMAIN buf["write"] : SameAddr(buf["write"][i], q)

Accepts(q) == Forwarded(q) \/ Len(buf[Home(q)]) < QueueSize

(* Mutant of Forward: the early return is missing. *)
ForwardAndEnqueue(q) ==
    /\ Forwarded(q)
    /\ pending' = Append(pending, [req |-> [q EXCEPT !.arrive = -1], left |-> 1])
    /\ served' = served \cup {q.id}
    /\ buf' = [buf EXCEPT ![Home(q)] = Append(@, q)]

Forward(q) ==
    /\ Forwarded(q)
    /\ pending' = Append(pending, [req |-> [q EXCEPT !.arrive = -1], left |-> 1])
    /\ served' = served \cup {q.id}
    /\ UNCHANGED buf

Enqueue(q) ==
    /\ ~Forwarded(q)
    /\ Len(buf[Home(q)]) < QueueSize
    /\ buf' = [buf EXCEPT ![Home(q)] = Append(@, q)]
    /\ UNCHANGED <<pending, served>>

Send(q) ==
    /\ phase = "idle"
    /\ Forward(q) \/ Enqueue(q)
    /\ UNCHANGED <<rows, isPim, writeMode, phase, first, quiet, slots, completed>>

----------------------------------------------------------------------------
(* The start of a cycle: serve_completed_reads looks at the oldest entry   *)
(* of pending only; then the refresh manager ticks, and when a refresh is  *)
(* due it queues one request per pseudochannel.                            *)

RefreshRequest(p) ==
    [id |-> 0, type |-> "all-bank-refresh",
     bank |-> [pch |-> p, rank |-> -1, bg |-> -1, bk |-> -1],
     row |-> -1, col |-> -1, arrive |-> -1]

(* Mutant of RefreshBurst: the pseudochannels are numbered from 1. *)
RefreshBurstFromOne == [p \in 1..NPch |-> RefreshRequest(p)]

RefreshBurst == [p \in 1..NPch |-> RefreshRequest(p - 1)]

ServeCompletedReads ==
    LET aged == [i \in DOMAIN pending |->
                    [pending[i] EXCEPT !.left = IF @ = 0 THEN 0 ELSE @ - 1]]
        done == pending # <<>> /\ aged[1].left = 0
    IN  /\ pending' = IF done THEN Tail(aged) ELSE aged
        /\ completed' = IF done THEN completed \cup {aged[1].req.id} ELSE completed

StartCycle ==
    /\ phase = "idle"
    /\ ServeCompletedReads
    /\ slots' = <<>>
    /\ first' = "any"
    /\ UNCHANGED <<rows, isPim, writeMode, quiet, served>>

Cycle ==
    /\ StartCycle
    /\ phase' = "first"
    /\ UNCHANGED buf

CycleWithRefresh ==
    /\ StartCycle
    /\ Len(buf["priority"]) + NPch <= PrioritySize
    /\ buf' = [buf EXCEPT !["priority"] = @ \o RefreshBurst]
    /\ phase' = "first"

(* "Failed to send refresh!": the simulation stops with an exception. *)
RefreshFails ==
    /\ StartCycle
    /\ Len(buf["priority"]) + NPch > PrioritySize
    /\ phase' = "thrown"
    /\ UNCHANGED buf

----------------------------------------------------------------------------
(* The two command slots.                                                  *)

(* get_command_type; PRESB, PREPB and BARRIER are not in its list. *)
CommandType(cmd) ==
    CASE cmd \in {"ACT", "PRE", "PREA", "REFab", "ACTAB", "ACTSB", "ACTPB"} -> "row"
      [] cmd \in RowAccess \cup (DataMove \ {"BARRIER"}) -> "col"
      [] OTHER -> "none"

TypeRead == {"row", "col", "none"}

(* The first slot takes any command, the second one of the other type. *)
Eligible(q) == first = "any" \/ {first, CommandType(Cmd(rows, q))} = {"row", "col"}

(***************************************************************************)
(* The commands whose timing constraints may have expired: any set, until  *)
(* MaxQuiet cycles without a command have made every command ready.        *)
(* Commands without constraints are always ready; an opening command takes *)
(* two cycles, so no row command joins it in its cycle.                    *)
(***************************************************************************)
Wanted == {<<Cmd(rows, q), q.bank>> : q \in UNION {ToSet(buf[b]) : b \in Buffer}}
Unconstrained == {w \in Wanted : w[1] \in {"BARRIER", "SETM", "SETH"}}
RowBusTaken(cmd) ==
    IF cmd \notin Opening THEN {}
    ELSE {cmd, "ACT", "PRE", "PREA", "REFab"}
             \cup (IF cmd \in {"ACT", "ACTSB"} THEN {"PRESB"} ELSE {})
             \cup (IF cmd = "ACTPB" THEN {"PREPB"} ELSE {})
Possible == {w \in Wanted : \A c \in ToSet(slots) : w[1] \notin RowBusTaken(c)}
Readiness ==
    IF quiet = MaxQuiet /\ slots = <<>> THEN {Wanted}
    ELSE {Unconstrained \cup S : S \in SUBSET (Possible \ Unconstrained)}

(* The best request of a buffer is one the slot can serve. *)
Offers(s, rdy) ==
    /\ s # <<>>
    /\ LET q == s[BestRequest(rows, rdy, s)] IN CheckReady(rows, rdy, q) /\ Eligible(q)

(* set_write_mode, with the watermarks 0.2 and 0.8. *)
(* Mutant of NextWriteMode: the write mode is never left. *)
NextWriteModeSticks ==
    writeMode \/ 10 * Len(buf["write"]) > 8 * QueueSize \/ buf["read"] = <<>>

NextWriteMode ==
    LET writes == Len(buf["write"])
        reads  == Len(buf["read"])
    IN  IF writeMode THEN ~(10 * writes < 2 * QueueSize /\ reads # 0)
        ELSE 10 * writes > 8 * QueueSize \/ reads = 0

(* After the first slot comes the second, after that the cycle is over. *)
EndSlot(issued) ==
    /\ phase' = IF phase = "first" THEN "second" ELSE "idle"
    /\ slots' = slots \o issued
    /\ quiet' = IF slots' # <<>> THEN 0
                ELSE IF phase = "second" /\ quiet < MaxQuiet THEN quiet + 1
                ELSE quiet

(* What the second slot reads as the type of the first command. *)
FirstCommandIs(types) == first' \in IF phase = "first" THEN types ELSE {"any"}

(* The barrier get_best_request has removed to arrive at bufs, if any. *)
Passed(bufs) == IF bufs["pim"] # buf["pim"] /\ FrontBarrier(buf["pim"])
                THEN {Head(buf["pim"]).id} ELSE {}

(***************************************************************************)
(* Issue the command of request i of buffer b.  A request whose final      *)
(* command is issued leaves; one whose row is opened moves to the active   *)
(* buffer, whose enqueue may fail.  Both leave req_it dangling, so what    *)
(* the second slot reads from it is undefined.                             *)
(***************************************************************************)
Issue(bufs, b, i) ==
    LET q == bufs[b][i]
        cmd == Cmd(rows, q)
        activated == IF Len(bufs["active"]) < ActiveSize
                     THEN [bufs EXCEPT !["active"] = Append(@, q)] ELSE bufs
    IN  /\ rows' = RowsAfter(rows, cmd, q.bank, q.row)
        /\ EndSlot(<<cmd>>)
        /\ \/ /\ cmd = Final(q)
              /\ buf' = [bufs EXCEPT ![b] = RemoveAt(@, i)]
              /\ pending' = IF q.type = "read"
                            THEN Append(pending, [req |-> q, left |-> ReadLatency])
                            ELSE pending
              /\ served' = served \cup Passed(bufs) \cup ({q.id} \ {0})
              /\ FirstCommandIs(TypeRead)
           \/ /\ cmd # Final(q) /\ cmd \in Opening /\ ~isPim'
              /\ buf' = [activated EXCEPT ![b] = RemoveAt(@, i)]
              /\ FirstCommandIs(TypeRead)
              /\ served' = served \cup Passed(bufs)
              /\ UNCHANGED pending
           \/ /\ cmd # Final(q) /\ (cmd \notin Opening \/ isPim')
              /\ buf' = bufs
              /\ FirstCommandIs({CommandType(cmd)})
              /\ served' = served \cup Passed(bufs)
              /\ UNCHANGED pending
        /\ UNCHANGED completed

(* Nothing is issued in this slot. *)
NoIssue(bufs, types) ==
    /\ buf' = bufs
    /\ EndSlot(<<>>)
    /\ FirstCommandIs(types)
    /\ served' = served \cup Passed(bufs)
    /\ UNCHANGED <<rows, pending, completed>>

(* 2.3: a closing command must not address the bank of an active request. *)
(* Mutant of Vetoed: active requests are not protected. *)
VetoedNever(q) == FALSE

Vetoed(q) ==
    /\ Cmd(rows, q) \in Closing
    /\ \E k \in DOMAIN buf["active"] : buf["active"][k].bank = q.bank

IssueUnlessVetoed(bufs, b, i) ==
    \/ ~Vetoed(bufs[b][i]) /\ Issue(bufs, b, i)
    \/ Vetoed(bufs[b][i]) /\ NoIssue(bufs, {CommandType(Cmd(rows, bufs[b][i]))})

(***************************************************************************)
(* schedule_request and schedule_sec_request, one alternative per outcome. *)
(* The active buffer comes first; is_pim keeps its old value there.        *)
(***************************************************************************)
InSlot == phase \in {"first", "second"}

ServeActive(rdy) ==
    /\ InSlot
    /\ Offers(buf["active"], rdy)
    /\ UNCHANGED <<isPim, writeMode>>
    /\ \E i \in DOMAIN buf["active"] :
          /\ i = BestRequest(rows, rdy, buf["active"])
          /\ IssueUnlessVetoed(buf, "active", i)

(* Then the head of the priority buffer: once its command is of a type the *)
(* slot takes, nothing else is tried, ready or not.                        *)
Urgent == buf["priority"] # <<>> /\ Eligible(Head(buf["priority"]))

ServePriority(rdy) ==
    /\ InSlot /\ ~Offers(buf["active"], rdy) /\ Urgent
    /\ CheckReady(rows, rdy, Head(buf["priority"]))
    /\ isPim' = FALSE
    /\ UNCHANGED writeMode
    /\ IssueUnlessVetoed(buf, "priority", 1)

WaitForPriority(rdy) ==
    /\ InSlot /\ ~Offers(buf["active"], rdy) /\ Urgent
    /\ ~CheckReady(rows, rdy, Head(buf["priority"]))
    /\ UNCHANGED <<isPim, writeMode>>
    /\ NoIssue(buf, {CommandType(Cmd(rows, Head(buf["priority"])))})

(* Then the PIM buffer, which drops a barrier at its front in passing. *)
AfterBarrier == [buf EXCEPT !["pim"] = PassBarrier(@)]

(* Mutant of ReachesPim: the early return is missing, an unready priority  *)
(* request lets the others pass.                                           *)
ReachesPimPastUnready(rdy) ==
    /\ InSlot /\ ~Offers(buf["active"], rdy)
    /\ Urgent => ~CheckReady(rows, rdy, Head(buf["priority"]))

ReachesPim(rdy) == InSlot /\ ~Offers(buf["active"], rdy) /\ ~Urgent

ServePim(rdy) ==
    /\ ReachesPim(rdy)
    /\ Offers(AfterBarrier["pim"], rdy)
    /\ isPim' = TRUE
    /\ UNCHANGED writeMode
    /\ \E i \in DOMAIN AfterBarrier["pim"] :
          /\ i = BestRequest(rows, rdy, AfterBarrier["pim"])
          /\ IssueUnlessVetoed(AfterBarrier, "pim", i)

(* And last the read or the write buffer, as the write mode has it. *)
Source == IF writeMode' THEN "write" ELSE "read"

ReachesReadWrite(rdy) ==
    /\ ReachesPim(rdy)
    /\ ~Offers(AfterBarrier["pim"], rdy)
    /\ isPim' = FALSE
    /\ writeMode' = NextWriteMode

ServeReadWrite(rdy) ==
    /\ ReachesReadWrite(rdy)
    /\ Offers(buf[Source], rdy)
    /\ \E i \in DOMAIN buf[Source] :
          /\ i = BestRequest(rows, rdy, buf[Source])
          /\ IssueUnlessVetoed(AfterBarrier, Source, i)

(* The slot stays empty; req_it is the last candidate looked at, if any. *)
ServeNone(rdy) ==
    /\ ReachesReadWrite(rdy)
    /\ ~Offers(buf[Source], rdy)
    /\ NoIssue(AfterBarrier,
               IF buf[Source] = <<>> THEN TypeRead
               ELSE {CommandType(Cmd(rows, buf[Source][BestRequest(rows, rdy, buf[Source])]))})

Slot ==
    \E rdy \in Readiness :
        \/ ServeActive(rdy)
        \/ ServePriority(rdy)
        \/ WaitForPriority(rdy)
        \/ ServePim(rdy)
        \/ ServeReadWrite(rdy)
        \/ ServeNone(rdy)

IsPending == pending # <<>> \/ \E b \in Buffer : buf[b] # <<>>
============================================================================
