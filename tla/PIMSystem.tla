----------------------------- MODULE PIMSystem -----------------------------
(***************************************************************************)
(* One simulation: the trace frontend replays a trace into the controller  *)
(* of a one-channel memory system until both are drained.  The main loop   *)
(* ticks the frontend, then the memory system, and leaves once the         *)
(* frontend is finished and no request is pending.                         *)
(***************************************************************************)
EXTENDS HBM3PIMController

CONSTANTS
    Traces,      \* the traces that may be replayed: sequences of lines
    Col,         \* the columns the traces address
    MaxRefresh   \* how often a refresh may come due within a run

TraceLine == [type : {"read", "write"} \cup PimType, bank : Bank, row : Row,
              col : Col]

ASSUME SystemAssumption ==
    /\ Traces \subseteq Seq(TraceLine)
    /\ Row \subseteq Nat /\ Col \subseteq Nat
    /\ MaxRefresh \in Nat

VARIABLES
    trace,      \* m_trace
    sent,       \* m_trace_count
    burst,      \* lines sent before this frontend tick: the age of requests
    turn,       \* whose tick it is: "frontend", "memory", or "exit"
    refreshes   \* refreshes that have come due

vars == <<rows, buf, pending, isPim, writeMode, phase, first, quiet, slots,
          served, completed, trace, sent, burst, turn, refreshes>>

Init ==
    /\ ControllerInit
    /\ trace \in Traces
    /\ sent = 0
    /\ burst = 0
    /\ turn = "frontend"
    /\ refreshes = 0

Finished == sent = Len(trace)

(* Line n of the trace as a request; requests sent in one tick share their *)
(* arrival time, so their age is the number of lines sent before the tick. *)
Request(n) ==
    [id |-> n, type |-> trace[n].type, bank |-> trace[n].bank,
     row |-> trace[n].row, col |-> trace[n].col, arrive |-> burst]

(* The frontend sends until it is finished or a buffer is full. *)
FrontendSend ==
    /\ turn = "frontend" /\ ~Finished
    /\ Send(Request(sent + 1))
    /\ sent' = sent + 1
    /\ UNCHANGED <<trace, burst, turn, refreshes>>

FrontendDone ==
    /\ turn = "frontend"
    /\ ~Finished => ~Accepts(Request(sent + 1))
    /\ turn' = "memory"
    /\ burst' = sent
    /\ UNCHANGED <<ctrl, trace, sent, refreshes>>

MemoryCycle ==
    /\ turn = "memory"
    /\ Cycle
    /\ UNCHANGED <<trace, sent, burst, turn, refreshes>>

MemoryCycleWithRefresh ==
    /\ turn = "memory"
    /\ refreshes < MaxRefresh
    /\ CycleWithRefresh \/ RefreshFails
    /\ refreshes' = refreshes + 1
    /\ UNCHANGED <<trace, sent, burst, turn>>

(* After the second slot the main loop decides whether to go on. *)
MemorySlot ==
    /\ turn = "memory"
    /\ Slot
    /\ turn' = IF phase' # "idle" THEN "memory"
               ELSE IF Finished /\ ~IsPending' THEN "exit" ELSE "frontend"
    /\ UNCHANGED <<trace, sent, burst, refreshes>>

Stopped == turn = "exit" \/ phase = "thrown"
Terminated == Stopped /\ UNCHANGED vars

Next == \/ FrontendSend \/ FrontendDone
        \/ MemoryCycle \/ MemoryCycleWithRefresh \/ MemorySlot
        \/ Terminated

Spec == Init /\ [][Next]_vars

(* An active request whose row is open is served. *)
ServeOpenRow ==
    \E q \in ToSet(buf["active"]) :
        Cmd(rows, q) = Final(q) /\ MemorySlot /\ q.id \in served'

(***************************************************************************)
(* The main loop goes on, and the timing table lets a column command go    *)
(* (nRCDRD, nRCDWR) before the row may be closed again (nRAS): a request   *)
(* whose row is opened over and over is not overtaken for ever.            *)
(***************************************************************************)
FairSpec == Spec /\ WF_vars(Next) /\ SF_vars(ServeOpenRow)
----------------------------------------------------------------------------
(* The requests of the first n lines, and what each buffer may hold. *)
Requests(n) ==
    [id : 1..n, type : {"read", "write"} \cup PimType, bank : Bank, row : Row,
     col : Col, arrive : 0..n]
Refreshes == {RefreshRequest(p) : p \in 0..NPch-1}
Contents(b, n) == IF b = "priority" THEN Seq(Refreshes) ELSE Seq(Requests(n))
BuffersOK(bufs, n) ==
    /\ bufs = [b \in Buffer |-> bufs[b]]
    /\ \A b \in Buffer : bufs[b] \in Contents(b, n)

(* Forwarded reads, which have no arrival time, are in pending only. *)
Delivery(n) ==
    [req : Requests(n) \cup {[q EXCEPT !.arrive = -1] : q \in Requests(n)},
     left : 0..ReadLatency]

ControllerOK ==
    /\ rows \in RowState
    /\ BuffersOK(buf, sent)
    /\ pending \in Seq(Delivery(sent))
    /\ isPim \in BOOLEAN /\ writeMode \in BOOLEAN
    /\ phase \in {"idle", "first", "second", "thrown"}
    /\ first \in TypeRead \cup {"any"}
    /\ quiet \in 0..MaxQuiet
    /\ slots \in Seq(Command)
    /\ served \subseteq 1..sent
    /\ completed \subseteq 1..sent

TypeOK ==
    /\ trace \in Traces
    /\ sent \in 0..Len(trace)
    /\ burst \in 0..sent
    /\ turn \in {"frontend", "memory", "exit"}
    /\ refreshes \in 0..MaxRefresh
    /\ ControllerOK

(***************************************************************************)
(* Every line sent is in exactly one place until it is served, and in none *)
(* afterwards; a read served is in pending once until it is completed.     *)
(* Moving a request between buffers, dropping barriers, forwarding and two *)
(* slots removing from the same buffer neither lose nor double a request.  *)
(***************************************************************************)
Places(n) ==
    UNION {{b} \X {i \in DOMAIN buf[b] : buf[b][i].id = n} : b \in Buffer}
InFlight(n) == {i \in DOMAIN pending : pending[i].req.id = n}

NoRequestLost ==
    \A n \in 1..sent :
        /\ Cardinality(Places(n)) = IF n \in served THEN 0 ELSE 1
        /\ Cardinality(InFlight(n)) =
              IF trace[n].type = "read" /\ n \in served \ completed THEN 1 ELSE 0

(***************************************************************************)
(* The system implements the service: acceptance in trace order, service   *)
(* at most once, PIM lines in barrier order, delivery after service.       *)
(***************************************************************************)
Service == INSTANCE PIMService WITH
    trace <- trace, sent <- sent, served <- served, completed <- completed
ImplementsService == Service!Spec

(***************************************************************************)
(* While a refresh waits nothing but the requests already in the active    *)
(* buffer opens a row, and none joins them: neither slot lets a PIM, read  *)
(* or write request activate past the priority buffer, so the banks the    *)
(* refresh needs closed stay closed once they are.                         *)
(***************************************************************************)
RefreshHoldsOffActivation ==
    [][buf["priority"] # <<>> =>
          /\ Len(buf'["active"]) <= Len(buf["active"])
          /\ \A b \in Bank : rows'[b] \subseteq
                 rows[b] \cup {q.row : q \in ToSet(buf["active"])}]_vars

(***************************************************************************)
(* Without PIM lines and refreshes nothing but the veto decides which rows *)
(* are closed: then an active request keeps its row until it is served,    *)
(* and no two active requests share a bank.                                *)
(***************************************************************************)
ActiveRequestsHoldTheirRow ==
    \A i, j \in DOMAIN buf["active"] :
        LET p == buf["active"][i]
            q == buf["active"][j]
        IN  p.row \in rows[p.bank] /\ (p.bank = q.bank => i = j)

(***************************************************************************)
(* Two writes to one address reach the device in trace order, although one *)
(* may have moved to the active buffer while the other has not.            *)
(***************************************************************************)
WritesKeepOrder ==
    \A m, n \in 1..sent :
        /\ trace[m].type = "write" /\ trace[n].type = "write"
        /\ Service!SameAddress(m, n)
        /\ m < n /\ n \in served
        => m \in served

(***************************************************************************)
(* The simulation ends: every line is sent, served and completed.          *)
(***************************************************************************)
Terminates == <>(turn = "exit")
----------------------------------------------------------------------------
(***************************************************************************)
(* What comments of the controller say and its code does not do; the runs  *)
(* that check these properties end in a violation.                         *)
(***************************************************************************)

(* hbm3_pim_controller.cpp:147 says "If next command is ROW/COL command    *)
(* while issued command is COL/ROW command, issue next command             *)
(* concurrently"; the first command is read from an erased list node.      *)
OneRowOneColumn ==
    Len(slots) = 2 => {CommandType(slots[1]), CommandType(slots[2])} = {"row", "col"}

(* hbm3_pim_controller.cpp:11 says of the active buffer "Buffer for        *)
(* requests being served. This has the highest priority"; once PREA and    *)
(* ACTAB have put another row into the bank of an active request, the      *)
(* veto forbids the PRE that request needs, for its own sake.              *)
ActiveBufferDrains == []<>(buf["active"] = <<>>)
============================================================================
