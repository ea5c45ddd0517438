---------------------------- MODULE UartTxAgent ----------------------------
(***************************************************************************)
(* vip_uart/agents/uart_tx: the agent that drives UART frames onto a net   *)
(* of the design.  Its sender coroutine runs for ever; the test case, one  *)
(* coroutine under the runner, calls its other functions.  Each action is  *)
(* one coroutine's code from one suspension to the next.                   *)
(*                                                                         *)
(* One port, and no stream scoreboard attached (test.cpp:59).  How long a  *)
(* wait takes is left open: any step of the others may come first.         *)
(***************************************************************************)
EXTENDS Integers, Sequences

CONSTANTS
  Formats,     \* UartParams: records [data_bits, parity, stop_bits]
  Timeouts,    \* rts_wait_timeout_clks, in polls; 0 for none
  HasRts,      \* the port has an rts_net
  None,
  MaxTickets,  \* bound: frames enqueued in a behaviour
  MaxWork      \* bound: calls that change a setting, cases, changes of rst and rts

ASSUME AgentAssumption ==
  /\ \A f \in Formats : /\ f.data_bits \in Nat \ {0} /\ f.stop_bits \in {1, 2}
                        /\ f.parity \in BOOLEAN
  /\ Formats # {} /\ None \notin Formats
  /\ Timeouts \subseteq Nat
  /\ HasRts \in BOOLEAN
  /\ MaxTickets \in Nat /\ MaxWork \in Nat

VARIABLES
  params,        \* params_
  pending,       \* port.pending
  history,       \* port.history, with the symbols that were driven
  next_bad_stop, next_bad_parity, respect_rts, rts_wait_timeout,
  ticket_done,   \* ticket_done_
  next_ticket,   \* next_ticket_
  pc, item, bit, \* where the sender is suspended, its item, its loop counter
  driven,        \* history: the symbols of the current frame so far
  waited,        \* waited_clks of wait_rts_active_, in polls
  line,          \* the symbol on tx_net
  rst, rts,      \* reset and request to send, as logical values
  waiting,       \* the ticket that the case waits for, or None
  first_ticket,  \* history: next_ticket_ when the case began
  work

settings == << params, next_bad_stop, next_bad_parity, respect_rts, rts_wait_timeout >>
sender   == << pc, item, bit, driven, waited, line >>
vars     == << settings, sender, pending, history, ticket_done, next_ticket,
               rst, rts, waiting, first_ticket, work >>

-----------------------------------------------------------------------------
Tickets   == 1 .. MaxTickets
NoTickets == [t \in {} |-> FALSE]

Item == [ticket : Tickets, format : Formats, bad_stop : BOOLEAN, bad_parity : BOOLEAN,
         phase : BOOLEAN, touched : BOOLEAN]

\* Nothing is what neither a frame nor a ticket is.
ASSUME NoneAssumption == None \notin Item \cup Tickets

\* What is on the line: idle, or a symbol of a frame.  The number tells data
\* bits apart, and a wrong parity or stop bit from a right one.
Idle         == << "idle", 0 >>
Start        == << "start", 0 >>
DataBit(b)   == << "data", b >>
Parity(bad)  == << "parity", IF bad THEN 1 ELSE 0 >>
Stop(bad)    == << "stop", IF bad THEN 1 ELSE 0 >>

Init ==
  /\ params \in Formats
  /\ pending = << >> /\ history = << >>
  /\ next_bad_stop = FALSE /\ next_bad_parity = FALSE
  /\ respect_rts \in {FALSE, HasRts} /\ rts_wait_timeout = 0
  /\ ticket_done = NoTickets /\ next_ticket = 1
  /\ pc = "start" /\ item = None /\ bit = 0 /\ driven = << >> /\ waited = 0 /\ line = << "unknown", 0 >>
  /\ rst = TRUE /\ rts = FALSE
  /\ waiting = None /\ first_ticket = 1
  /\ work = 0

-----------------------------------------------------------------------------
(* The test case.  It does nothing while it waits for a ticket.             *)

CaseRuns == waiting = None
Spend    == work < MaxWork /\ work' = work + 1

\* make_item_; `touched' is history: the format was changed while it waited
\* or was sent.
MakeItem(phase) ==
  [ticket |-> next_ticket, format |-> params, bad_stop |-> next_bad_stop,
   bad_parity |-> next_bad_parity, phase |-> phase, touched |-> FALSE]

WithTicket(t, done) == [u \in DOMAIN ticket_done \cup {t} |->
                          IF u = t THEN done ELSE ticket_done[u]]

\* enqueue_byte and enqueue_byte_with_phase; the functions for several bytes
\* are such calls in a row.
Enqueue(phase) ==
  /\ CaseRuns /\ next_ticket <= MaxTickets
  /\ pending' = Append(pending, MakeItem(phase))
  /\ next_ticket' = next_ticket + 1
  /\ ticket_done' = WithTicket(next_ticket, FALSE)
  /\ next_bad_stop' = FALSE /\ next_bad_parity' = FALSE
  /\ UNCHANGED << params, respect_rts, rts_wait_timeout, sender, history, rst, rts,
                  waiting, first_ticket, work >>

ArmError ==
  /\ CaseRuns /\ Spend
  /\ \/ next_bad_stop' = TRUE /\ UNCHANGED next_bad_parity
     \/ next_bad_parity' = TRUE /\ UNCHANGED next_bad_stop
  /\ UNCHANGED << params, respect_rts, rts_wait_timeout, sender, pending, history,
                  ticket_done, next_ticket, rst, rts, waiting, first_ticket >>

\* set_params, set_respect_rts and set_rts_wait_timeout_clks.
Touch(i) == [i EXCEPT !.touched = TRUE]
SetParams(f) ==
  /\ CaseRuns /\ f # params /\ Spend
  /\ params' = f
  /\ pending' = [i \in DOMAIN pending |-> Touch(pending[i])]
  /\ item' = IF item = None THEN None ELSE Touch(item)
  /\ UNCHANGED << next_bad_stop, next_bad_parity, respect_rts, rts_wait_timeout, pc,
                  bit, driven, waited, line, history, ticket_done, next_ticket, rst, rts,
                  waiting, first_ticket >>

SetFlow ==
  /\ CaseRuns /\ HasRts /\ Spend
  /\ \/ respect_rts' = ~respect_rts /\ UNCHANGED rts_wait_timeout
     \/ rts_wait_timeout' \in Timeouts /\ UNCHANGED respect_rts
  /\ UNCHANGED << params, next_bad_stop, next_bad_parity, sender, pending, history,
                  ticket_done, next_ticket, rst, rts, waiting, first_ticket >>

ClearHistory ==
  /\ CaseRuns /\ history # << >>
  /\ history' = << >>
  /\ UNCHANGED << settings, sender, pending, ticket_done, next_ticket, rst, rts,
                  waiting, first_ticket, work >>

IsDone(t) == t \in DOMAIN ticket_done /\ ticket_done[t]

\* Seeded fault: a ticket that is not known is waited for.
MutWaitDone(t) ==
  /\ CaseRuns /\ ~IsDone(t)
  /\ waiting' = t
  /\ UNCHANGED << settings, sender, pending, history, ticket_done, next_ticket, rst,
                  rts, first_ticket, work >>

\* wait_done polls; a ticket it does not know, or one that is done, it does
\* not wait for.
WaitDone(t) ==
  /\ CaseRuns
  /\ t \in DOMAIN ticket_done /\ ~IsDone(t)
  /\ waiting' = t
  /\ UNCHANGED << settings, sender, pending, history, ticket_done, next_ticket, rst,
                  rts, first_ticket, work >>

WaitDoneReturns ==
  /\ waiting # None /\ IsDone(waiting)
  /\ waiting' = None
  /\ UNCHANGED << settings, sender, pending, history, ticket_done, next_ticket, rst,
                  rts, first_ticket, work >>

\* The case returns and the runner calls reset_case before the next one.
NextCase ==
  /\ CaseRuns /\ Spend
  /\ pending' = << >> /\ history' = << >>
  /\ next_bad_stop' = FALSE /\ next_bad_parity' = FALSE
  /\ ticket_done' = NoTickets
  /\ first_ticket' = next_ticket
  /\ UNCHANGED << params, respect_rts, rts_wait_timeout, sender, next_ticket, rst, rts,
                  waiting >>

-----------------------------------------------------------------------------
(* The sender coroutine, agent(idx).                                        *)

outside == << settings, ticket_done, next_ticket, rst, rts, waiting, first_ticket, work >>

\* The first drive_line_, and the one of a reset.
DriveIdle ==
  /\ pc \in {"start", "park"}
  /\ line' = Idle /\ pc' = "rst"
  /\ UNCHANGED << outside, pending, history, item, bit, driven, waited >>

\* pending.front() and pop_front(): on an empty deque the behaviour is
\* undefined, and nothing more is said of the sender.
Take ==
  IF pending = << >>
  THEN pc' = "undefined" /\ UNCHANGED << pending, item, driven >>
  ELSE /\ item' = Head(pending) /\ pending' = Tail(pending)
       /\ driven' = << >>
       /\ pc' = IF Head(pending).phase THEN "align" ELSE "begin"

\* The loop from the end of its wait: reset_asserted_, the test of pending,
\* and what follows at once when RTS does not matter.
SampleReset ==
  /\ pc = "rst"
  /\ \/ rst /\ pc' = "park" /\ UNCHANGED << pending, item, driven, waited >>
     \/ ~rst /\ pending = << >> /\ UNCHANGED << pc, pending, item, driven, waited >>
     \/ ~rst /\ pending # << >> /\ ~respect_rts /\ Take /\ UNCHANGED waited
     \/ /\ ~rst /\ pending # << >> /\ respect_rts
        /\ pc' = "rts" /\ waited' = 0 /\ UNCHANGED << pending, item, driven >>
  /\ UNCHANGED << outside, history, bit, line >>

\* Seeded fault: the item is popped before the wait, and lost on a timeout.
MutSampleRts ==
  /\ pc = "rts"
  /\ \/ rts /\ Take /\ UNCHANGED waited
     \/ /\ ~rts /\ rts_wait_timeout # 0 /\ waited >= rts_wait_timeout
        /\ pc' = "rst" /\ pending' = SubSeq(pending, 2, Len(pending))
        /\ UNCHANGED << item, driven, waited >>
     \/ /\ ~rts /\ (rts_wait_timeout = 0 \/ waited < rts_wait_timeout)
        /\ waited' = IF \E n \in Timeouts : waited < n THEN waited + 1 ELSE waited
        /\ UNCHANGED << pc, pending, item, driven >>
  /\ UNCHANGED << outside, history, bit, line >>

\* One round of wait_rts_active_.  The count stops where it makes no more
\* difference.
SampleRts ==
  /\ pc = "rts"
  /\ \/ rts /\ Take /\ UNCHANGED waited
     \/ /\ ~rts /\ rts_wait_timeout # 0 /\ waited >= rts_wait_timeout
        /\ pc' = "rst" /\ UNCHANGED << pending, item, driven, waited >>
     \/ /\ ~rts /\ (rts_wait_timeout = 0 \/ waited < rts_wait_timeout)
        /\ waited' = IF \E n \in Timeouts : waited < n THEN waited + 1 ELSE waited
        /\ UNCHANGED << pc, pending, item, driven >>
  /\ UNCHANGED << outside, history, bit, line >>

\* send_item_: the wait for the phase, then drive_line_ and wait_item_bit_
\* once per symbol.  The loops read params_ each time round.
Align ==
  /\ pc = "align" /\ pc' = "begin"
  /\ UNCHANGED << outside, pending, history, item, bit, driven, waited, line >>

Drive(symbol) ==
  /\ line' = symbol /\ driven' = Append(driven, symbol)
  /\ UNCHANGED << outside, pending, history, item, waited >>

SendStart ==
  /\ pc = "begin" /\ pc' = "data" /\ bit' = 0
  /\ Drive(Start)

\* Seeded fault: one data bit too many.
MutSendData ==
  /\ pc = "data" /\ bit <= params.data_bits
  /\ bit' = bit + 1 /\ UNCHANGED pc
  /\ Drive(DataBit(bit))

SendData ==
  /\ pc = "data" /\ bit < params.data_bits
  /\ bit' = bit + 1 /\ UNCHANGED pc
  /\ Drive(DataBit(bit))

DataSent == pc = "data" /\ bit >= params.data_bits

SendParity ==
  /\ DataSent /\ params.parity
  /\ pc' = "stop" /\ bit' = 0
  /\ Drive(Parity(item.bad_parity))

SendStop ==
  /\ \/ DataSent /\ ~params.parity /\ bit' = 1
     \/ pc = "stop" /\ bit < params.stop_bits /\ bit' = bit + 1
  /\ pc' = "stop"
  /\ Drive(Stop(item.bad_stop))

FrameSent ==
  /\ pc = "stop" /\ bit >= params.stop_bits
  /\ line' = Idle
  /\ history' = Append(history, [item |-> item, driven |-> driven])
  /\ ticket_done' = WithTicket(item.ticket, TRUE)
  /\ pc' = "rst" /\ item' = None
  /\ UNCHANGED << settings, pending, next_ticket, bit, driven, waited, rst, rts,
                  waiting, first_ticket, work >>

-----------------------------------------------------------------------------
(* The nets that the sender reads, driven by the design and the reset agent. *)
NetChanges ==
  /\ Spend
  /\ \/ rst' = ~rst /\ UNCHANGED rts
     \/ HasRts /\ rts' = ~rts /\ UNCHANGED rst
  /\ UNCHANGED << settings, sender, pending, history, ticket_done, next_ticket,
                  waiting, first_ticket >>

Case == \/ \E phase \in BOOLEAN : Enqueue(phase)
        \/ ArmError \/ (\E f \in Formats : SetParams(f)) \/ SetFlow
        \/ ClearHistory \/ (\E t \in Tickets : WaitDone(t)) \/ NextCase

Agent == \/ DriveIdle \/ SampleReset \/ SampleRts \/ Align
         \/ SendStart \/ SendData \/ SendParity \/ SendStop \/ FrameSent

Next == Case \/ WaitDoneReturns \/ Agent \/ NetChanges

Spec == Init /\ [][Next]_vars

\* Clock edges come for ever, so the waits of the sender and of wait_done end;
\* what the case calls, and the nets, are free.
FairSpec == Spec /\ WF_vars(Agent) /\ WF_vars(WaitDoneReturns)

-----------------------------------------------------------------------------
(* Properties.                                                              *)

Sending == pc \in {"align", "begin", "data", "stop"}

\* Types; an item is at hand exactly while a frame is sent.
TypeOK ==
  /\ params \in Formats
  /\ pending \in Seq(Item)
  /\ history \in Seq([item : Item, driven : Seq({"idle", "start", "data", "parity", "stop"} \X Nat)])
  /\ {next_bad_stop, next_bad_parity, respect_rts, rst, rts} \subseteq BOOLEAN
  /\ rts_wait_timeout \in Timeouts \cup {0}
  /\ DOMAIN ticket_done \subseteq Tickets
  /\ \A t \in DOMAIN ticket_done : ticket_done[t] \in BOOLEAN
  /\ next_ticket \in 1 .. MaxTickets + 1 /\ first_ticket \in 1 .. next_ticket
  /\ pc \in {"start", "park", "rst", "rts", "align", "begin", "data", "stop", "undefined"}
  /\ IF Sending THEN item \in Item ELSE item = None
  /\ bit \in Nat /\ waited \in Nat
  /\ waiting \in Tickets \cup {None}

InFlight == IF Sending THEN << item.ticket >> ELSE << >>
Queue    == [i \in DOMAIN pending |-> pending[i].ticket]
Sent     == [i \in DOMAIN history |-> history[i].item.ticket]

\* Frames leave in the order in which they were enqueued and none twice,
\* whatever RTS, reset, timeouts and new cases do in between.
TicketsInOrder ==
  LET all == Sent \o InFlight \o Queue
  IN \A i, j \in DOMAIN all : i < j => all[i] < all[j]

\* A frame of the running case is queued, on the line or done, and not two of
\* these: an RTS timeout does not lose it, and nobody waits for a ticket that
\* cannot be done any more.
AllAccounted ==
  /\ \A t \in first_ticket .. next_ticket - 1 :
       /\ t \in DOMAIN ticket_done
       /\ ~ticket_done[t] <=> \E i \in DOMAIN (InFlight \o Queue) : (InFlight \o Queue)[i] = t
  /\ waiting # None => waiting >= first_ticket

\* No frame is lost, doubled or overtaken.
TicketsKept == TicketsInOrder /\ AllAccounted

\* The symbols of a frame, from its parameters when it was enqueued.
Image(i) == << Start >> \o [b \in 1 .. i.format.data_bits |-> DataBit(b - 1)]
              \o (IF i.format.parity THEN << Parity(i.bad_parity) >> ELSE << >>)
              \o [s \in 1 .. i.format.stop_bits |-> Stop(i.bad_stop)]

\* A frame is driven whole and as it was asked for, with the errors that were
\* armed, unless set_params comes between; reset and RTS do not cut it short
\* (uart_tx/README.md:58-59).  Between two frames the line is idle.
FramesWhole ==
  /\ \A i \in DOMAIN history :
       ~history[i].item.touched => history[i].driven = Image(history[i].item)
  /\ pc \in {"rst", "rts", "park"} => line = Idle

\* wait_done returns, if from some time on the design is out of reset and
\* ready to receive.
WaitsEnd ==
  <>[](~rst /\ (rts \/ ~HasRts) /\ pc # "undefined") => (waiting # None ~> waiting = None)

\* Not so, although vip_design_guide.md:2071 has agents offer "a way to clear
\* queues": after reset_case the sender may take an item from an empty queue.
TakesQueued == pc # "undefined"
=============================================================================
