---------------------------- MODULE UartCoreIntf ----------------------------
(***************************************************************************)
(* vip_uart_core/src/agents/uart_core_intf: what a test case calls to use  *)
(* the byte interfaces of the core, and the coroutine that counts events.  *)
(* The case drives the inputs after falling edges of the clock; the core,  *)
(* of which only the FIFOs and the handshakes are kept, works at rising    *)
(* ones.  A coroutine that an edge wakes runs before the next edge.        *)
(***************************************************************************)
EXTENDS Naturals, Sequences

CONSTANTS
  TxDepth, RxDepth,
  Timeout,   \* timeout_cycles
  MaxOps,    \* bound: calls in a behaviour
  MaxChars   \* bound: characters received in a behaviour

ASSUME IntfAssumption ==
  /\ TxDepth \in Nat \ {0} /\ RxDepth \in Nat \ {0} /\ Timeout \in Nat
  /\ MaxOps \in Nat /\ MaxChars \in Nat

VARIABLES
  clk,         \* the level of the clock
  \* The core.
  txq, busy,   \* transmit FIFO, a character is being sent
  tick,        \* a baud tick: a launch is due at the next edge
  rxq,         \* receive FIFO, the records by number
  arrived,     \* rx_char_valid with the number of its record, or 0
  \* The inputs that the case drives.
  tx_byte_valid, rx_byte_ready, clear_rx, clear_tx,
  \* The case: the call it is in, where, the edge it waits for.
  op, at, wait, cycle, ready_for_edge, result,
  \* The monitor.
  rx_overrun,
  \* History.
  entered,     \* bytes that entered the transmit FIFO during the call
  accepted,    \* bytes that calls said were accepted
  gone,        \* bytes sent to their end, or taken from the transmit FIFO by a clear
  popped,      \* records that left the receive FIFO since the call made it not ready
  dropped,     \* records that were lost because the FIFO was full
  ops, chars

inputs    == << tx_byte_valid, rx_byte_ready, clear_rx, clear_tx >>
device    == << txq, busy, tick, rxq, arrived >>
caller    == << op, at, wait, cycle, ready_for_edge, result >>
account   == << entered, accepted, gone, popped, dropped, ops, chars >>
intf_vars == << clk, device, inputs, caller, rx_overrun, account >>

IntfInit ==
  /\ clk = 0
  /\ txq = << >> /\ busy = FALSE /\ tick = FALSE /\ rxq = << >> /\ arrived = 0
  /\ tx_byte_valid = FALSE /\ rx_byte_ready = FALSE /\ clear_rx = FALSE /\ clear_tx = FALSE
  /\ op = "none" /\ at = "case" /\ wait = "case" /\ cycle = 0 /\ ready_for_edge = FALSE /\ result = 0
  /\ rx_overrun = 0
  /\ entered = 0 /\ accepted = 0 /\ gone = 0 /\ popped = << >> /\ dropped = 0 /\ ops = 0 /\ chars = 0

-----------------------------------------------------------------------------
(* The core's outputs, as functions of its registers and inputs.            *)

tx_start      == tick /\ txq # << >> /\ ~busy
tx_byte_ready == (Len(txq) < TxDepth \/ tx_start) /\ ~clear_tx
pop_fire      == rxq # << >> /\ rx_byte_ready

push_ready == Len(rxq) < RxDepth \/ pop_fire

event_rx_overrun == arrived # 0 /\ ~clear_rx /\ ~push_ready

\* Seeded fault: a character leaves the FIFO before the transmitter shows that it has it.
MutBusyNext(end) == busy /\ ~end

\* A launch pops the FIFO and takes the transmitter out of idle at the same edge.
BusyNext(end) == tx_start \/ (busy /\ ~end)

\* The edge wakes the case; it leaves the one that waits for another edge.
Wakes(edge) == wait' = IF wait = edge THEN "now" ELSE wait

\* Seeded fault: the count is kept as a flag.
MutOverrunCounted == 1

OverrunCounted == rx_overrun + 1

Fall ==
  /\ clk = 1 /\ wait # "now"
  /\ clk' = 0 /\ Wakes("fall")
  /\ UNCHANGED << device, inputs, op, at, cycle, ready_for_edge, result, rx_overrun, account >>

\* A rising edge: the FIFOs move, the registers behind tick and arrived get any
\* new value, and then monitor_events reads what the outputs have become.
Rise(new_tick, end, arrival) ==
  /\ clk = 0 /\ wait # "now"
  /\ clk' = 1 /\ Wakes("rise")
  /\ LET push == tx_byte_valid /\ tx_byte_ready
         left == IF tx_start THEN Tail(txq) ELSE txq
     IN /\ txq' = IF clear_tx THEN << >> ELSE IF push THEN Append(left, 1) ELSE left
        /\ entered' = IF push /\ ~clear_tx THEN entered + 1 ELSE entered
        /\ gone' = gone + (IF busy /\ end THEN 1 ELSE 0) + (IF clear_tx THEN Len(left) ELSE 0)
  /\ busy' = BusyNext(end)
  /\ LET left == IF pop_fire THEN Tail(rxq) ELSE rxq
     IN rxq' = IF clear_rx THEN << >>
               ELSE IF arrived # 0 /\ push_ready THEN Append(left, arrived) ELSE left
  /\ popped' = IF pop_fire /\ ~clear_rx THEN Append(popped, Head(rxq)) ELSE popped
  /\ dropped' = IF event_rx_overrun THEN dropped + 1 ELSE dropped
  /\ tick' = new_tick
  /\ IF arrival THEN arrived = 0 /\ chars < MaxChars /\ chars' = chars + 1 /\ arrived' = chars + 1
     ELSE arrived' = 0 /\ UNCHANGED chars
  /\ rx_overrun' = IF arrived' # 0 /\ ~clear_rx
                      /\ Len(rxq') = RxDepth /\ ~(rxq' # << >> /\ rx_byte_ready)
                   THEN OverrunCounted ELSE rx_overrun
  /\ UNCHANGED << inputs, op, at, cycle, ready_for_edge, result, accepted, ops >>

-----------------------------------------------------------------------------
(* The case.  A step runs from one suspension to the next.                  *)

At(p) == at = p /\ wait = "now"

\* Where the call goes on, and after which edge.
Then(p, edge) == at' = p /\ wait' = edge
Return        == Then("case", "case")

Calm  == UNCHANGED << clk, device, rx_overrun, gone, dropped, ops, chars >>
Quiet == Calm /\ UNCHANGED accepted

\* Every call begins by a wait for a falling edge, except wait_tx_idle.
Call(o) ==
  /\ at = "case" /\ ops < MaxOps
  /\ op' = o /\ ops' = ops + 1 /\ result' = 0 /\ cycle' = 0
  /\ at' = o /\ wait' = IF o = "wait_tx_idle" THEN "rise" ELSE "fall"
  /\ entered' = 0 /\ popped' = << >>
  /\ UNCHANGED << clk, device, inputs, ready_for_edge, rx_overrun, accepted, gone, dropped, chars >>

\* try_push_tx_byte: valid goes low and high again before anything can be read.
PushBegins ==
  /\ At("try_push_tx_byte")
  /\ tx_byte_valid' = TRUE /\ Then("push_read", "now")
  /\ UNCHANGED << rx_byte_ready, clear_rx, clear_tx, op, cycle, ready_for_edge, result, entered, popped >>
  /\ Quiet

\* Seeded fault: ready is looked at after the edge.
MutPushReads ==
  /\ At("push_read") /\ cycle < Timeout
  /\ ready_for_edge' = (Len(txq) + 1 < TxDepth) /\ Then("push_edge", "rise")
  /\ UNCHANGED << inputs, op, cycle, result, entered, popped >> /\ Quiet

PushReads ==
  /\ At("push_read") /\ cycle < Timeout
  /\ ready_for_edge' = tx_byte_ready /\ Then("push_edge", "rise")
  /\ UNCHANGED << inputs, op, cycle, result, entered, popped >> /\ Quiet

PushEdge ==
  /\ At("push_edge")
  /\ IF ready_for_edge THEN result' = 1 /\ Then("push_ends", "fall") /\ UNCHANGED cycle
     ELSE Then("push_read", "fall") /\ cycle' = cycle + 1 /\ UNCHANGED result
  /\ UNCHANGED << inputs, op, ready_for_edge, entered, popped >> /\ Quiet

\* After a rising edge valid stays until the next falling one.
PushEnds ==
  /\ At("push_ends") \/ (At("push_read") /\ cycle >= Timeout)
  /\ tx_byte_valid' = FALSE /\ Return /\ accepted' = accepted + result
  /\ UNCHANGED << rx_byte_ready, clear_rx, clear_tx, op, cycle, ready_for_edge, result, entered, popped >>
  /\ Calm

\* Seeded fault: ready is left as it was.
MutPopBegins ==
  /\ At("pop_rx_byte")
  /\ popped' = << >> /\ Then("pop_read", "now")
  /\ UNCHANGED << inputs, op, cycle, ready_for_edge, result, entered >>
  /\ Quiet

\* pop_rx_byte: the record is read first and popped two falling edges later.
PopBegins ==
  /\ At("pop_rx_byte")
  /\ rx_byte_ready' = FALSE /\ popped' = << >> /\ Then("pop_read", "now")
  /\ UNCHANGED << tx_byte_valid, clear_rx, clear_tx, op, cycle, ready_for_edge, result, entered >>
  /\ Quiet

\* Seeded fault: the time-out does not count the cycles.
MutPopReads ==
  /\ At("pop_read")
  /\ IF rxq # << >> THEN result' = Head(rxq) /\ Then("pop_ready", "fall")
                    ELSE Then("pop_read", "rise") /\ UNCHANGED result
  /\ UNCHANGED << inputs, op, cycle, ready_for_edge, entered, popped >> /\ Quiet

PopReads ==
  /\ At("pop_read")
  /\ CASE cycle >= Timeout                -> Return /\ UNCHANGED << cycle, result >>
       [] cycle < Timeout /\ rxq # << >> -> result' = Head(rxq) /\ Then("pop_ready", "fall") /\ UNCHANGED cycle
       [] cycle < Timeout /\ rxq = << >> -> cycle' = cycle + 1 /\ Then("pop_read", "rise") /\ UNCHANGED result
  /\ UNCHANGED << inputs, op, ready_for_edge, entered, popped >> /\ Quiet

PopReady ==
  /\ At("pop_ready")
  /\ rx_byte_ready' = TRUE /\ Then("pop_ends", "fall")
  /\ UNCHANGED << tx_byte_valid, clear_rx, clear_tx, op, cycle, ready_for_edge, result, entered, popped >>
  /\ Quiet

PopEnds ==
  /\ At("pop_ends")
  /\ rx_byte_ready' = FALSE /\ Return
  /\ UNCHANGED << tx_byte_valid, clear_rx, clear_tx, op, cycle, ready_for_edge, result, entered, popped >>
  /\ Quiet

SetRxReady(ready) ==
  /\ At("set_rx_ready")
  /\ rx_byte_ready' = ready /\ Return
  /\ UNCHANGED << tx_byte_valid, clear_rx, clear_tx, op, cycle, ready_for_edge, result, entered, popped >>
  /\ Quiet

\* pulse_rx_fifo_clear and pulse_tx_fifo_clear.
PulseBegins ==
  /\ \/ At("pulse_rx_fifo_clear") /\ clear_rx' = TRUE /\ UNCHANGED clear_tx
     \/ At("pulse_tx_fifo_clear") /\ clear_tx' = TRUE /\ UNCHANGED clear_rx
  /\ Then("pulse_ends", "fall")
  /\ UNCHANGED << tx_byte_valid, rx_byte_ready, op, cycle, ready_for_edge, result, entered, popped >>
  /\ Quiet

PulseEnds ==
  /\ At("pulse_ends")
  /\ clear_rx' = FALSE /\ clear_tx' = FALSE /\ Return
  /\ UNCHANGED << tx_byte_valid, rx_byte_ready, op, cycle, ready_for_edge, result, entered, popped >>
  /\ Quiet

\* wait_tx_idle: tx_empty and tx_busy are sampled together, after each edge.
IdleReads ==
  /\ At("wait_tx_idle")
  /\ IF cycle < Timeout /\ txq = << >> /\ ~busy
     THEN result' = 1 /\ Return /\ UNCHANGED cycle
     ELSE /\ UNCHANGED result /\ cycle' = cycle + 1
          /\ IF cycle >= Timeout THEN Return ELSE Then("wait_tx_idle", "rise")
  /\ UNCHANGED << inputs, op, ready_for_edge, entered, popped >> /\ Quiet

Calls == {"try_push_tx_byte", "pop_rx_byte", "set_rx_ready", "pulse_rx_fifo_clear",
          "pulse_tx_fifo_clear", "wait_tx_idle"}

Edges == Fall \/ \E new_tick, end, arrival \in BOOLEAN : Rise(new_tick, end, arrival)
Steps == \/ PushBegins \/ PushReads \/ PushEdge \/ PushEnds
         \/ PopBegins \/ PopReads \/ PopReady \/ PopEnds
         \/ (\E ready \in BOOLEAN : SetRxReady(ready)) \/ PulseBegins \/ PulseEnds \/ IdleReads

IntfNext == Edges \/ Steps \/ \E o \in Calls : Call(o)

IntfSpec == IntfInit /\ [][IntfNext]_intf_vars

\* The clock runs and what is runnable runs.
IntfFairSpec == IntfSpec /\ WF_intf_vars(Edges) /\ WF_intf_vars(Steps)

-----------------------------------------------------------------------------
IntfTypeOK ==
  /\ clk \in {0, 1} /\ txq \in Seq({1}) /\ Len(txq) <= TxDepth /\ Len(rxq) <= RxDepth
  /\ rxq \in Seq(1 .. MaxChars) /\ arrived \in 0 .. MaxChars
  /\ {busy, tick, tx_byte_valid, rx_byte_ready, clear_rx, clear_tx, ready_for_edge} \subseteq BOOLEAN
  /\ op \in Calls \cup {"none"} /\ wait \in {"case", "now", "fall", "rise"}
  /\ (at = "case") = (wait = "case")
  /\ result \in 0 .. MaxChars + 1 /\ cycle \in 0 .. Timeout + 1

\* A call that says its byte was accepted put it in the FIFO once, and one that
\* timed out did not put it there at all, although the FIFO may fill, drain or
\* have a launch make room at any edge of the call.
PushOnce == at = "case" /\ op = "try_push_tx_byte" => entered = result

\* A pop takes exactly the record that it reports, and none if it times out.
PopsWhatItReads ==
  at = "case" /\ op = "pop_rx_byte" => popped = IF result = 0 THEN << >> ELSE << result >>

\* When wait_tx_idle returns in time, every byte that a call reported as accepted
\* has been sent to its last bit or was taken by a clear, and no other has: neither
\* a launch, a clear or a full FIFO at the edge of a push, nor a push that timed out,
\* leaves a byte that nobody accounts for, in the FIFO, the transmitter or between.
IdleMeansSent == at = "case" /\ op = "wait_tx_idle" /\ result = 1 => accepted = gone

\* No overrun is missed: a record that is lost because the FIFO is full has been
\* counted.  One that arrives in the cycle of a clear is lost without an overrun
\* (uart_core.sv:201, 225) and is not meant.
DropsCounted == dropped <= rx_overrun

\* Every call returns.
CallsReturn == at # "case" ~> at = "case"
=============================================================================
