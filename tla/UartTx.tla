------------------------------- MODULE UartTx -------------------------------
(***************************************************************************)
(* rtl_uart_core/src/uart_tx.sv: the transmitter.  An action is a rising   *)
(* clock edge in one state of its machine.                                 *)
(***************************************************************************)
EXTENDS UartPkg

VARIABLE tx  \* the registers; line is uart_tx_q, done is event_tx_done_q

TxReset == [state |-> "IDLE", data |-> Zero, bit_index |-> 0, stop_bit_index |-> 0,
            data_bits |-> 8, stop_bits |-> 1, parity_mode |-> 0, parity_bit |-> 0,
            line |-> 1, done |-> FALSE]

tx_ready_for_start == tx.state = "IDLE"

\* tx_start is ignored while the core or the transmitter is disabled.
Starts(cfg, tx_start) == tx_start /\ cfg.enable /\ cfg.tx_enable

TxIdle(cfg, tx_start) ==
  /\ tx.state = "IDLE" /\ ~Starts(cfg, tx_start)
  /\ tx' = [tx EXCEPT !.line = 1, !.bit_index = 0, !.stop_bit_index = 0, !.done = FALSE]

\* The data and the format are latched.
TxLaunch(cfg, tx_start, tx_data) ==
  /\ tx.state = "IDLE" /\ Starts(cfg, tx_start)
  /\ LET n == decode_data_bits(cfg.data_bits)
     IN tx' = [state |-> "START", data |-> tx_data, bit_index |-> 0, stop_bit_index |-> 0,
               data_bits |-> n, stop_bits |-> decode_stop_bits(cfg.stop_bits),
               parity_mode |-> cfg.parity_mode,
               parity_bit |-> calc_parity_bit(tx_data, n, cfg.parity_mode),
               line |-> 0, done |-> FALSE]

TxHold(baud_tick) ==
  /\ tx.state # "IDLE" /\ ~baud_tick
  /\ tx' = [tx EXCEPT !.line = IF tx.state = "STOP" THEN 1 ELSE @, !.done = FALSE]

TxStart(baud_tick) ==
  /\ tx.state = "START" /\ baud_tick
  /\ tx' = [tx EXCEPT !.state = "DATA", !.bit_index = 0, !.line = tx.data[0], !.done = FALSE]

\* Seeded fault: the next bit is read at the index of this one.
MutTxData(baud_tick) ==
  /\ tx.state = "DATA" /\ baud_tick /\ tx.bit_index # tx.data_bits - 1
  /\ tx' = [tx EXCEPT !.bit_index = @ + 1, !.line = tx.data[tx.bit_index], !.done = FALSE]

TxData(baud_tick) ==
  /\ tx.state = "DATA" /\ baud_tick /\ tx.bit_index # tx.data_bits - 1
  /\ tx' = [tx EXCEPT !.bit_index = @ + 1, !.line = tx.data[(tx.bit_index + 1) % 8],
                      !.done = FALSE]

TxDataEnds(baud_tick) ==
  /\ tx.state = "DATA" /\ baud_tick /\ tx.bit_index = tx.data_bits - 1
  /\ tx' = IF parity_is_enabled(tx.parity_mode)
           THEN [tx EXCEPT !.state = "PARITY", !.bit_index = 0, !.line = tx.parity_bit,
                           !.done = FALSE]
           ELSE [tx EXCEPT !.state = "STOP", !.bit_index = 0, !.stop_bit_index = 0,
                           !.line = 1, !.done = FALSE]

TxParity(baud_tick) ==
  /\ tx.state = "PARITY" /\ baud_tick
  /\ tx' = [tx EXCEPT !.state = "STOP", !.stop_bit_index = 0, !.line = 1, !.done = FALSE]

TxStop(baud_tick) ==
  /\ tx.state = "STOP" /\ baud_tick
  /\ LET last == tx.stop_bit_index = tx.stop_bits - 1
     IN tx' = [tx EXCEPT !.state = IF last THEN "IDLE" ELSE @,
                         !.stop_bit_index = IF last THEN @ ELSE @ + 1,
                         !.line = 1, !.done = last]

TxEdge(cfg, baud_tick, tx_start, tx_data) ==
  \/ TxIdle(cfg, tx_start) \/ TxLaunch(cfg, tx_start, tx_data)
  \/ TxHold(baud_tick) \/ TxStart(baud_tick) \/ TxData(baud_tick)
  \/ TxDataEnds(baud_tick) \/ TxParity(baud_tick) \/ TxStop(baud_tick)

TxTypeOK ==
  /\ tx \in [state : {"IDLE", "START", "DATA", "PARITY", "STOP"}, data : Byte,
             bit_index : 0 .. 7, stop_bit_index : 0 .. 1, data_bits : 5 .. 8,
             stop_bits : 1 .. 2, parity_mode : Codes, parity_bit : Bit, line : Bit,
             done : BOOLEAN]
  /\ tx.bit_index < tx.data_bits
=============================================================================
