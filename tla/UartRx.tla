------------------------------- MODULE UartRx -------------------------------
(***************************************************************************)
(* rtl_uart_core/src/uart_rx_sync.sv and uart_rx.sv: the synchroniser and  *)
(* the receiver.  An action is a rising clock edge in one state of the     *)
(* receiver's machine.                                                     *)
(***************************************************************************)
EXTENDS UartPkg

CONSTANT OVERSAMPLE

VARIABLES
  sync,  \* rx_sync_q, the newest level first
  rx     \* the registers; events are the three event_rx_*_q

SyncReset   == << 1, 1, 1 >>
SyncEdge(i) == sync' = << i, sync[1], sync[2] >>
rx_sync     == sync[3]

BIT_LAST  == OVERSAMPLE - 1
HALF_LAST == IF OVERSAMPLE <= 2 THEN 0 ELSE OVERSAMPLE \div 2 - 1

NoErrors == [frame_error |-> FALSE, parity_error |-> FALSE, break_detect |-> FALSE]

RxReset == [state |-> "IDLE", sample_count |-> 0, data_bit_index |-> 0, stop_bit_index |-> 0,
            data_bits |-> 8, stop_bits |-> 1, parity_mode |-> 0, data |-> Zero,
            all_data_zero |-> TRUE, stop_low_seen |-> FALSE, errors |-> NoErrors,
            start_armed |-> TRUE, char_valid |-> FALSE, events |-> NoErrors]

\* The pulses of the edge before end.
Quiet == [rx EXCEPT !.char_valid = FALSE, !.events = NoErrors]
Fresh == [Quiet EXCEPT !.sample_count = 0, !.data_bit_index = 0, !.stop_bit_index = 0,
                       !.stop_low_seen = FALSE, !.errors = NoErrors]

\* Seeded fault: the line need not have been high since the last start.
MutRxIdle(cfg) ==
  /\ rx.state = "IDLE" /\ ~(rx_sync = 0 /\ rx.start_armed /\ cfg.enable /\ cfg.rx_enable)
  /\ rx' = [Fresh EXCEPT !.start_armed = TRUE]

\* Seeded fault: a high line does not arm the start detector again.
MutRearm(cfg) ==
  /\ rx.state = "IDLE" /\ ~(rx_sync = 0 /\ rx.start_armed /\ cfg.enable /\ cfg.rx_enable)
  /\ rx' = Fresh

\* A high line arms the start detector, a low one disarms it.
RxIdle(cfg) ==
  /\ rx.state = "IDLE" /\ ~(rx_sync = 0 /\ rx.start_armed /\ cfg.enable /\ cfg.rx_enable)
  /\ rx' = [Fresh EXCEPT !.start_armed = rx_sync = 1]

\* The format is latched.
RxDetect(cfg) ==
  /\ rx.state = "IDLE" /\ rx_sync = 0 /\ rx.start_armed /\ cfg.enable /\ cfg.rx_enable
  /\ rx' = [Fresh EXCEPT !.state = "START", !.start_armed = FALSE,
                         !.data_bits = decode_data_bits(cfg.data_bits),
                         !.stop_bits = decode_stop_bits(cfg.stop_bits),
                         !.parity_mode = cfg.parity_mode,
                         !.data = Zero, !.all_data_zero = TRUE]

-----------------------------------------------------------------------------
(* A sample is taken half a bit after the start, then once per bit.         *)

Sampling == rx.state \in {"START", "DATA", "PARITY", "STOP"}

Last   == IF rx.state = "START" THEN HALF_LAST ELSE BIT_LAST

Due(t) == t /\ rx.sample_count = Last

RxWait(oversample_tick) ==
  /\ Sampling /\ ~Due(oversample_tick)
  /\ rx' = [Quiet EXCEPT !.sample_count = IF oversample_tick THEN @ + 1 ELSE @]

\* A start that is high again at its middle was none.
RxStart(oversample_tick) ==
  /\ rx.state = "START" /\ Due(oversample_tick)
  /\ rx' = [Quiet EXCEPT !.sample_count = 0, !.state = IF rx_sync = 0 THEN "DATA" ELSE "IDLE"]

RxData(oversample_tick) ==
  /\ rx.state = "DATA" /\ Due(oversample_tick)
  /\ LET last == rx.data_bit_index = rx.data_bits - 1
     IN rx' = [Quiet EXCEPT
                 !.sample_count = 0,
                 !.data[rx.data_bit_index % 8] = rx_sync,
                 !.all_data_zero = @ /\ rx_sync = 0,
                 !.data_bit_index = IF last THEN 0 ELSE @ + 1,
                 !.state = CASE ~last -> "DATA"
                             [] last /\ parity_is_enabled(rx.parity_mode)  -> "PARITY"
                             [] last /\ ~parity_is_enabled(rx.parity_mode) -> "STOP"]

RxParity(oversample_tick) ==
  /\ rx.state = "PARITY" /\ Due(oversample_tick)
  /\ rx' = [Quiet EXCEPT !.sample_count = 0, !.state = "STOP",
                         !.errors.parity_error = calc_parity_error(rx.data, rx.parity_mode, rx_sync)]

RxStop(oversample_tick) ==
  /\ rx.state = "STOP" /\ Due(oversample_tick)
  /\ LET last  == rx.stop_bit_index = rx.stop_bits - 1
         frame == rx.errors.frame_error \/ rx_sync = 0
         low   == rx.stop_low_seen \/ rx_sync = 0
     IN rx' = [Quiet EXCEPT
                 !.sample_count = 0,
                 !.errors.frame_error = frame, !.stop_low_seen = low,
                 !.errors.break_detect = IF last THEN frame /\ rx.all_data_zero /\ low ELSE @,
                 !.stop_bit_index = IF last THEN 0 ELSE @ + 1,
                 !.state = IF last THEN "DONE" ELSE "STOP"]

RxDone ==
  /\ rx.state = "DONE"
  /\ rx' = [rx EXCEPT !.char_valid = TRUE, !.events = rx.errors, !.state = "IDLE"]

RxEdge(cfg, oversample_tick) ==
  \/ RxIdle(cfg) \/ RxDetect(cfg) \/ RxWait(oversample_tick) \/ RxStart(oversample_tick)
  \/ RxData(oversample_tick) \/ RxParity(oversample_tick) \/ RxStop(oversample_tick) \/ RxDone

Errors == [frame_error : BOOLEAN, parity_error : BOOLEAN, break_detect : BOOLEAN]

RxTypeOK ==
  /\ sync \in Bit \X Bit \X Bit
  /\ rx \in [state : {"IDLE", "START", "DATA", "PARITY", "STOP", "DONE"},
             sample_count : 0 .. BIT_LAST, data_bit_index : 0 .. 7, stop_bit_index : 0 .. 1,
             data_bits : 5 .. 8, stop_bits : 1 .. 2, parity_mode : Codes, data : Byte,
             all_data_zero : BOOLEAN, stop_low_seen : BOOLEAN, errors : Errors,
             start_armed : BOOLEAN, char_valid : BOOLEAN, events : Errors]

\* What the receiver hands over while char_valid.
Record == [data |-> rx.data, errors |-> rx.errors]
=============================================================================
