------------------------------- MODULE TcError -------------------------------
(***************************************************************************)
(* cases/tc_error.cpp: receive errors, their events and their records.     *)
(***************************************************************************)
EXTENDS TcUtils

ERROR_STATUS_TIMEOUT_CYCLES == BASIC_UART_BIT_CLKS * 64

apply_error_config(parity_mode) ==
  tc_apply_uart_config(
    tc_make_uart_config(BASIC_BAUD_RATE, parity_mode, UART_STOP_1, UART_DATA_8, TRUE, TRUE, TRUE, FALSE),
    tc_uart_params_for(BASIC_BAUD_RATE, 8, 1, parity_from_cfg(parity_mode)))
  \o wait_cycles(2)

send_rx_byte(data) == enqueue_bytes(<< data >>) \o wait_done \o wait_cycles(BASIC_UART_BIT_CLKS * 4)

expect_event_delta(rx_overrun, rx_frame_error, rx_parity_error, rx_break_detect) ==
  wait(EventsAre([rx_overrun |-> rx_overrun, rx_frame_error |-> rx_frame_error,
                  rx_parity_error |-> rx_parity_error, rx_break_detect |-> rx_break_detect]),
       HANDSHAKE_TIMEOUT_CYCLES)

expect_rx_record(data, errors) ==
  LET exp == [data |-> data, errors |-> errors]
  IN expect_rx_byte(exp) \o pop_rx_byte \o check(Popped(exp))

rx_status(level, empty, full) ==
  Sampled([rx_level |-> level, rx_empty |-> empty, rx_full |-> full, rx_byte_valid |-> ~empty])

wait_rx_fifo_status(level, empty, full) ==
  wait(rx_status(level, empty, full), ERROR_STATUS_TIMEOUT_CYCLES)

-----------------------------------------------------------------------------

LOCAL GoodFrame(data) ==
  mark \o send_rx_byte(data) \o expect_rx_record(data, NoErrors) \o expect_event_delta(0, 0, 0, 0)

LOCAL BadParityFrame(data) ==
  mark \o arm_next_parity_error \o send_rx_byte(data)
  \o expect_rx_record(data, ErrorFlags(FALSE, TRUE, FALSE)) \o expect_event_delta(0, 0, 1, 0)

LOCAL BadStopFrame(data, break_detect) ==
  mark \o arm_next_framing_error \o send_rx_byte(data)
  \o expect_rx_record(data, ErrorFlags(TRUE, FALSE, break_detect))
  \o expect_event_delta(0, 1, 0, IF break_detect THEN 1 ELSE 0)

subcase_clean_baseline == tc_local_reset \o apply_error_config(NONE) \o GoodFrame(85)

subcase_even_parity_error ==
  tc_local_reset \o apply_error_config(EVEN) \o GoodFrame(60) \o BadParityFrame(53)

subcase_odd_parity_error ==
  tc_local_reset \o apply_error_config(ODD) \o GoodFrame(90) \o BadParityFrame(166)

subcase_frame_error == tc_local_reset \o apply_error_config(NONE) \o BadStopFrame(195, FALSE)

subcase_break_detect ==
  tc_local_reset \o apply_error_config(NONE) \o BadStopFrame(0, TRUE)
  \o wait_cycles(frame_clks(make_uart_params) + BASIC_UART_BIT_CLKS * 2)
  \o GoodFrame(90)

subcase_rx_overrun ==
  LET data == make_bytes(RX_FIFO_DEPTH, 128)
      pop(byte) == expect_rx_record(byte, NoErrors)
  IN tc_local_reset \o apply_error_config(NONE)
     \o set_rx_ready_false \o for_each(send_rx_byte, data)
     \o wait_rx_fifo_status(RX_FIFO_DEPTH, FALSE, TRUE)
     \o mark \o send_rx_byte(225) \o expect_event_delta(1, 0, 0, 0)
     \o wait_rx_fifo_status(RX_FIFO_DEPTH, FALSE, TRUE)
     \o for_each(pop, data) \o wait_rx_fifo_status(0, TRUE, FALSE)

subcase_error_metadata_ordering ==
  tc_local_reset \o apply_error_config(EVEN) \o mark
  \o set_rx_ready_false \o send_rx_byte(17)
  \o arm_next_parity_error \o send_rx_byte(34) \o send_rx_byte(51)
  \o wait_rx_fifo_status(3, FALSE, FALSE) \o expect_event_delta(0, 0, 1, 0)
  \o expect_rx_record(17, NoErrors) \o expect_rx_record(34, ErrorFlags(FALSE, TRUE, FALSE))
  \o expect_rx_record(51, NoErrors) \o wait_rx_fifo_status(0, TRUE, FALSE)

tc_error ==
  subcase_clean_baseline \o subcase_even_parity_error \o subcase_odd_parity_error
  \o subcase_frame_error \o subcase_break_detect \o subcase_rx_overrun
  \o subcase_error_metadata_ordering
=============================================================================
