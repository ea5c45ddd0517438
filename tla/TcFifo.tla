------------------------------- MODULE TcFifo --------------------------------
(***************************************************************************)
(* cases/tc_fifo.cpp: levels, order, clears and back-pressure of the FIFOs.*)
(***************************************************************************)
EXTENDS TcUtils

FIFO_STATUS_TIMEOUT_CYCLES == BASIC_UART_BIT_CLKS * 32
SHORT_READY_TIMEOUT_CYCLES == 8

tx_timeout_for(frames) == frame_clks(make_uart_params) * (frames + 2) + HANDSHAKE_TIMEOUT_CYCLES * 4

apply_fifo_config(tx_enable) ==
  tc_apply_uart_config(
    tc_make_uart_config(BASIC_BAUD_RATE, NONE, UART_STOP_1, UART_DATA_8, TRUE, TRUE, tx_enable, FALSE),
    make_uart_params)
  \o wait_cycles(2)

rx_status(level, empty, full) ==
  Sampled([rx_level |-> level, rx_empty |-> empty, rx_full |-> full, rx_byte_valid |-> ~empty])
tx_status(level, empty, full) ==
  Sampled([tx_level |-> level, tx_empty |-> empty, tx_full |-> full, tx_byte_ready |-> ~full])

wait_rx_fifo_status(level, empty, full) == wait(rx_status(level, empty, full), FIFO_STATUS_TIMEOUT_CYCLES)
wait_tx_fifo_status(level, empty, full) == wait(tx_status(level, empty, full), FIFO_STATUS_TIMEOUT_CYCLES)

send_rx_byte_to_fifo(data) == enqueue_bytes(<< data >>) \o wait_done \o wait_cycles(BASIC_UART_BIT_CLKS * 4)

fill_rx_fifo(data, check_each_level) ==
  set_rx_ready_false
  \o FlattenSeq([i \in DOMAIN data |->
       send_rx_byte_to_fifo(data[i])
       \o IF check_each_level THEN wait_rx_fifo_status(i, FALSE, i = RX_FIFO_DEPTH) ELSE << >>])

pop_rx_expect(data) ==
  expect_rx_byte(make_expected_rx_byte(data)) \o pop_rx_byte \o check(Popped(make_expected_rx_byte(data)))

fill_tx_fifo_disabled(data, check_each_level) ==
  FlattenSeq([i \in DOMAIN data |->
    push_tx_byte(data[i])
    \o IF check_each_level THEN wait_tx_fifo_status(i, FALSE, i = TX_FIFO_DEPTH) ELSE << >>])

wait_tx_frames(expected_count, frames) == wait(FramesSeen(expected_count), tx_timeout_for(frames))

wait_tx_busy == wait(Sampled([tx_busy |-> TRUE]), HANDSHAKE_TIMEOUT_CYCLES)

expect_uart_tx_bytes(data) == for_each(expect_frame, data) \o for_each(expect_core_byte, data)

observe_tx_history(expected_count) == rewind \o observe_frames(expected_count)

verify_no_extra_tx_frames(allowed_count) ==
  hold(NoFrameAfter(allowed_count), frame_clks(make_uart_params) * 2)

-----------------------------------------------------------------------------

subcase_reset_fifo_status ==
  tc_local_reset \o check(rx_status(0, TRUE, FALSE)) \o check(tx_status(0, TRUE, FALSE))
  \o check_idle_status

subcase_rx_fill_full ==
  tc_local_reset \o mark \o fill_rx_fifo(make_bytes(RX_FIFO_DEPTH, 16), TRUE)
  \o wait_rx_fifo_status(RX_FIFO_DEPTH, FALSE, TRUE)
  \o check(EventsAre([rx_overrun |-> 0]))

subcase_rx_ordered_pop ==
  LET data == make_bytes(RX_FIFO_DEPTH, 48)
  IN tc_local_reset \o fill_rx_fifo(data, FALSE)
     \o wait_rx_fifo_status(RX_FIFO_DEPTH, FALSE, TRUE)
     \o FlattenSeq([i \in DOMAIN data |->
          pop_rx_expect(data[i])
          \o wait_rx_fifo_status(Len(data) - i, i = Len(data), FALSE)])

subcase_rx_clear ==
  tc_local_reset \o fill_rx_fifo(make_bytes(4, 80), FALSE) \o wait_rx_fifo_status(4, FALSE, FALSE)
  \o pulse_rx_fifo_clear \o wait_rx_fifo_status(0, TRUE, FALSE)
  \o send_rx_byte_to_fifo(143) \o wait_rx_fifo_status(1, FALSE, FALSE)
  \o pop_rx_expect(143) \o wait_rx_fifo_status(0, TRUE, FALSE)

LOCAL DisabledTransmitter == tc_local_reset \o apply_fifo_config(FALSE) \o clear_history

LOCAL Prefill(data) ==
  fill_tx_fifo_disabled(data, FALSE)
  \o wait_tx_fifo_status(Len(data), FALSE, Len(data) = TX_FIFO_DEPTH)

subcase_tx_fill_full_ready ==
  DisabledTransmitter \o fill_tx_fifo_disabled(make_bytes(TX_FIFO_DEPTH, 112), TRUE)
  \o wait_tx_fifo_status(TX_FIFO_DEPTH, FALSE, TRUE)
  \o try_push_tx_byte(238, SHORT_READY_TIMEOUT_CYCLES) \o check(Accepted(FALSE))
  \o wait_tx_fifo_status(TX_FIFO_DEPTH, FALSE, TRUE)

subcase_tx_ordered_drain ==
  LET data == make_bytes(TX_FIFO_DEPTH, 144)
  IN DisabledTransmitter \o Prefill(data)
     \o mark \o expect_uart_tx_bytes(data) \o apply_fifo_config(TRUE)
     \o wait_tx_frames(Len(data), Len(data)) \o observe_tx_history(Len(data))
     \o wait_tx_idle \o wait_tx_fifo_status(0, TRUE, FALSE)
     \o check(EventsAre([tx_done |-> Len(data)]))

subcase_tx_clear_idle ==
  DisabledTransmitter \o Prefill(make_bytes(4, 176))
  \o mark \o pulse_tx_fifo_clear \o wait_tx_fifo_status(0, TRUE, FALSE)
  \o apply_fifo_config(TRUE) \o verify_no_extra_tx_frames(0)
  \o check(EventsAre([tx_done |-> 0]))

subcase_tx_clear_active ==
  DisabledTransmitter \o Prefill(make_bytes(4, 33))
  \o mark \o expect_uart_tx_bytes(<< 33 >>) \o apply_fifo_config(TRUE)
  \o wait_tx_busy \o pulse_tx_fifo_clear
  \o wait_tx_frames(1, 1) \o observe_tx_history(1) \o verify_no_extra_tx_frames(1)
  \o wait_tx_idle \o wait_tx_fifo_status(0, TRUE, FALSE)
  \o check(EventsAre([tx_done |-> 1]))

subcase_parallel_rx_fill_tx_drain ==
  LET tx_data == make_bytes(6, 192)
      rx_data == make_bytes(6, 208)
  IN DisabledTransmitter \o set_rx_ready_false \o Prefill(tx_data)
     \o expect_uart_tx_bytes(tx_data) \o enqueue_bytes(rx_data) \o apply_fifo_config(TRUE)
     \o wait_done \o wait_cycles(BASIC_UART_BIT_CLKS * 4)
     \o wait_rx_fifo_status(Len(rx_data), FALSE, FALSE)
     \o wait_tx_frames(Len(tx_data), Len(tx_data)) \o observe_tx_history(Len(tx_data))
     \o for_each(pop_rx_expect, rx_data)
     \o wait_tx_idle \o wait_rx_fifo_status(0, TRUE, FALSE) \o wait_tx_fifo_status(0, TRUE, FALSE)

LOCAL FillBoth(rx_data, tx_data) ==
  set_rx_ready_false \o fill_rx_fifo(rx_data, FALSE) \o fill_tx_fifo_disabled(tx_data, FALSE)
  \o wait_rx_fifo_status(2, FALSE, FALSE) \o wait_tx_fifo_status(2, FALSE, FALSE)

subcase_cross_clear_independence ==
  DisabledTransmitter \o FillBoth(<< 49, 50 >>, << 65, 66 >>)
  \o pulse_rx_fifo_clear \o wait_rx_fifo_status(0, TRUE, FALSE) \o check(tx_status(2, FALSE, FALSE))
  \o expect_uart_tx_bytes(<< 65, 66 >>) \o apply_fifo_config(TRUE)
  \o wait_tx_frames(2, 2) \o observe_tx_history(2) \o wait_tx_idle
  \o apply_fifo_config(FALSE) \o clear_history \o FillBoth(<< 81, 82 >>, << 97, 98 >>)
  \o mark \o pulse_tx_fifo_clear \o wait_tx_fifo_status(0, TRUE, FALSE)
  \o check(rx_status(2, FALSE, FALSE))
  \o apply_fifo_config(TRUE) \o verify_no_extra_tx_frames(0) \o check(EventsAre([tx_done |-> 0]))
  \o for_each(pop_rx_expect, << 81, 82 >>)
  \o wait_rx_fifo_status(0, TRUE, FALSE) \o wait_tx_fifo_status(0, TRUE, FALSE)

tc_fifo ==
  subcase_reset_fifo_status \o subcase_rx_fill_full \o subcase_rx_ordered_pop \o subcase_rx_clear
  \o subcase_tx_fill_full_ready \o subcase_tx_ordered_drain \o subcase_tx_clear_idle
  \o subcase_tx_clear_active \o subcase_parallel_rx_fill_tx_drain
  \o subcase_cross_clear_independence
=============================================================================
