---------------------------- MODULE TcStressNoCts ----------------------------
(***************************************************************************)
(* cases/tc_stress_no_cts.cpp: both directions at once, without CTS.       *)
(***************************************************************************)
EXTENDS TcUtils

STRESS_STATUS_TIMEOUT_CYCLES == BASIC_UART_BIT_CLKS * 96

tx_timeout_for(params, frames) == frame_clks(params) * (frames + 2) + HANDSHAKE_TIMEOUT_CYCLES * 4

LOCAL ParamsFor(parity_mode, stop_mode, data_mode) ==
  tc_uart_params_for(BASIC_BAUD_RATE, data_bits_from_cfg(data_mode), stop_bits_from_cfg(stop_mode),
                     parity_from_cfg(parity_mode))

apply_stress_config(parity_mode, stop_mode, data_mode, tx_enable) ==
  tc_apply_uart_config(
    tc_make_uart_config(BASIC_BAUD_RATE, parity_mode, stop_mode, data_mode, TRUE, TRUE, tx_enable, FALSE),
    ParamsFor(parity_mode, stop_mode, data_mode))
  \o wait_cycles(2)

LOCAL apply_tx_enable(tx_enable) == apply_stress_config(NONE, UART_STOP_1, UART_DATA_8, tx_enable)

wait_status(pred, timeout_cycles) == wait(Sampled(pred), timeout_cycles)

wait_core_idle ==
  wait_status([rx_empty |-> TRUE, tx_empty |-> TRUE, rx_busy |-> FALSE, tx_busy |-> FALSE],
              STRESS_STATUS_TIMEOUT_CYCLES)

wait_rx_level(level) == wait_status([rx_level |-> level], STRESS_STATUS_TIMEOUT_CYCLES)
wait_tx_level(level) == wait_status([tx_level |-> level], STRESS_STATUS_TIMEOUT_CYCLES)

expect_rx_events_unchanged ==
  check(EventsAre([rx_overrun |-> 0, rx_frame_error |-> 0, rx_parity_error |-> 0, rx_break_detect |-> 0]))

wait_tx_done_delta(delta) == wait(EventsAre([tx_done |-> delta]), STRESS_STATUS_TIMEOUT_CYCLES * 4)

send_rx_bytes(data, params) == enqueue_bytes(data) \o wait_done \o wait_cycles(params.bit_clks * 4)
send_rx_byte(data, params)  == send_rx_bytes(<< data >>, params)

pop_rx_expect(data, params) ==
  LET exp == make_expected_rx_byte(data_mask(data, params.data_bits))
  IN expect_rx_byte(exp) \o pop_rx_byte \o check(Popped(exp))

expect_tx_bytes(data, params) ==
  LET expect(byte) == expect_frame(data_mask(byte, params.data_bits))
                      \o expect_core_byte(data_mask(byte, params.data_bits))
  IN for_each(expect, data)

wait_tx_frames(params, count) == wait(FramesSeen(count), tx_timeout_for(params, count)) \o observe_frames(count)

expect_idle_status == wait_core_idle \o check_idle_status

push_tx_bytes_with_gaps(data, gaps) ==
  FlattenSeq([i \in DOMAIN data |-> push_tx_byte(data[i]) \o wait_cycles(gaps[i])])

-----------------------------------------------------------------------------

LOCAL Fresh(tx_enable) == tc_local_reset \o apply_tx_enable(tx_enable)

LOCAL Params == make_uart_params

LOCAL Pop(data) == pop_rx_expect(data, Params)

subcase_simultaneous_rx_tx_small_burst ==
  LET tx_data == << 16, 33, 50, 67, 84, 101 >>
      rx_data == << 160, 177, 194, 211, 228, 245 >>
  IN Fresh(TRUE) \o set_rx_ready_false
     \o mark \o clear_history \o rewind \o expect_tx_bytes(tx_data, Params)
     \o enqueue_bytes(rx_data) \o push_tx_bytes_with_gaps(tx_data, << 0, 2, 0, 3, 1, 0 >>)
     \o wait_done \o wait_cycles(BASIC_UART_BIT_CLKS * 4)
     \o wait_rx_level(6) \o wait_tx_frames(Params, 6) \o for_each(Pop, rx_data)
     \o wait_tx_done_delta(6) \o expect_rx_events_unchanged \o expect_idle_status

subcase_rx_backpressure_delayed_popping ==
  LET rx_data == make_bytes(8, 48)
  IN Fresh(TRUE) \o set_rx_ready_false \o mark \o send_rx_bytes(rx_data, Params)
     \o wait_status([rx_level |-> 8, rx_empty |-> FALSE, rx_full |-> FALSE], STRESS_STATUS_TIMEOUT_CYCLES)
     \o Pop(48) \o wait_cycles(2) \o Pop(49) \o wait_cycles(5) \o Pop(50) \o Pop(51) \o wait_cycles(1)
     \o for_each(Pop, SubSeq(rx_data, 5, 8))
     \o wait_rx_level(0) \o expect_rx_events_unchanged

subcase_tx_gaps_pause_resume ==
  LET first  == << 129, 130, 131 >>
      second == << 145, 146, 147 >>
  IN Fresh(TRUE) \o mark \o clear_history \o rewind
     \o expect_tx_bytes(first \o second, Params)
     \o push_tx_bytes_with_gaps(first, << 3, 7, 2 >>)
     \o apply_tx_enable(FALSE)
     \o push_tx_bytes_with_gaps(second, << 4, 1, 0 >>) \o wait_cycles(frame_clks(Params) * 2)
     \o wait_status([tx_busy |-> FALSE, tx_empty |-> FALSE], frame_clks(Params) * 3)
     \o apply_tx_enable(TRUE) \o wait_tx_frames(Params, 6)
     \o wait_tx_done_delta(6) \o expect_idle_status

subcase_mixed_legal_formats ==
  LET cases == << << NONE, UART_STOP_1, UART_DATA_8, 85 >>, << EVEN, UART_STOP_1, UART_DATA_7, 53 >>,
                  << ODD, UART_STOP_2, UART_DATA_8, 166 >>, << NONE, UART_STOP_1, UART_DATA_5, 27 >> >>
      try(c) ==
        LET params == ParamsFor(c[1], c[2], c[3])
        IN wait_core_idle \o apply_stress_config(c[1], c[2], c[3], TRUE) \o set_rx_ready_false
           \o mark \o send_rx_byte(c[4], params) \o pop_rx_expect(c[4], params)
           \o expect_rx_events_unchanged
           \o clear_history \o rewind \o mark \o expect_tx_bytes(<< c[4] >>, params) \o push_tx_byte(c[4])
           \o wait_tx_frames(params, 1) \o wait_tx_done_delta(1) \o wait_core_idle
  IN tc_local_reset \o for_each(try, cases)

subcase_near_fifo_pressure_parallel ==
  LET tx_data == make_bytes(8, 192)
      rx_data == make_bytes(8, 208)
  IN Fresh(FALSE) \o set_rx_ready_false \o mark \o clear_history \o rewind
     \o for_each(push_tx_byte, tx_data) \o wait_tx_level(8) \o send_rx_bytes(rx_data, Params)
     \o wait_status([tx_level |-> 8, rx_level |-> 8, tx_full |-> FALSE, rx_full |-> FALSE],
                    STRESS_STATUS_TIMEOUT_CYCLES)
     \o expect_tx_bytes(tx_data, Params) \o apply_tx_enable(TRUE)
     \o FlattenSeq([i \in DOMAIN rx_data |-> Pop(rx_data[i]) \o wait_cycles(IF i % 2 = 1 THEN 3 ELSE 0)])
     \o wait_tx_frames(Params, 8) \o wait_tx_done_delta(8)
     \o expect_rx_events_unchanged \o expect_idle_status

tc_stress_no_cts ==
  subcase_simultaneous_rx_tx_small_burst \o subcase_rx_backpressure_delayed_popping
  \o subcase_tx_gaps_pause_resume \o subcase_mixed_legal_formats
  \o subcase_near_fifo_pressure_parallel
=============================================================================
