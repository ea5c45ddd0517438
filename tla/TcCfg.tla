-------------------------------- MODULE TcCfg --------------------------------
(***************************************************************************)
(* cases/tc_cfg.cpp: the enables, the baud rate and the frame formats.     *)
(***************************************************************************)
EXTENDS TcUtils

wait_frame_margin == wait_cycles(frame_clks(make_uart_params) + BASIC_UART_BIT_CLKS * 4)

wait_core_idle ==
  wait(Sampled([tx_empty |-> TRUE, tx_busy |-> FALSE, rx_busy |-> FALSE]), TX_IDLE_TIMEOUT_CYCLES * 2)

LOCAL ParamsFor(baud_rate, parity_mode, stop_mode, data_mode) ==
  tc_uart_params_for(baud_rate, data_bits_from_cfg(data_mode), stop_bits_from_cfg(stop_mode),
                     parity_from_cfg(parity_mode))

apply_cfg(baud_rate, parity_mode, stop_mode, data_mode, enable, rx_enable, tx_enable, hw_flow_enable) ==
  tc_apply_uart_config(
    tc_make_uart_config(baud_rate, parity_mode, stop_mode, data_mode,
                        enable, rx_enable, tx_enable, hw_flow_enable),
    ParamsFor(baud_rate, parity_mode, stop_mode, data_mode))
  \o wait_cycles(2)

LOCAL apply_enables(enable, rx_enable, tx_enable) ==
  apply_cfg(BASIC_BAUD_RATE, NONE, UART_STOP_1, UART_DATA_8, enable, rx_enable, tx_enable, FALSE)

LOCAL apply_format(baud_rate, parity_mode, stop_mode, data_mode) ==
  apply_cfg(baud_rate, parity_mode, stop_mode, data_mode, TRUE, TRUE, TRUE, FALSE)

expect_rx_record(data, errors) ==
  LET exp == [data |-> data, errors |-> errors]
  IN expect_rx_byte(exp) \o pop_rx_byte \o check(Popped(exp))

expect_rx_counts_unchanged == check(EventsAre([rx_frame_error |-> 0, rx_parity_error |-> 0]))

send_rx_byte(data, params) == enqueue_bytes(<< data >>) \o wait_done \o wait_cycles(params.bit_clks * 4)

wait_tx_frame(params) ==
  wait(FramesSeen(1), frame_clks(params) + params.bit_clks * 8 + HANDSHAKE_TIMEOUT_CYCLES)

check_uart_tx_idle_high(cycles) == hold(Sampled([uart_tx_o |-> TRUE]), cycles)

\* kept: where the length of the frame is kept.
LOCAL ObservedAndIdle(params, kept) ==
  wait_tx_frame(params) \o Apply("observe_last", kept)
  \o wait_tx_idle_for(frame_clks(params) + HANDSHAKE_TIMEOUT_CYCLES)

expect_tx_byte(push_data, expected_data, params, kept) ==
  clear_history \o expect_frame(expected_data) \o expect_core_byte(expected_data)
  \o push_tx_byte(push_data) \o ObservedAndIdle(params, kept)

expect_queued_tx_after_enable(expected_data, params) ==
  clear_history \o expect_frame(expected_data) \o expect_core_byte(expected_data)
  \o ObservedAndIdle(params, 1)

-----------------------------------------------------------------------------

LOCAL Silent == frame_clks(make_uart_params) + BASIC_UART_BIT_CLKS * 4

subcase_cfg_enable ==
  LET if_accepted(calls) == Apply("if_accepted", Len(calls)) \o calls
  IN tc_local_reset \o apply_enables(FALSE, TRUE, TRUE)
     \o mark \o send_rx_byte(90, make_uart_params) \o wait_frame_margin
     \o check(Sampled([rx_empty |-> TRUE, rx_byte_valid |-> FALSE])) \o expect_rx_counts_unchanged
     \o clear_history \o try_push_tx_byte(158, 8)
     \o if_accepted(mark \o check_uart_tx_idle_high(Silent) \o check(EventsAre([tx_done |-> 0])))
     \o apply_enables(TRUE, TRUE, TRUE)
     \o if_accepted(expect_queued_tx_after_enable(158, make_uart_params))
     \o send_rx_byte(165, make_uart_params) \o expect_rx_record(165, NoErrors)

subcase_cfg_rx_enable ==
  tc_local_reset \o apply_enables(TRUE, FALSE, TRUE)
  \o mark \o send_rx_byte(51, make_uart_params) \o wait_frame_margin
  \o check(Sampled([rx_empty |-> TRUE, rx_byte_valid |-> FALSE, rx_busy |-> FALSE]))
  \o expect_rx_counts_unchanged
  \o apply_enables(TRUE, TRUE, TRUE)
  \o send_rx_byte(204, make_uart_params) \o expect_rx_record(204, NoErrors)

subcase_cfg_tx_enable ==
  tc_local_reset \o apply_enables(TRUE, TRUE, FALSE)
  \o clear_history \o push_tx_byte(60) \o check(Sampled([tx_level |-> 1, tx_empty |-> FALSE]))
  \o mark \o check_uart_tx_idle_high(Silent)
  \o check(Sampled([tx_busy |-> FALSE])) \o check(NoFrameAfter(0)) \o check(EventsAre([tx_done |-> 0]))
  \o clear_history \o expect_frame(60) \o expect_core_byte(60)
  \o apply_enables(TRUE, TRUE, TRUE) \o ObservedAndIdle(make_uart_params, 1)
  \o check(Sampled([tx_empty |-> TRUE, tx_busy |-> FALSE])) \o check(EventsAre([tx_done |-> 1]))

subcase_cfg_baud_inc ==
  LET fast == ParamsFor(BASIC_BAUD_RATE, NONE, UART_STOP_1, UART_DATA_8)
      slow == ParamsFor(SLOW_BAUD_RATE, NONE, UART_STOP_1, UART_DATA_8)
  IN tc_local_reset
     \o apply_format(BASIC_BAUD_RATE, NONE, UART_STOP_1, UART_DATA_8)
     \o expect_tx_byte(85, 85, fast, 1) \o wait_core_idle
     \o apply_format(SLOW_BAUD_RATE, NONE, UART_STOP_1, UART_DATA_8)
     \o expect_tx_byte(165, 165, slow, 2)
     \o check([on |-> "double"])

subcase_cfg_data_bits ==
  LET modes == << << UART_DATA_5, 235, 26 >>, << UART_DATA_6, 214, 45 >>,
                  << UART_DATA_7, 173, 83 >>, << UART_DATA_8, 90, 166 >> >>
      params(mode) == ParamsFor(BASIC_BAUD_RATE, NONE, UART_STOP_1, mode[1])
      masked(mode, data) == data_mask(data, data_bits_from_cfg(mode[1]))
      try(mode) ==
        wait_core_idle \o apply_format(BASIC_BAUD_RATE, NONE, UART_STOP_1, mode[1])
        \o expect_tx_byte(mode[2], masked(mode, mode[2]), params(mode), 1)
        \o send_rx_byte(mode[3], params(mode)) \o expect_rx_record(masked(mode, mode[3]), NoErrors)
  IN tc_local_reset \o for_each(try, modes)

subcase_cfg_parity_mode ==
  LET with(mode) == wait_core_idle \o apply_format(BASIC_BAUD_RATE, mode, UART_STOP_1, UART_DATA_8)
      params(mode) == ParamsFor(BASIC_BAUD_RATE, mode, UART_STOP_1, UART_DATA_8)
      good(mode) == with(mode) \o mark \o send_rx_byte(53, params(mode))
                    \o expect_rx_record(53, NoErrors) \o check(EventsAre([rx_parity_error |-> 0]))
      bad(mode)  == with(mode) \o mark \o arm_next_parity_error \o send_rx_byte(53, params(mode))
                    \o expect_rx_record(53, ErrorFlags(FALSE, TRUE, FALSE))
                    \o check(EventsAre([rx_parity_error |-> 1]))
      send(mode) == with(mode) \o expect_tx_byte(90, 90, params(mode), 1)
  IN tc_local_reset \o for_each(good, << NONE, EVEN, ODD >>) \o for_each(bad, << EVEN, ODD >>)
     \o for_each(send, << EVEN, ODD >>)

subcase_cfg_stop_bits ==
  LET stop1 == ParamsFor(BASIC_BAUD_RATE, NONE, UART_STOP_1, UART_DATA_8)
      stop2 == ParamsFor(BASIC_BAUD_RATE, NONE, UART_STOP_2, UART_DATA_8)
  IN tc_local_reset
     \o apply_format(BASIC_BAUD_RATE, NONE, UART_STOP_1, UART_DATA_8)
     \o expect_tx_byte(102, 102, stop1, 1) \o wait_core_idle
     \o apply_format(BASIC_BAUD_RATE, NONE, UART_STOP_2, UART_DATA_8)
     \o expect_tx_byte(153, 153, stop2, 2)
     \o check([on |-> "longer"]) \o wait_core_idle
     \o apply_format(BASIC_BAUD_RATE, NONE, UART_STOP_1, UART_DATA_8)
     \o mark \o arm_next_framing_error \o send_rx_byte(119, stop1)
     \o expect_rx_record(119, ErrorFlags(TRUE, FALSE, FALSE))
     \o check(EventsAre([rx_frame_error |-> 1]))

subcase_cfg_hw_flow_enable ==
  tc_local_reset
  \o apply_cfg(BASIC_BAUD_RATE, NONE, UART_STOP_1, UART_DATA_8, TRUE, TRUE, TRUE, TRUE)
  \o drive_cts_now(FALSE) \o expect_tx_byte(92, 92, make_uart_params, 1)
  \o check(Sampled([cts_blocked |-> FALSE, rts_active |-> FALSE]))
  \o drive_cts_now(TRUE)

tc_cfg ==
  subcase_cfg_enable \o subcase_cfg_rx_enable \o subcase_cfg_tx_enable \o subcase_cfg_baud_inc
  \o subcase_cfg_data_bits \o subcase_cfg_parity_mode \o subcase_cfg_stop_bits
  \o subcase_cfg_hw_flow_enable
=============================================================================
