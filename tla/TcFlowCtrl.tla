----------------------------- MODULE TcFlowCtrl ------------------------------
(***************************************************************************)
(* cases/tc_flow_ctrl.cpp: CTS holds the transmitter back, and RTS follows *)
(* the level of the receive FIFO.                                          *)
(***************************************************************************)
EXTENDS TcUtils

CTS_SYNC_SETTLE_CYCLES     == 6
FLOW_STATUS_TIMEOUT_CYCLES == BASIC_UART_BIT_CLKS * 64
FLOW_RTS_DEASSERT_LEVEL    == RX_FIFO_DEPTH - 2
FLOW_RTS_ASSERT_LEVEL      == RX_FIFO_DEPTH \div 2

LOCAL FrameClks == frame_clks(make_uart_params)

wait_flow_status(pred) == wait(Sampled(pred), FLOW_STATUS_TIMEOUT_CYCLES)

expect_rts_active(expected) == check(Sampled([rts_active |-> expected, uart_rts_o |-> ~expected]))

wait_expect_rts_active(expected) == wait_flow_status([rts_active |-> expected, uart_rts_o |-> ~expected])

drive_cts_active(active) ==
  wait_cycles(1) \o drive_cts_now(active) \o wait_cycles(CTS_SYNC_SETTLE_CYCLES)
  \o check(Sampled([uart_cts_i |-> ~active]))

apply_flow_config(hw_flow_enable) ==
  tc_apply_uart_config(
    tc_make_uart_config(BASIC_BAUD_RATE, NONE, UART_STOP_1, UART_DATA_8, TRUE, TRUE, TRUE, hw_flow_enable),
    make_uart_params)
  \o wait_cycles(2)

tx_timeout_for(frames) == FrameClks * (frames + 2) + HANDSHAKE_TIMEOUT_CYCLES * 4

wait_tx_frame_count(count) == wait(FramesSeen(count), tx_timeout_for(1))

verify_no_extra_tx_frames(allowed_count) == hold(NoFrameAfter(allowed_count), BASIC_UART_BIT_CLKS * 4)

expect_tx_bytes(bytes) == for_each(expect_frame, bytes) \o for_each(expect_core_byte, bytes)

wait_tx_done_delta(delta) == wait(EventsAre([tx_done |-> delta]), FLOW_STATUS_TIMEOUT_CYCLES)

send_rx_byte(data) == enqueue_bytes(<< data >>) \o wait_done \o wait_cycles(BASIC_UART_BIT_CLKS * 4)

pop_rx_expect(data) ==
  expect_rx_byte(make_expected_rx_byte(data)) \o pop_rx_byte \o check(Popped(make_expected_rx_byte(data)))

wait_rx_level(level) == wait_flow_status([rx_level |-> level, rx_byte_valid |-> level # 0])

send_rx_and_expect_level(data, level) == send_rx_byte(data) \o wait_rx_level(level)

pop_queued_rx(data, expected_level) == pop_rx_expect(data) \o wait_rx_level(expected_level)

\* From one level to another, with the bytes from `first' on.
send_to_level(level, target_level, first) ==
  FlattenSeq([i \in 1 .. target_level - level |-> send_rx_and_expect_level(first + i - 1, level + i)])
pop_to_level(level, target_level, first) ==
  FlattenSeq([i \in 1 .. level - target_level |-> pop_queued_rx(first + i - 1, level - i)])

-----------------------------------------------------------------------------

LOCAL Fresh(cts) == tc_local_reset \o apply_flow_config(TRUE) \o drive_cts_active(cts)

LOCAL Observes(count) ==
  wait_tx_frame_count(count) \o observe_frames(count) \o wait_tx_done_delta(count)

LOCAL TxIdle == wait_tx_idle_for(FrameClks + HANDSHAKE_TIMEOUT_CYCLES)

LOCAL FinalIdle == wait_flow_status([tx_level |-> 0, tx_empty |-> TRUE, cts_blocked |-> FALSE])

LOCAL Blocked == wait_flow_status([tx_level |-> 1, tx_busy |-> FALSE, cts_blocked |-> TRUE, uart_tx_o |-> TRUE])

subcase_reset_default_status ==
  Fresh(TRUE) \o check(Sampled([cts_active |-> TRUE, cts_blocked |-> FALSE])) \o expect_rts_active(TRUE)

subcase_cfg_hw_flow_disable_ignores_cts ==
  tc_local_reset \o apply_flow_config(FALSE) \o drive_cts_active(FALSE)
  \o clear_history \o rewind \o mark \o expect_tx_bytes(<< 65 >>) \o push_tx_byte(65)
  \o Observes(1) \o TxIdle \o check(Sampled([cts_blocked |-> FALSE]))

subcase_cts_blocks_and_releases_tx ==
  Fresh(FALSE) \o check(Sampled([cts_active |-> FALSE]))
  \o clear_history \o mark \o push_tx_byte(85) \o Blocked
  \o check(Sampled([tx_byte_ready |-> TRUE]))
  \o verify_no_extra_tx_frames(0) \o wait(EventsAre([tx_done |-> 0]), BASIC_UART_BIT_CLKS * 4)
  \o rewind \o expect_tx_bytes(<< 85 >>) \o drive_cts_active(TRUE)
  \o wait_flow_status([cts_active |-> TRUE, cts_blocked |-> FALSE])
  \o Observes(1) \o TxIdle \o FinalIdle

subcase_cts_does_not_interrupt_active_tx ==
  Fresh(TRUE) \o clear_history \o rewind \o mark
  \o expect_tx_bytes(<< 161, 178 >>) \o push_tx_byte(161) \o push_tx_byte(178)
  \o wait_flow_status([tx_busy |-> TRUE])
  \o drive_cts_active(FALSE) \o Observes(1) \o Blocked
  \o check(Sampled([cts_active |-> FALSE])) \o verify_no_extra_tx_frames(1)
  \o drive_cts_active(TRUE) \o Observes(2) \o TxIdle \o FinalIdle

subcase_cts_blocked_only_when_waiting ==
  Fresh(FALSE) \o clear_history
  \o wait_flow_status([cts_active |-> FALSE, cts_blocked |-> FALSE, tx_busy |-> FALSE,
                       tx_empty |-> TRUE, tx_level |-> 0])
  \o push_tx_byte(102) \o Blocked
  \o pulse_tx_fifo_clear
  \o wait_flow_status([tx_level |-> 0, tx_empty |-> TRUE, cts_blocked |-> FALSE, tx_busy |-> FALSE])
  \o verify_no_extra_tx_frames(0)

subcase_rts_deasserts_and_reasserts ==
  LET top == FLOW_RTS_DEASSERT_LEVEL
  IN Fresh(TRUE) \o set_rx_ready_false \o pulse_rx_fifo_clear \o wait_rx_level(0)
     \o wait_expect_rts_active(TRUE)
     \o FlattenSeq([level \in 1 .. top |->
          send_rx_and_expect_level(31 + level, level) \o wait_expect_rts_active(level < top)])
     \o FlattenSeq([i \in 1 .. top |->
          pop_queued_rx(31 + i, top - i) \o wait_expect_rts_active(top - i <= FLOW_RTS_ASSERT_LEVEL)])

subcase_rts_hysteresis ==
  LET top    == FLOW_RTS_DEASSERT_LEVEL
      bottom == FLOW_RTS_ASSERT_LEVEL
  IN Fresh(TRUE) \o set_rx_ready_false
     \o send_to_level(0, top, 96) \o wait_expect_rts_active(FALSE)
     \o pop_to_level(top, bottom + 2, 96) \o wait_expect_rts_active(FALSE)
     \o send_to_level(bottom + 2, top - 1, 110) \o wait_expect_rts_active(FALSE)
     \o pop_to_level(top - 1, bottom, 100) \o wait_expect_rts_active(TRUE)
     \o send_to_level(bottom, top - 1, 113) \o wait_expect_rts_active(TRUE)
     \o send_to_level(top - 1, top, 118) \o wait_expect_rts_active(FALSE)

subcase_rx_tx_independence ==
  Fresh(FALSE) \o clear_history \o rewind \o mark
  \o push_tx_byte(213) \o Blocked \o send_rx_byte(93) \o pop_rx_expect(93)
  \o expect_tx_bytes(<< 213 >>) \o drive_cts_active(TRUE) \o Observes(1) \o TxIdle
  \o Fresh(TRUE) \o set_rx_ready_false
  \o send_to_level(0, FLOW_RTS_DEASSERT_LEVEL, 192) \o expect_rts_active(FALSE)
  \o clear_history \o rewind \o mark
  \o expect_tx_bytes(<< 231 >>) \o push_tx_byte(231) \o Observes(1)

tc_flow_ctrl ==
  subcase_reset_default_status \o subcase_cfg_hw_flow_disable_ignores_cts
  \o subcase_cts_blocks_and_releases_tx \o subcase_cts_does_not_interrupt_active_tx
  \o subcase_cts_blocked_only_when_waiting \o subcase_rts_deasserts_and_reasserts
  \o subcase_rts_hysteresis \o subcase_rx_tx_independence
=============================================================================
