------------------------------- MODULE TcReset -------------------------------
(***************************************************************************)
(* cases/tc_reset.cpp: resets in the middle of things, and what is left.   *)
(* The event pins of a sample are left out: the counts are looked at.      *)
(***************************************************************************)
EXTENDS TcUtils

RESET_LOW_CYCLES            == 8
RESET_POST_RELEASE_CYCLES   == 2
RESET_STATUS_TIMEOUT_CYCLES == BASIC_UART_BIT_CLKS * 64
NO_STALE_RX_CYCLES          == 12

LOCAL FrameClks == frame_clks(make_uart_params)

tx_timeout_for(frames) == FrameClks * (frames + 2) + HANDSHAKE_TIMEOUT_CYCLES * 4

apply_reset_config(tx_enable) ==
  tc_apply_uart_config(
    tc_make_uart_config(BASIC_BAUD_RATE, NONE, UART_STOP_1, UART_DATA_8, TRUE, TRUE, tx_enable, FALSE),
    make_uart_params)
  \o wait_cycles(2)

clear_post_reset_scoreboard_state == clear_history \o Call("reset_stream") \o Call("reset_core")

set_tx_monitor_strict(enable) ==
  Apply("capture_enable", enable) \o Apply("flags", [fail_on_unexpected |-> enable, rules |-> enable])

release_reset_and_reapply_config ==
  drive_reset(FALSE) \o wait_cycles(RESET_POST_RELEASE_CYCLES) \o apply_reset_config(TRUE)
  \o wait_cycles(2) \o clear_post_reset_scoreboard_state

reset_and_reapply_config(low_cycles) ==
  drive_reset(TRUE) \o wait_cycles(low_cycles) \o release_reset_and_reapply_config

wait_reset_status(pred) == wait(Sampled(pred), RESET_STATUS_TIMEOUT_CYCLES)

expect_idle_after_reset ==
  check(Sampled([rst_n |-> TRUE, uart_tx_o |-> TRUE, rx_byte_valid |-> FALSE, tx_byte_ready |-> TRUE]))
  \o check_idle_status

expect_reset_idle_state ==
  wait_reset_status([rst_n |-> TRUE, uart_tx_o |-> TRUE, rx_level |-> 0, tx_level |-> 0,
                     rx_busy |-> FALSE, tx_busy |-> FALSE])
  \o expect_idle_after_reset

wait_rx_level(level) == wait_reset_status([rx_level |-> level])
wait_tx_level(level) == wait_reset_status([tx_level |-> level])
wait_tx_busy         == wait(Sampled([tx_busy |-> TRUE]), HANDSHAKE_TIMEOUT_CYCLES)
wait_rx_busy         == wait(Sampled([rx_busy |-> TRUE]), HANDSHAKE_TIMEOUT_CYCLES)

send_rx_byte(data) == enqueue_bytes(<< data >>) \o wait_done \o wait_cycles(BASIC_UART_BIT_CLKS * 4)

pop_rx_expect(data) ==
  expect_rx_byte(make_expected_rx_byte(data)) \o pop_rx_byte \o check(Popped(make_expected_rx_byte(data)))

verify_no_rx_record_for(cycles) ==
  set_rx_ready_false \o hold(Sampled([rx_byte_valid |-> FALSE, rx_level |-> 0]), cycles)

verify_no_event_delta(cycles) ==
  hold(EventsAre([rx_overrun |-> 0, rx_frame_error |-> 0, rx_parity_error |-> 0,
                  rx_break_detect |-> 0, tx_done |-> 0]), cycles)

wait_tx_done_delta(delta) == wait(EventsAre([tx_done |-> delta]), RESET_STATUS_TIMEOUT_CYCLES)

verify_no_extra_tx_frames(allowed_count, cycles) == hold(NoFrameAfter(allowed_count), cycles)

check_uart_tx_idle_high_for(cycles) == hold(Sampled([uart_tx_o |-> TRUE]), cycles)

expect_aborted_tx_monitor_artifact == Apply("flags", [strict |-> FALSE]) \o expect_frame(255)

send_tx_expect(data) ==
  clear_history \o rewind \o mark
  \o expect_frame(data) \o expect_core_byte(data) \o push_tx_byte(data)
  \o wait(FramesSeen(1), tx_timeout_for(1)) \o observe_frames(1)
  \o wait_tx_done_delta(1) \o wait_tx_idle_for(FrameClks + HANDSHAKE_TIMEOUT_CYCLES)

-----------------------------------------------------------------------------

LOCAL Fresh == tc_local_reset \o apply_reset_config(TRUE)

LOCAL ReceivesAgain(data) == send_rx_byte(data) \o pop_rx_expect(data)

subcase_reset_while_idle ==
  Fresh \o expect_reset_idle_state
  \o reset_and_reapply_config(RESET_LOW_CYCLES) \o expect_reset_idle_state
  \o ReceivesAgain(85) \o send_tx_expect(165)

subcase_reset_with_nonempty_rx_fifo ==
  LET stale == << 17, 34, 51, 68 >>
  IN Fresh \o set_rx_ready_false
     \o FlattenSeq([i \in DOMAIN stale |-> send_rx_byte(stale[i]) \o wait_rx_level(i)])
     \o reset_and_reapply_config(RESET_LOW_CYCLES) \o expect_reset_idle_state
     \o verify_no_rx_record_for(NO_STALE_RX_CYCLES)
     \o ReceivesAgain(90)

subcase_reset_with_nonempty_tx_fifo ==
  LET stale == << 97, 98, 99, 100 >>
  IN tc_local_reset \o apply_reset_config(FALSE) \o clear_history
     \o FlattenSeq([i \in DOMAIN stale |-> push_tx_byte(stale[i]) \o wait_tx_level(i)])
     \o reset_and_reapply_config(RESET_LOW_CYCLES) \o expect_reset_idle_state
     \o mark \o verify_no_extra_tx_frames(0, FrameClks * 2) \o verify_no_event_delta(FrameClks * 2)
     \o send_tx_expect(119)

subcase_reset_while_tx_active ==
  Fresh \o clear_history \o push_tx_byte(193) \o push_tx_byte(194) \o wait_tx_busy
  \o set_tx_monitor_strict(FALSE) \o expect_aborted_tx_monitor_artifact
  \o drive_reset(TRUE) \o wait_cycles(2)
  \o check(Sampled([rst_n |-> FALSE, uart_tx_o |-> TRUE, tx_busy |-> FALSE]))
  \o wait_cycles(RESET_LOW_CYCLES) \o release_reset_and_reapply_config \o expect_reset_idle_state
  \o mark \o check_uart_tx_idle_high_for(FrameClks) \o verify_no_event_delta(FrameClks)
  \o Call("reset_stream") \o Apply("flags", [strict |-> TRUE]) \o clear_history
  \o set_tx_monitor_strict(TRUE) \o send_tx_expect(60)

\* What both subcases with a character on the receive line do from its reset on.
LOCAL ResetUntilLineIdle ==
  drive_reset(TRUE) \o wait_cycles(2) \o check(Sampled([rst_n |-> FALSE, rx_busy |-> FALSE]))
  \o wait_done \o wait_cycles(BASIC_UART_BIT_CLKS * 2)

LOCAL NothingStale ==
  release_reset_and_reapply_config \o expect_reset_idle_state
  \o mark \o verify_no_rx_record_for(NO_STALE_RX_CYCLES) \o verify_no_event_delta(FrameClks)

subcase_reset_while_rx_active ==
  Fresh \o enqueue_bytes(<< 166 >>) \o wait_rx_busy
  \o ResetUntilLineIdle \o NothingStale \o ReceivesAgain(106)

subcase_reset_during_rx_low_condition ==
  Fresh \o arm_next_framing_error \o enqueue_bytes(<< 0 >>) \o wait_rx_busy
  \o check(Sampled([uart_rx_i |-> FALSE]))
  \o ResetUntilLineIdle \o check(Sampled([uart_rx_i |-> TRUE]))
  \o NothingStale \o ReceivesAgain(153)

subcase_repeated_reset_recovery ==
  LET reset_lengths == << 3, 7, 11 >>
  IN Fresh \o FlattenSeq([i \in DOMAIN reset_lengths |->
       reset_and_reapply_config(reset_lengths[i]) \o expect_reset_idle_state
       \o ReceivesAgain(15 + i) \o send_tx_expect(31 + i)])

tc_reset ==
  subcase_reset_while_idle \o subcase_reset_with_nonempty_rx_fifo
  \o subcase_reset_with_nonempty_tx_fifo \o subcase_reset_while_tx_active
  \o subcase_reset_while_rx_active \o subcase_reset_during_rx_low_condition
  \o subcase_repeated_reset_recovery
=============================================================================
