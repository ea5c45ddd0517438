------------------------------- MODULE TcPhase -------------------------------
(***************************************************************************)
(* cases/tc_phase.cpp: frames that begin at odd offsets from a clock edge. *)
(* An offset is less than a clock, so in TestBench it is within the freedom*)
(* of when a character begins: what is left of it here is how often a byte *)
(* is sent.                                                                *)
(***************************************************************************)
EXTENDS TcUtils

PHASE_STATUS_TIMEOUT_CYCLES == BASIC_UART_BIT_CLKS * 64

apply_phase_config == tc_apply_basic_config \o wait_cycles(2) \o set_rx_ready_false

expect_no_rx_event_delta ==
  check(EventsAre([rx_overrun |-> 0, rx_frame_error |-> 0, rx_parity_error |-> 0, rx_break_detect |-> 0]))

wait_rx_level(level) == wait(Sampled([rx_level |-> level]), PHASE_STATUS_TIMEOUT_CYCLES)

wait_rx_empty_idle ==
  wait(Sampled([rx_level |-> 0, rx_empty |-> TRUE, rx_full |-> FALSE, rx_byte_valid |-> FALSE,
                rx_busy |-> FALSE]), PHASE_STATUS_TIMEOUT_CYCLES)

send_rx_bytes_with_initial_phase(data) ==
  enqueue_bytes(data) \o wait_done \o wait_cycles(BASIC_UART_BIT_CLKS * 4)
send_rx_byte_with_phase(data) == send_rx_bytes_with_initial_phase(<< data >>)

pop_rx_expect(data) ==
  expect_rx_byte(make_expected_rx_byte(data)) \o pop_rx_byte \o check(Popped(make_expected_rx_byte(data)))

LOCAL SendPop(data) == send_rx_byte_with_phase(data) \o pop_rx_expect(data) \o wait_rx_empty_idle

run_phase_byte(data) == mark \o SendPop(data) \o expect_no_rx_event_delta

LOCAL run_phases(data, phases) == FlattenSeq([i \in 1 .. phases |-> run_phase_byte(data)])

-----------------------------------------------------------------------------

LOCAL Fresh == tc_local_reset \o apply_phase_config

subcase_baseline_receive == Fresh \o run_phase_byte(85)

subcase_single_byte_phase_sweep == Fresh \o run_phases(165, 7)

subcase_multi_pattern_phase_sweep ==
  LET patterns == << 0, 255, 85, 170, 129, 126, 195, 60 >>
      sweep(pattern) == run_phases(pattern, 5)
  IN Fresh \o for_each(sweep, patterns)

subcase_back_to_back_fixed_odd_phase ==
  LET data == << 16, 34, 52, 70, 88 >>
  IN Fresh \o mark \o send_rx_bytes_with_initial_phase(data) \o wait_rx_level(Len(data))
     \o for_each(pop_rx_expect, data) \o wait_rx_empty_idle \o expect_no_rx_event_delta

subcase_repeated_changing_phase == Fresh \o for_each(run_phase_byte, make_bytes(7, 49))

subcase_near_edge_recovery ==
  LET recovery(data) == mark \o SendPop(data) \o SendPop(30) \o expect_no_rx_event_delta
  IN Fresh \o for_each(recovery, << 225, 225 >>)

tc_phase ==
  subcase_baseline_receive \o subcase_single_byte_phase_sweep \o subcase_multi_pattern_phase_sweep
  \o subcase_back_to_back_fixed_odd_phase \o subcase_repeated_changing_phase
  \o subcase_near_edge_recovery
=============================================================================
