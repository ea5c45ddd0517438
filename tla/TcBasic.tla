------------------------------- MODULE TcBasic -------------------------------
(***************************************************************************)
(* cases/tc_basic.cpp: a few bytes each way.                               *)
(***************************************************************************)
EXTENDS TcUtils

LOCAL Receives(byte) ==
  expect_rx_byte(make_expected_rx_byte(byte)) \o enqueue_bytes(<< byte >>) \o wait_done \o pop_rx_byte

tc_basic ==
  LET tx_byte_side_bytes == << 60, 197 >>
  IN tc_local_reset \o check_idle_status
     \o for_each(Receives, << 85, 163 >>)
     \o clear_history
     \o for_each(expect_core_byte, tx_byte_side_bytes) \o for_each(expect_frame, tx_byte_side_bytes)
     \o for_each(push_tx_byte, tx_byte_side_bytes)
     \o wait_for_frames(2) \o rewind \o observe_frames(2)
     \o wait_tx_idle \o check_idle_status
=============================================================================
