------------------------------- MODULE TcUtils -------------------------------
(***************************************************************************)
(* vip_uart_core: the constants of pindefs.hpp and uart_params.hpp, the    *)
(* language in which the test cases are written down, and the helpers of   *)
(* cases/tc_utils.cpp.                                                     *)
(*                                                                         *)
(* A test case is one coroutine without branches, but for one test of      *)
(* "accepted": a program is the sequence of its calls, and TestBench says  *)
(* what each call does.  Labels of failures and logging are left out.      *)
(***************************************************************************)
EXTENDS Integers, Sequences, SequencesExt

CLK_HZ          == 100000000
BASIC_BAUD_RATE == 921600
SLOW_BAUD_RATE  == 460800
RX_FIFO_DEPTH   == 16
TX_FIFO_DEPTH   == 16

NONE == 0
EVEN == 1
ODD  == 2
UART_STOP_1 == 0
UART_STOP_2 == 1
UART_DATA_5 == 0
UART_DATA_6 == 1
UART_DATA_7 == 2
UART_DATA_8 == 3

bit_clks_of(baud_rate)   == (CLK_HZ + baud_rate \div 2) \div baud_rate
BASIC_UART_BIT_CLKS      == bit_clks_of(BASIC_BAUD_RATE)
HANDSHAKE_TIMEOUT_CYCLES == 1024
TX_IDLE_TIMEOUT_CYCLES   == BASIC_UART_BIT_CLKS * 16

-----------------------------------------------------------------------------
(* Formats and configurations.  A baud rate stands for its increment.       *)

tc_uart_params_for(baud_rate, data_bits, stop_bits, parity) ==
  [data_bits |-> data_bits, stop_bits |-> stop_bits, parity |-> parity,
   bit_clks |-> bit_clks_of(baud_rate)]

make_uart_params == tc_uart_params_for(BASIC_BAUD_RATE, 8, 1, NONE)

parity_enable(p)  == p.parity # NONE
bits_per_frame(p) == 1 + p.data_bits + (IF parity_enable(p) THEN 1 ELSE 0) + p.stop_bits
frame_clks(p)     == bits_per_frame(p) * p.bit_clks

\* A byte of which nothing is known stays so.
Garbled == -1
data_mask(data, data_bits) == IF data = Garbled THEN Garbled ELSE data % 2^data_bits

tc_make_uart_config(baud_rate, parity_mode, stop_bits, data_bits,
                    enable, rx_enable, tx_enable, hw_flow_enable) ==
  [enable |-> enable, rx_enable |-> rx_enable, tx_enable |-> tx_enable,
   baud |-> baud_rate, parity_mode |-> parity_mode, stop_bits |-> stop_bits,
   data_bits |-> data_bits, hw_flow |-> hw_flow_enable]

make_basic_uart_core_config ==
  tc_make_uart_config(BASIC_BAUD_RATE, NONE, UART_STOP_1, UART_DATA_8, TRUE, TRUE, TRUE, FALSE)

\* What drive_idle leaves on the configuration pins.
IdleConfig == tc_make_uart_config(0, NONE, UART_STOP_1, UART_DATA_8, FALSE, FALSE, FALSE, FALSE)

\* The same three in tc_cfg, tc_error and tc_stress_no_cts.
parity_from_cfg(mode)    == IF mode \in {EVEN, ODD} THEN mode ELSE NONE
data_bits_from_cfg(mode) == 5 + (mode % 4)
stop_bits_from_cfg(mode) == IF mode = UART_STOP_2 THEN 2 ELSE 1

ErrorFlags(frame_error, parity_error, break_detect) ==
  [frame_error |-> frame_error, parity_error |-> parity_error, break_detect |-> break_detect]
NoErrors == ErrorFlags(FALSE, FALSE, FALSE)

make_expected_rx_byte(data) == [data |-> data, errors |-> NoErrors]

-----------------------------------------------------------------------------
(* Calls.  Each is a program of one call.                                   *)

Call(name)      == << [op |-> name] >>
Apply(name, x)  == << [op |-> name, arg |-> x] >>

drive_idle         == Call("drive_idle")
apply_config(cfg)  == Apply("apply_config", cfg)
set_params(params) == Apply("set_params", params)
drive_reset(on)    == Apply("drive_reset", on)
drive_cts_now(on)  == Apply("drive_cts_now", on)
try_push_tx_byte(data, timeout) == << [op |-> "push", arg |-> data, timeout |-> timeout, must |-> FALSE] >>
push_tx_byte(data) == << [op |-> "push", arg |-> data, timeout |-> HANDSHAKE_TIMEOUT_CYCLES, must |-> TRUE] >>
pop_rx_byte        == << [op |-> "pop", timeout |-> HANDSHAKE_TIMEOUT_CYCLES * 4] >>
pulse_rx_fifo_clear == Call("clear_rx")
pulse_tx_fifo_clear == Call("clear_tx")

\* rx_byte_ready is low outside pop_rx_byte, so this only takes a clock.
set_rx_ready_false == Apply("clocks", 1)
wait_cycles(n)     == IF n = 0 THEN << >> ELSE Apply("clocks", n)

enqueue_bytes(bytes)     == Apply("enqueue", bytes)
arm_next_framing_error   == Apply("arm", "bad_stop")
arm_next_parity_error    == Apply("arm", "bad_parity")

\* event_counts() kept in `before'; 0 in the case's index of frames.
mark                     == Call("mark")
rewind                   == Call("rewind")
clear_history            == Call("clear_history")
expect_rx_byte(rec)      == Apply("expect_rx", rec)
expect_frame(data)       == Apply("expect_frame", data)
expect_core_byte(data)   == Apply("expect_byte", data)
observe_frames(total)    == Apply("observe", total)

\* check a condition now; wait until it holds, a clock at a time; and see that
\* it holds for so many clocks.
Forever                  == -1
check(cond)              == Apply("check", cond)
wait(cond, timeout)      == << [op |-> "wait", arg |-> cond, timeout |-> timeout] >>
hold(cond, clks)         == << [op |-> "hold", arg |-> cond, clks |-> clks] >>

\* Conditions: fields of a sampled status or of pins; frames captured; events
\* since mark; the latest ticket; acceptance of the latest byte; the latest record.
Sampled(want)            == [on |-> "status", want |-> want]
FramesSeen(n)            == [on |-> "frames", want |-> n]
NoFrameAfter(n)          == [on |-> "no_more_frames", want |-> n]
EventsAre(deltas)        == [on |-> "events", want |-> deltas]
TicketDone               == [on |-> "ticket"]
Accepted(b)              == [on |-> "accepted", want |-> b]
Popped(rec)              == [on |-> "popped", want |-> rec]

for_each(f(_), seq)      == FlattenSeq([i \in DOMAIN seq |-> f(seq[i])])
make_bytes(count, first) == [i \in 1 .. count |-> (first + i - 1) % 256]

wait_done                == wait(TicketDone, Forever)
wait_for_frames(n)       == wait(FramesSeen(n), Forever)

\* Seeded fault: the transmitter is idle as soon as its FIFO is empty.
MutWait_tx_idle_for(timeout) == wait(Sampled([tx_empty |-> TRUE]), timeout)

wait_tx_idle_for(timeout) == wait(Sampled([tx_empty |-> TRUE, tx_busy |-> FALSE]), timeout)
wait_tx_idle              == wait_tx_idle_for(TX_IDLE_TIMEOUT_CYCLES)

check_idle_status ==
  check(Sampled([rx_level |-> 0, rx_empty |-> TRUE, rx_full |-> FALSE,
                 tx_level |-> 0, tx_empty |-> TRUE, tx_full |-> FALSE,
                 rx_busy |-> FALSE, tx_busy |-> FALSE, cts_blocked |-> FALSE]))

-----------------------------------------------------------------------------
(* cases/tc_utils.cpp.                                                      *)

tc_apply_uart_config(cfg, params) == set_params(params) \o apply_config(cfg)

tc_apply_basic_config == tc_apply_uart_config(make_basic_uart_core_config, make_uart_params)

tc_local_reset ==
  drive_idle \o drive_cts_now(TRUE)
  \o drive_reset(TRUE) \o wait_cycles(4) \o drive_reset(FALSE) \o wait_cycles(4)
  \o tc_apply_basic_config \o wait_cycles(4)
=============================================================================
