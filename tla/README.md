# A TLA+ development of RapidVPI and its UART template

RapidVPI lets a testbench be written as C++ coroutines that wait on simulator
callbacks (`main/src`). The repository ships a template that uses it: common
verification components (`vip_common`), a UART agent (`vip_uart`), a project
that tests a UART core (`vip_uart_core/src`) and the core itself in
SystemVerilog (`rtl_uart_core/src`).

## 1. Inventory

| Part | State | Operations | Hard part |
| --- | --- | --- | --- |
| Scheduler and awaitables, `main/src/scheduler`, `main/src/testbase` | `SchedulerCallbackData` blocks owned by the simulator, the writes of an `AwaitWrite`, coroutine frames and parent handles | `await_suspend`, `await_resume`, the four callbacks, `co_await` and `final_suspend` of a nested task | callbacks nest inside `vpi_put_value`; who frees a block, and when; who resumes whom |
| Core and test manager, `main/src/core`, `main/src/testmanager` | the test object, the registered tests | `sim_init` starts every test | tests run to their first suspension inside the start-of-simulation callback |
| Runner, `vip_common/runner` | cases, plan, order constraints | `add_case`, `set_plan`, `set_plan_tagged`, `add_after`, `compute_execution_order`, `case_runner` | cyclic constraints, unknown and doubled names |
| Clock and reset agents, `vip_common/agents` | running, period, requests | `clk_run`, `stop`, `set_period` | requests that arrive between two edges |
| Transmit agent, `vip_uart/agents/uart_tx` | `pending`, tickets | `enqueue`, `wait_done`, `reset_case`, the sender | the queue is changed while the sender waits |
| Receive agent, `vip_uart/agents/uart_rx` | history of frames, capture enable, CTS | `capture_frame_`, `drive_cts_`, `reset_case` | a character under way when a case or the settings change |
| Scoreboards | expected and observed streams, fail budget | push, match, close a case | events outside a case |
| Test cases, `vip_uart_core/src/cases` | expectations, tickets, indices into the history | eight cases, the hooks of `test.cpp` | time-outs against traffic; what one case leaves to the next |
| Interface agent, `vip_uart_core/src/agents` | pulses, sampled status, sticky events | `push_tx_byte`, `try_push`, `pop_rx_byte`, monitor | handshakes decided on sampled values |
| Byte FIFO, `uart_byte_fifo.sv` | memory, pointers, level | push, pop, clear | both in one cycle at a limit |
| Transmitter, receiver, baud generator, flow control, core (`*.sv`) | line state machines | one clock edge | overrun, flow control slack, break, disable in mid frame |

Everything in the testbench runs on one thread: what interleaves is the order
of simulator callbacks, and the tests and agents are coroutines that lose
control only at a `co_await`.

PROJECT.json lists every part with its state of work, and the hazards, each at
its line.

## 2. Plan

The order puts first what everything else stands on. All steps are done.

| Step | Modules | Composes, implements | State |
| --- | --- | --- | --- |
| 1 | `VpiScheduler` | | checked, proved |
| 2 | `BoundedQueue`, `ByteFifo` | `ByteFifo` implements `BoundedQueue` | checked, proved |
| 3 | `UartTxAgent` | | checked, proved |
| 4 | `UartPkg`, `UartBaudGen`, `UartTx`, `UartRx`; `UartRxLine`, `UartLoopback` | the last two put the first four in surroundings; the transmitter of `UartLoopback` implements `SerialLine` | checked, proved |
| 5 | `UartHwFlowCtrl`, `UartCore`, `UartCoreLoop` | the components of step 4 with two `BoundedQueue`; looped back they implement `ByteStream` | checked, proved |
| 6 | `TcUtils`, `Scoreboards`, `TestBench`, `Tc*` | core, agents, scoreboards and the eight cases | checked |
| 7 | `UartCoreIntf` | the calls of a case on the FIFOs of the core | checked, proved |
| 8 | `Runner`, `ClockAgent` | | checked, proved |
| 9 | `AwaitValues` | buffers of the awaitables, number formats | checked, proved |

Modules named `...Proofs` hold the proofs, and `DataInduction` lemmas that two of
them use. Three of them are about two modules each, one after the other: `AgentProofs`
(`UartTxAgent`, `UartCoreIntf`), `VipCommonProofs` (`Runner`, `ClockAgent`) and
`UartCoreLoopProofs` (`UartCoreLoop`, `ByteFifo`). For them the specifications of
`UartCoreIntf`, `ClockAgent` and `ByteFifo` are named `IntfSpec`, `ClockSpec` and
`FifoSpec`. An `MC` module gives constants that a
configuration cannot write down; `VpiScheduler` and `UartCoreIntf` need none and are
run as they are. `MCClockedFifo` composes `ClockAgent` and `ByteFifo` (section 4), and
`MCTestCases` names the cases that `test.cpp` registers. Three abstract modules are
refined and checked as properties: `BoundedQueue`, `SerialLine`, `ByteStream`.
Types are checked as a property of their own (`scheduler`) or as a part of the
main invariant, or they are proved.

Left for later: proofs about `TestBench`.

## 3. `VpiScheduler`: coroutines, callbacks, simulator

| In the module | In the code |
| --- | --- |
| `stack` | the C++ call stack from the simulator's callback inwards: `h.resume()` in a callback, the loop of `AwaitWrite::await_resume`, coroutine bodies, the resume in `final_suspend` |
| `frame`, `parent` | coroutine frames of `RunTask` and `RunUserTask`, `parentHandle` |
| `data`, `registered` | `SchedulerCallbackData` blocks; those a registered callback points to |
| `group` | `grouped_writes` of an `AwaitWrite` |
| `AwaitWriteSuspend`, `AwaitReadSuspend`, `AwaitChangeSuspend` | the three `await_suspend` |
| `WriteCallback`, `ReadCallback`, `ChangeCallback`, `CallbackReturns` | `scheduler::write_callback`, `read_callback`, `change_callback`, before and after the resume |
| `ChangeCallbackTargetedKeeps`, `ChangeCallbackTargetedFires` | `change_callback_targeted`, the two outcomes of its comparison |
| `PutValue`, `PutsDone` | the `vpi_put_value` loop of `AwaitWrite::await_resume` |
| `CallTask`, `TaskReturns`, `TaskDestroyed`, `TestReturns` | `co_await` of a task, `final_suspend` and what follows in it |
| `StartTest`, `SimInitReturns` | `sim_init` |
| `DutChange`, `EnterReadOnly`, `AdvanceTime` | the simulator and the design; external |

Abstractions. A net has one bit. The simulator has two regions per tick; a
timer callback comes in its region, all changes are delivered before the
read-only region, and a value-change callback may come inside `vpi_put_value`
or after it. Every registration may fail (`RegistrationFails`): the code then
prints a warning and leaves the coroutine asleep for ever (frame state
"lost"). IEEE 1800 forbids to schedule events of the current tick from its
read-only region, so there a write without delay can only fail; simulators
that are more lenient run the callback in the next tick, which for the
properties is a write with a delay. When a task is called, the caller's
`await_suspend` stays on the C++ stack below the child; it only returns, so it
is not kept in `stack`.

`scheduler` runs two tests, a nested task and the design around one net, with
three blocks, two ticks and four units of work, fair, and shows:

- blocks are freed once and after their last use (`BlocksSafe`);
- a sleeping coroutine has exactly one callback that wakes it (`OneWaker`);
- tasks return to the caller that waits for them, no frame is resumed twice or
  destroyed in use (`FramesSafe`);
- callbacks nest two deep at most and none re-enters itself (`NestingSafe`);
- what a read fetched does not change in its tick (`ReadSeesSettled`);
- timed awaits end (`TimersFire`), changes wake their watchers (`ChangesWake`).

Bounds. `MaxTime` and `MaxWork` end a behaviour, so the deadlock check is off:
a simulation does end. Three blocks are one more than the awaits that two
tests can be in, so that a block may be in use by a callback on the stack while
both tests wait. Four units of work (calls and awaits) let a task that a test
calls write to the net that the other test watches, which nests a change
callback in the write. More nets, deeper calls and more blocks add activations
of the same kinds; the proofs cover them for every number.

Fairness. The program is one thread that never blocks and the simulator calls
what is due: weak fairness on the coroutine's steps, on the callbacks and on
the simulator's own steps. The design gets none: it need not move.

## 4. `ByteFifo` and `BoundedQueue`: the FIFO of the core

One action is one rising clock edge of `uart_byte_fifo.sv`, with any
combination of `clear`, `push_valid`, `pop_ready` and data; reset is a clear.
`io` records the signals at the edge, so that the refinement speaks of the
handshakes as well as of the content. `BoundedQueue` says what is promised: a
sequence of at most `DEPTH` items, where a push on a full queue is taken if a
pop makes room at the same edge.

`clocked_fifo` has the clock agent (section 11) drive the clock, and the FIFO work at
its rising edges. The two share nothing but that net, so `traffic`, chosen at the start,
says which of them is put to the test, which keeps the states a sum and not a product:
with it the clock only runs, at the shortest period, and the inputs of the FIFO are
any; without it the requests are any and the FIFO is idle. Depth 3 with pointers of two
bits is the smallest depth that is no power of two, so that the pointers have to wrap by
comparison. All sequences of inputs are covered, without a bound; the state space is finite.
`FifoTypeOK`, which is proved, has the ranges the design needs (pointers within the memory), not
those of the registers. The memory is not reset and holds unknown words until
they are written; `Consistent` says no such word is ever queued.

## 5. `UartTxAgent`: the transmit agent and its cases

One action is the code of a coroutine from one suspension to the next that
matters: a wait followed by a sample is one suspension, as the code between
does nothing. Durations are left open, so any call of the case, any change of
RTS or reset and any new case may come between two symbols.

| In the module | In the code |
| --- | --- |
| `Enqueue`, `MakeItem` | the `enqueue_*` functions, `make_item_` |
| `ArmError`, `SetParams`, `SetFlow`, `ClearHistory` | the other calls of a case |
| `WaitDone`, `WaitDoneReturns` | `wait_done` |
| `NextCase` | a case returns, the runner calls `reset_case` |
| `DriveIdle`, `SampleReset`, `Take` | the loop of `agent` |
| `SampleRts` | one round of `wait_rts_active_` |
| `Align`, `SendStart`, `SendData`, `SendParity`, `SendStop`, `FrameSent` | `send_item_`, `ticket_done_` after it |
| `NetChanges` | the design and the reset agent; external |

The symbols driven are kept per frame (`driven`) and compared with the frame
that was asked for (`Image`, from the parameters at the time of the call),
while the sender's loops read the live parameters, as in the code. An item is
marked when `set_params` comes between. After `pending.front()` on an empty
deque the behaviour is undefined; the sender is then in state "undefined" and
does nothing more.

Not in the model: `auto_expect` (no stream scoreboard is attached to this
agent, `test.cpp:59`), polarity and bit order, several ports (they share only
the ticket counter), and the exception for a baud rate of zero.

`uart_tx` checks two frames and two formats (one data bit, no parity, one stop
bit; two data bits, parity, two stop bits) with four units of work, where
settings, cases and net changes each cost one. Two frames are enough for order
and for a frame that is queued while another is sent; four units for a case
change, a change of RTS, one of reset and one setting in one behaviour. It shows
that no frame is lost, doubled or overtaken (`TicketsKept`), that frames are
driven whole (`FramesWhole`), and that `wait_done` returns (`WaitsEnd`). Fairness:
the sender and `wait_done` go on, since clock edges come for ever; that the design
leaves reset and accepts data is a premise of `WaitsEnd`, not a fairness
assumption. The deadlock check is off because the bounds end a behaviour.

`uart_tx_race` shows a disagreement: a frame waits for RTS, the case ends,
`reset_case` empties the queue, RTS comes, and the sender takes from the empty
queue. No case of the repository uses RTS in the agent (`pindefs.hpp:150`).

## 6. The lines of the core

One action is one rising clock edge, and a register's new value comes from
the values before it. `UartPkg` has the formats of `uart_pkg.sv` (a byte is a
function from bit numbers to bits), `UartBaudGen`, `UartTx` and `UartRx` (with
the synchroniser) the registers and edges of the files of these names. Debug
displays are left out, and so are unknown values (`x`) on the inputs.

| Run | Surroundings | What it shows |
| --- | --- | --- |
| `loopback` | transmitter to receiver; rate, format and the enables of core and directions change between any two edges | `NoDrift`: ticks and the rest in the registers account for all that was accumulated; `ImplementsSerialLine`: on the line are whole frames of what was latched at the launch, a level per tick, high between them; `LoopsBack`: what went in comes out, without errors, one at a time; `AllArrive`: all of it comes out |
| `rx_line` | a peer with its own bit length, at any phase; wrong parity and stop bits, breaks, glitches, pauses or none between frames | `DecodesAll`: every frame and every break gives its record once, a glitch none |

Bounds. `loopback`: oversampling of 8, a phase accumulator of 4 instead of 2^32,
two increments, one of which does not divide it, two bytes, and seven
configurations: 5N1, 7O2, 8E1, 6N1 by the reserved codes, either direction
disabled, all disabled. `MaxFlight` stops launches when two characters are under
way; by `LoopsBack` there is never more than one, so it is not reached. The state
space is finite without a bound on the length.
`rx_line`: oversampling of 8, an increment of 7 of 8, so that a bit of the core is
64/7 clocks and drifts against the peer's 9 clocks; three formats (5N1, 5O2, 8E1),
breaks of no or four bits beyond a frame, glitches of two clocks.
What difference in speed the receiver stands is stated by `Tolerated`: no bit of the
longest frame is sampled before it begins or later than three clocks before it ends.
The distance from the peer's edge to the sample varies by one tick of the generator,
and the three clocks are what the receiver needs to be armed again when the
next start bit follows at once. `GlitchesEnd` bounds glitches in the same way. The
instance of the run is within both bounds (`Tolerable`, which TLC evaluates), and
`ReceiverDecodes` (section 13) proves `DecodesAll` for all instances that are. With the
numbers of the run 7O2 is tolerated, 8O2, one bit longer, is not; with a bit of 10
clocks instead of 9 5N1 is not either, and `DecodesAll` fails. Glitches of up to four
clocks are allowed, and with one of five it fails.

The oversampling of 8 is the least for which `LoopsBack` holds at whatever rate,
changed in mid frame: the receiver sees an edge up to four ticks late, and
samples half a bit later. With 2 to 7 TLC finds violations (accumulator 8,
increments 1 and 7); the core's own default is 16.

Restrictions on the surroundings of `loopback`: the format does not change
between the start bit and the moment the receiver sees it (`Unseen`), as both
sides then latch different formats, each rightly; and the core as a whole is
switched only between frames. `design_guide.md:222` asks for more, configuration
while idle or disabled. Nothing is offered while the receiver is disabled.

Fairness: clock edges come for ever.

## 7. `UartCore`: flow control and the whole core

`UartCore` puts the baud generator, transmitter, receiver, synchronisers, RTS
and CTS together with two FIFOs, as `uart_core.sv` does. The FIFOs are
`BoundedQueue`, which `ByteFifo` is shown to implement. `UartCoreLoop` wires
the line back; its upper layer offers and takes bytes as it likes.

One run, `core`, has three setups, one of them for a behaviour: RTS wired to CTS
with flow control; CTS driven at will with flow control; no flow control, with
clears of both FIFOs at any edge. It shows:

- `ImplementsByteStream`, in all three: bytes go through both FIFOs and the line
  in order, none twice, and one is lost exactly when the overrun event is there;
  a clear takes bytes from the ends only;
- `KeepsAll`: with RTS wired to CTS nothing is lost, and no character has an error;
- `StopsOnCts`: one more character at most leaves after CTS is withdrawn
  (both in a core with the two pins, `HAS_RTS_CTS`);
- `Launches`: RTS is not withdrawn for good.

The depths are the smallest with the boundary in them: a transmit FIFO of 1 and
a receive FIFO of 2, where RTS is withdrawn at level 1 and asserted at level 0.
When it is withdrawn one more character may be under way, which is all the room
there is; without flow control the FIFO overruns. The bytes offered alternate
between two values, enough to tell an order from another. All behaviours of
these instances are covered, without a bound on their length. The increment
takes the place of the baud rate; the oversampling is 9.

Fairness: clock edges come for ever. That the upper layer takes bytes again
and again is the premise of `Launches`.

## 8. `UartCoreIntf`: the calls of a case, edge by edge

`try_push_tx_byte`, `pop_rx_byte`, `set_rx_ready`, `pulse_rx_fifo_clear`,
`pulse_tx_fifo_clear` and `wait_tx_idle` of `intf.cpp`, a step from one
suspension to the next, and `monitor_events` for overruns. A case drives after
falling edges and samples after either; the core is reduced to its FIFOs and
handshakes (`Rise`), with baud ticks, ends of characters and arrivals at any
edge.

`intf` shows that a call says what happened: a byte reported as accepted went
in once and one that timed out did not (`PushOnce`), a pop takes the record it
returns (`PopsWhatItReads`), and every call returns (`CallsReturn`).
`IdleMeansSent` holds the calls against the line: when `wait_tx_idle` returns in time,
the bytes that calls reported as accepted are those that were sent to their last bit
(`gone`) or taken by a clear, and no others. It depends on the transmitter leaving
its idle state at the edge that pops the FIFO (`uart_core.sv:259`, `uart_tx.sv:173`,
`:279`): were `busy` any later, the call could return in between.
No overrun is missed by the monitor (`DropsCounted`), wherever ready or a clear
changes between its samples. A record that arrives in the cycle of a clear is lost
without an overrun and without a count (`uart_core.sv:201`, `:225`); `ByteStream`
has that loss (section 7), `DropsCounted` does not speak of it.

Bounds: FIFOs of 2, a time-out of 2 cycles, four calls and four characters in
a behaviour. Two calls of each kind and a full FIFO fit into these; the theorems have no bounds. Fairness: the clock runs, and a
coroutine that an edge woke runs before the next one, as the simulator has it.

## 9. `TestBench`: the eight cases

A case is one coroutine without branches but for one test of `accepted`.
`Tc*` write the eight cases down as programs of calls, with the helpers of
`tc_utils.cpp` in `TcUtils`, and `TestBench` says what each call does to the
core, the agents, the scoreboards (`Scoreboards`) and the counts. The
core and the agents work on whole characters: launched, captured, ended;
begun, received, sent.

Time. A step is a call or a step of a character. The order is free except for
what the lengths in clocks decide; the header of the module states the three
rules (`fresh`, `Passed`). They are what makes the time-outs of the cases
meaningful: a time-out of n clocks runs out only after as many characters have
ended as fit in.

Left out: the phase between agent and core inside a character (the offsets of
`tc_phase` are waits here; `rx_line` covers phases), pins other than CTS and
RTS, log messages, labels of failures.

`cases` runs every case alone and every pair: on a core without RTS and CTS all
cases but `tc_flow_ctrl`, on one with them the plans with `tc_flow_ctrl` in them.
`tc_cfg` asserts that a core without RTS and CTS ignores them, so it runs on such
cores only. No case fails on a core that works (`NoFailures`), none leaves traffic
or settings to the next (`CleanHandover`), no one changes the speed of a line in
use (`LinesStable`), and every case comes to its end (`CasesEnd`): `wait_done` and
`wait_for_frames`, which have no time-out, are answered.

The depths and numbers are those of the code (FIFOs of 16); a behaviour ends
with its plan, and the last state repeats, so deadlock is checked. Pairs are
enough for what a case leaves behind, as each starts by resetting its agents and
scoreboards.

Fairness: the bench as a whole goes on, that is, the simulator does not stop.

## 10. `Runner`

The registry, the plans, `add_after`, `compute_execution_order` (the order is
the result of an operator, as it runs without suspension) and `case_runner`
with its hooks. Ranks are distinct, so the iteration order of the unordered
containers does not matter.

`runner`: what runs is what is selected and all it depends on, once
(`Complete`), in an order that keeps the constraints that can be kept
(`InOrder`) and changes no more than these ask (`NoNeedlessReordering`), with
the hooks around each case (`HooksEnclose`).

Instance: five registrations (one name twice, one case disabled, one without a
function), two plans, three calls by tags, an unknown name, up to three
constraints. Two constraints make chains, cycles and forks, three a chain behind
a cycle. The state in which
all is done repeats, so that the deadlock check shows that a run gets there.

The loops of `compute_execution_order` are recursive functions of the number of
rounds (`Grown`, `Kahn`), as many as there are cases; that further rounds would
change nothing is proved (`VipCommonProofs`).

## 11. `ClockAgent`

`clk_run` between its suspensions, in ticks, with `start`, `stop` and
`set_period` at any moment. A request in the tick in which the coroutine wakes
may come before or after it.

`clocked_fifo` (section 4): no half and no cycle is cut by a request (`WholeCycles`), and the clock
comes to do what the last request said (`DoesAsAsked`). Periods 1, 5 and 8 (a
minimum, an odd and an even one), a poll of 3 ticks, four requests: a stop, a
start and a change of period within one cycle. `MaxHeld` is above every period. Fairness: time passes
and the coroutine runs when its delay is over.

## 12. `AwaitValues`: buffers and formats of the awaitables

What `AwaitWrite` queues, what `AwaitRead` and `AwaitChange` store and what
`getNum` and the text getters make of it, with the conversions of
`utility.cpp`. A chunk has 4 bits instead of 32, a net has one, two or three
chunks, and all values with `x` and `z` at interesting places are driven by the
design at any suspension.

`await_values`: a number is that of the latest sample not taken, and of a net of one
chunk that was read twice in a row of the two samples joined (`NumOfSamples`); a text
and its hexadecimal form agree (`HexAgrees`); and an object that is used again does
not repeat an old write (`WritesOnce`). An `AwaitRead` may be awaited again at any
time, whatever was taken of it. That the number is then that of the text, as
`README.md:169` has it, is `NumIsLatest`, and `await_values_reread` shows that it is
violated: awaited twice, a net of one chunk gives both samples as one number
(section 15). `MaxUnread` bounds the chunks kept: three samples of a net of one chunk,
two of the others. The
deadlock check is off: a coroutine may wait for a change of a net that it has
forced itself.

## 13. Proofs

TLAPS proves the following for every value of the constants, from the
assumptions named in the modules. What a theorem assumes beyond these is in its
statement.

| Module | Assumptions | What they say |
| --- | --- | --- |
| `VpiScheduler` | `ConstantsAssumption` | the names are distinct, the values are values |
| `ByteFifo` | `ParamAssumption` | a depth of at least one, registers wide enough for it |
| `UartTxAgent` | `AgentAssumption`, `NoneAssumption` | formats are formats, no item is `None` |
| `UartLoopback` | `LoopInputs` | accumulator and oversampling are positive, the increments are below the accumulator's range, bytes and configurations are such |
| `UartRxLine` | `LineInputs` | the same; bit and glitches are at least a clock long, breaks are numbers, the mark for no record is none |
| `UartCore`, `UartCoreLoop` | `CoreAssumption`, `LoopAssumption` | the same; depths of at least one, levels are numbers, something to send |
| `UartCoreIntf` | `IntfAssumption` | depths and bounds are numbers |
| `ClockAgent` | `ClockAssumption`, `HeldAssumption` | the count of ticks does not stop before the longest half period |
| `Runner` | `RunnerAssumption` | registrations and plans are finite sequences, a case says whether it has a function and is enabled |
| `AwaitValues` | `LengthAssumption`, `WidthAssumption`, `DesignAssumption`, `InputAssumption` | nets and chunks have at least a bit, what is written is of bits, what is driven is as long as the net |

`VpiSchedulerProofs`. `Inv` is inductive: `TypeOK`, the parts of the invariants of
the run, and `Bookkeeping`. None of them is inductive alone. A
callback that returns frees the block on top of the stack; that no other
registration points there needs `UserDataAlive`; that the block is on the
stack only once needs `NestingBound`, which says what may lie under what; that
a value-change callback cannot write needs `Bookkeeping`, which says the
callback under a `vpi_put_value` is a write callback; that the coroutine it
resumes sleeps needs `OneWaker`; that the caller it returns to waits needs
`CallersAndTasks`. There is one lemma per action, with the suspensions, the
timer callbacks and the pops of a finished frame proved once for all their
kinds. The module begins with what is needed of a
sequence used as a stack.

Results: `TypeCorrect`, `CallbackDataSafe`, `ExactlyOneWaker`, `CallersAndFrames`,
`BoundedNesting`, and `ReadsSettle`, an action property, which needs a second
invariant: `ReadsAfterWrites` says that the latest read of a tick was made in
its read-only region and that values are put in the active region only.

`UartCoreLoopProofs`, on `ByteFifo`. `FifoTypeOK` and `Consistent` together are inductive: the
pointers are `level_q` words apart, modulo the depth, and the words between
them are written. `Slot` numbers these words from the read pointer; the lemma
`MoveFacts` says where each queued item is after an edge. `FifoRefinement` shows
that `Contents`, the words from the read pointer on, moves like the queue of
`BoundedQueue`, with the same signals.

`AgentProofs`, on `UartTxAgent`. `TypeOK`, the two parts of `TicketsKept`, and
`FramesWhole` together are inductive: that a ticket done in `FrameSent` is not
one still queued needs the order of tickets, and `FramesWhole` needs to know
which symbols have been driven at each point of the sender, which is a part of
the invariant.

`UartLoopbackProofs`. Three results. `BaudDoesNotDrift`: the ranges of the
registers of the baud generator and `NoDrift` are inductive; a tick takes one
accumulator's worth out of the phase, and the count goes round with the baud
tick. `TransmitterKeepsFrames`: the refinement of `SerialLine`, for any
oversampling. `TxInv` tells the level and the parity bit from the other
registers; `RemainingStep` shows that a state of the transmitter drives the
head of what `Remaining` says and leaves its tail, and `LaunchFrame` that a
launch begins a frame of the format latched.

`CharactersLoopBack`: `LoopsBack`, for oversampling of at least 8. The two sides
share the ticks but not the state; what relates them is `Elapsed`, the ticks
since the transmitter's last baud tick. `LinkInv` has four phases of a
character: `Rests`, `Begun` (the start bit goes through the three flip-flops
of the synchroniser, one clock each, at most one tick each), `Sampled` and
`Ended`. In `Sampled` the receiver's count is behind `Elapsed` by the same
distance as when it saw the start bit, 0 to 4 ticks (`Aligned`), so that it
samples a bit `Half` to `Half + 4` ticks after that began; with 8 ticks in a bit or
more the sample, and the two clocks that the level took to get there, lie
within the bit (`Settled`). The distance is the same when the rate changes,
because both sides count ticks. The phases themselves are what
needs strengthening: `LoopsBack` alone says nothing of the state of either
side.

`UartRxLineProofs`. `ReceiverDecodes`: `DecodesAll` for every oversampling, format,
accumulator, increment and length of the peer's bit, assumed that `Tolerated` and
`GlitchesEnd` (section 6) hold and that the receiver is enabled. The receiver's
steps are the lemmas of `UartLoopbackProofs`, instantiated (`Rcv`). Here the two
sides share nothing but the line, so what relates them is arithmetic: `LineInv`
follows one frame of the peer and counts the clocks since its first edge. `At` says
which level the peer drives by then and `SyncAt` which levels, up to three clocks old,
the synchroniser holds. The receiver has either not found the start yet (`Begun`, 0 to
3 clocks) or it has taken k samples (`Receiving`), and `Within` compares what the
generator has accumulated, in ticks counted and in its register, with the clocks
since the start was found times `Inc`: the difference is what the register held at
that moment, less than a tick. From this `NotEarly` and `NotLate` place a sample at a clock at
which the flip-flop sampled shows the bit k, and what the receiver's registers
must hold after k samples are functions of the frame's first k levels (`DataOf`,
`BadParity`, `StopLow`). A frame is `Over` once nothing of it is left that could be
taken for a start bit: after a wrong stop bit or a break that needs the line to have been
high before the receiver is armed, which is where the record is one and not two.
The edge at which the next frame begins may be that of the last sample, a case of its
own (`Finishing`). `DecodesAll` alone says nothing of the time at which a record comes.

`UartCoreLoopProofs`, on `UartCoreLoop`. The line inside the core is that of `UartLoopback`, so the
module instantiates its proofs (`Link`) and uses `LinkStep` as a lemma; the first
lemmas show that the instances of the package and of the components agree.
`CtsStopsTheTransmitter` (`StopsOnCts`): after CTS is withdrawn at the pin the
change is in one, two or three flip-flops of the synchroniser, while a
character launched meanwhile is in its start bit or its data (`StopInv`).
`FlowControlKeepsAll` (`KeepsAll`): assumed are an oversampling of at
least 8, `RTS_DEASSERT_LEVEL` at most the depth of the receive FIFO and
`RTS_ASSERT_LEVEL` below it. The levels that `uart_core` sets, depth - 2 and half the
depth, satisfy this; the theorem shows that the slack of two is not needed when
the peer is this transmitter. `RoomInv` says that FIFO and line together hold no
more than the depth, and when the FIFO is full, how far the news has got:
each clock on the way from the level over RTS to the third flip-flop of CTS is at most
one tick, so it arrives before the next baud tick, the first at which a launch can be.
`BytesAreAStream`: the refinement of `ByteStream`. The stream is receive FIFO,
line and transmit FIFO, concatenated; an edge moves the head of each part to
the end of the one before (`Moved`), and `EdgeOfStream` shows of any three
sequences so moved that what they make up loses a head, a lost byte or what a
clear takes, and gains at its end. That a byte is on the line without error, and only
one, is `LinkInv`.

`AgentProofs`, on `UartCoreIntf`. The invariant has eight parts: types; what the
inputs are at each point of a call (`IntfDriven`); at which edge each point may be
(`IntfPlaces`); how many bytes have entered by then (`Pushing`); which record the
pop has seen and that it is still at the head (`Popping`);
overruns against counts (`Counting`); that every byte pushed is gone, queued or
being sent (`Conserved`); and what a call that returned has promised
(`Promised`). `IdleMeansAllSent` needs `Conserved`, which every rising edge has to keep,
with a push, a launch, a clear and the end of a character at one edge (`RiseTx`), and
which at the return of a push meets `Pushing`: what entered is what is
reported. The other results are parts of the invariant or follow from it.

`VipCommonProofs`, on `ClockAgent`. `held` is the time since the last change of the net: at
each point of `clk_run` it and what is left of the delay add up to the half
period in progress. `WholeCycles` is an action property that follows from it
at the two edges.

`DataInduction`. Induction over the natural numbers, with a set of numbers in place
of a formula (`SetInduction`), follows from the well-foundedness of `<`, which the
library states without a parameter. `Iteration`, that a recursion has a
function that computes it step by step, is proved with it: each finite part exists
(`IterationUpTo`) and any two agree (`IterationUnique`). A recursive function of a
module is a choice among the functions that satisfy its equation, so from `Iteration`
it follows that the equation holds of it. The recursions of `Runner` and
`AwaitValues` are written as such functions of a number for this reason.

`VipCommonProofs`, on `Runner`. Nearly all of it is about `compute_execution_order`, a function of
registry, plan and constraints, for any of them. `Selected`: a round
that adds a name makes the set larger by one at least, there are at most
`Len(cases)` names, so after as many rounds the set is closed, and it has only
what the definition of `Depends` demands. `Kahn`: `Sorting` says that each case
was ready where it was placed and that none of a lower rank was; a round keeps it and
places one more case unless none is ready, so after the last round none is
(`KahnFacts`). Of the cases left then each has a prerequisite that is left, and follows
those into a cycle (`NeverReady`). The
leftovers come by rank, ranks are distinct, and each position below their number is
taken by one. `IInv` says that the order of a started run is the one computed and how many
hooks have been called, three for each case that is behind; it is inductive since
nothing changes the registry after the start.

`AwaitValuesProofs`. First arithmetic: the number of a text is computed bit by bit
(`Upto`); it is below the power of 2 of its length, depends on its bits alone, and
two chunks read as one number are the higher one times 2^`Width` plus the lower. Then
digits: `hex_to_bin` of a digit gives the four bits from which `bin_to_hex` made
it, or four times `x`; zeros that `bin_to_hex` drops are what the comparison
fills up. `HexAgrees` is a lemma about texts of any length. `IInv`: `NumOfSamples`
alone says nothing of what is kept. `Stacked` says that an `AwaitRead` holds the chunks
of all samples that were not taken, one or two of each, the latest on top. A `getNum`
takes the last two chunks: both of the latest sample, or, of a net of one chunk,
those of two samples, whose texts put together have that number (`JoinFacts`).
`CInv` that an `AwaitChange` whose number was not
taken holds the chunks of the change and no others. `WInv` says that the operations queued are
for nets that were asked for, which with the clearing in `WriteResume` gives
`WritesOnce`.

## 14. Only model-checked, not modelled

Only model-checked:

- liveness (`TimersFire`, `ChangesWake`, `WaitsEnd`, `AllArrive`, `Launches`,
  `CallsReturn`, `CasesEnd`, `DoesAsAsked`), which needs fairness and ENABLED;
- the violations that `uart_tx_race` and `await_values_reread` show;
- the test bench (`NoFailures`, `CleanHandover`, `LinesStable`): its invariant would
  have to say, for each of some hundred calls of the eight programs, what is on the lines, in the
  FIFOs and expected by the scoreboards by then, and the programs are data of
  the model, each of one fixed length, so that a proof for all constants adds
  little to the run.

Not modelled:

- times and delays as numbers (`duration_to_ticks`, `delay_to_ticks_`,
  `ceil_delay_ticks_`): they are computed in `long double` or 64 bits;
- in the receive agent the samples within a frame, which repeat those of the
  receiver, and in both agents polarity, bit order and `auto_expect`;
- in `AwaitWrite` a text longer than its net and characters that are not
  digits, which throw;
- counters of passes and warnings, logging and printing;
- the registration of factories in `entry.cpp` and `testmanager`, which is
  start-up code; CMake files; documents.

## 15. Disagreements noticed

Where the code and what the repository says of it differ, the modules follow the
code. The first and the one of `README.md:169` have a run that shows them; the others
were met while modelling and no property depends on them.

| Said | Done |
| --- | --- |
| `vip_design_guide.md:2071`: agents offer a way to clear queues | `reset_case` during the wait for RTS makes the sender take from an empty queue (`tx_coroutines.cpp:60`; `uart_tx_race`) |
| the same | a frame on the line at `reset_case` leaves its ticket and history record to the next case (`tx_coroutines.cpp:63`, `:188`) |
| `awaitwrite.cpp:166`: `write_callback` has already freed the data | it frees them after the resume (`scheduler.cpp:61`, `:67`) |
| `awaitchange.cpp:185`: the callback is already removed | an untargeted one is removed after the resume (`scheduler.cpp:155-167`) |
| `README.md:831`: waits for the target value | compares `aval` only, so a wait for 1 ends on `x` (`scheduler.cpp:213`) |
| `README.md:169`: the value read can be had as a number | a number taken after two reads of a net of one word joins both samples (`awaitread.cpp:129`; `await_values_reread`) |
| `README.md:800`: adds a write operation | a second one to the same net before the await is dropped (`awaitwrite.cpp:175`) |
| `design_guide.md:638`: a break lasts a character | data of zero and one low stop bit are enough, whatever the parity bit (`uart_rx.sv:308-310`) |
| `design_guide.md:220`: `cfg_enable` does not corrupt a character | it stops the ticks in the middle of one (`uart_baud_gen.sv:82`) |
| `uart_core_intf/intf.cpp:69` counts overruns | the event is combinational and may be seen at an edge where a pop makes room after all (`uart_core.sv:97`) |
| `vip_design_guide.md:1587`: end-of-case checks catch outstanding expectations | `tc_reset` drops one itself (`tc_reset.cpp:563`) |
| `runner.hpp:87`: a case runs after what it is added after | not the ones behind a cycle (`runner.cpp:340-361`) |
| `vip_common/README.md:132`: tags select cases | with no hit all cases run (`runner.cpp:95`, `:182-189`) |
| `clock.cpp:57`: parks the clock low | a start in the tick of the stop gives a low of no length (`clock.cpp:105`) |

## 16. Running it

`tlc -config VpiScheduler.cfg VpiScheduler`, and so on for each pair that
PROJECT.json lists under "runs"; `tlapm X.tla` for `X` among
`VpiSchedulerProofs`, `AgentProofs`, `UartLoopbackProofs`, `UartRxLineProofs`,
`UartCoreLoopProofs`, `VipCommonProofs`, `DataInduction` and `AwaitValuesProofs`. Operators
named `Mut...` are seeded faults: replacing the definition that follows one by
it makes the property named with it in PROJECT.json fail.
