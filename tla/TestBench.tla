----------------------------- MODULE TestBench -----------------------------
(***************************************************************************)
(* The UART test bench at the level of characters: the core (uart_core.sv, *)
(* whose components are modelled clock by clock elsewhere), the agents     *)
(* uart_peer_tx and uart_peer_rx on its serial pins, the counts of its     *)
(* events, the scoreboards, and the cases of a plan, run one after the     *)
(* other with the hooks of test.cpp.                                       *)
(*                                                                         *)
(* A step is one call of the case, or one thing that a character goes      *)
(* through: launched, captured, ended; begun, received, sent.  How these   *)
(* interleave is free but for what the lengths in clocks decide:           *)
(*   - a call that takes a few clocks is over before a character ends that *)
(*     began after the latest long wait (`fresh');                         *)
(*   - a wait of n clocks is over, or times out, only after n \div L ends  *)
(*     of characters of L clocks on a line that is still busy;             *)
(*   - what takes at most a bit time (a launch, the start of a frame, the  *)
(*     CTS synchroniser) is done before a wait of a bit time is over.      *)
(***************************************************************************)
EXTENDS Scoreboards, FiniteSets

CONSTANTS
  Programs,     \* the cases: a function from names to programs
  Plans,        \* sequences of names, one of which is run
  FlowPlans,    \* the same for a core that is built with RTS and CTS
  None

ASSUME BenchAssumption == Plans \cup FlowPlans \subseteq Seq(DOMAIN Programs)

VARIABLES
  dut,   \* the core: its build option HAS_RTS_CTS, rst_n, cfg, cts (the pin), cts_sync,
         \* rts, txq, tx, rxq, rx
  peer,  \* uart_peer_tx: params, pending, next_bad_stop, next_bad_parity, next_ticket,
         \* undone (tickets that ticket_done_ holds as false), sending, line (its tx_net)
  mon,   \* uart_peer_rx: params, capture_enable, history, observed, cap
  ev,    \* event_counts_
  scb,   \* the scoreboards
  tc     \* the runner and the case that runs: plan (what is left of it), program, at,
         \* before, next_index, accepted, ticket, popped, kept; and seen, fresh

vars == << dut, peer, mon, ev, scb, tc >>

RTS_DEASSERT_LEVEL == RX_FIFO_DEPTH - 2
RTS_ASSERT_LEVEL   == RX_FIFO_DEPTH \div 2

NoEvents == [rx_overrun |-> 0, rx_frame_error |-> 0, rx_parity_error |-> 0,
             rx_break_detect |-> 0, tx_done |-> 0]
NoneSeen == [tx |-> 0, rx |-> 0]

Running == tc.at > 0
Here    == tc.program[tc.at]
At(op)  == Running /\ tc.at <= Len(tc.program) /\ Here.op = op

DutReset == [txq |-> << >>, tx |-> None, rxq |-> << >>, rx |-> None, cts_sync |-> TRUE, rts |-> TRUE]

Init ==
  /\ \E flow \in BOOLEAN, p \in Plans \cup FlowPlans :
       /\ p \in IF flow THEN FlowPlans ELSE Plans
       /\ dut = DutReset @@ [HAS_RTS_CTS |-> flow, rst_n |-> TRUE, cfg |-> IdleConfig, cts |-> TRUE]
       /\ tc = [plan |-> p, program |-> << >>, at |-> 0, before |-> NoEvents, next_index |-> 0,
                accepted |-> FALSE, ticket |-> 0, popped |-> None, kept |-> << 0, 0 >>,
                seen |-> NoneSeen, fresh |-> {}]
  /\ peer = [params |-> make_uart_params, pending |-> << >>, next_bad_stop |-> FALSE,
             next_bad_parity |-> FALSE, next_ticket |-> 1, undone |-> {}, sending |-> None]
  /\ mon = [params |-> make_uart_params, capture_enable |-> TRUE, history |-> << >>,
            observed |-> 0, cap |-> None]
  /\ ev = NoEvents
  /\ scb = ScbInit

-----------------------------------------------------------------------------
(* The core.                                                                *)

Params(cfg) == tc_uart_params_for(cfg.baud, data_bits_from_cfg(cfg.data_bits),
                                  stop_bits_from_cfg(cfg.stop_bits), parity_from_cfg(cfg.parity_mode))
Agrees(params) == dut.cfg.baud # 0 /\ Params(dut.cfg) = params

Able == dut.rst_n /\ dut.cfg.enable /\ dut.cfg.baud # 0

cts_active       == ~dut.HAS_RTS_CTS \/ ~dut.cfg.hw_flow \/ dut.cts_sync
tx_launch_wanted == Able /\ dut.cfg.tx_enable /\ dut.txq # << >> /\ dut.tx = None
cts_blocked      == dut.HAS_RTS_CTS /\ dut.cfg.hw_flow /\ tx_launch_wanted /\ ~dut.cts_sync
LaunchNow        == tx_launch_wanted /\ cts_active

\* Seeded fault: RTS follows the level without hysteresis.
MutRtsNow(d) ==
  IF ~d.cfg.enable \/ ~d.cfg.rx_enable THEN FALSE
  ELSE IF ~d.cfg.hw_flow THEN TRUE
  ELSE Len(d.rxq) < RTS_DEASSERT_LEVEL

\* rts_active_q a clock later.
RtsNow(d) ==
  IF ~d.cfg.enable \/ ~d.cfg.rx_enable THEN FALSE
  ELSE IF ~d.cfg.hw_flow THEN TRUE
  ELSE IF d.rts THEN Len(d.rxq) < RTS_DEASSERT_LEVEL ELSE Len(d.rxq) <= RTS_ASSERT_LEVEL

Settled(d) == [d EXCEPT !.rts = IF d.rst_n THEN RtsNow(d) ELSE TRUE]

rts_active == dut.HAS_RTS_CTS /\ (IF dut.cfg.hw_flow THEN dut.rts ELSE dut.cfg.enable /\ dut.cfg.rx_enable)

Status ==
  [tx_byte_ready |-> Len(dut.txq) < TX_FIFO_DEPTH, rx_byte_valid |-> dut.rxq # << >>,
   rx_level |-> Len(dut.rxq), tx_level |-> Len(dut.txq),
   rx_empty |-> dut.rxq = << >>, rx_full |-> Len(dut.rxq) = RX_FIFO_DEPTH,
   tx_empty |-> dut.txq = << >>, tx_full |-> Len(dut.txq) = TX_FIFO_DEPTH,
   rx_busy |-> dut.rx # None, tx_busy |-> dut.tx # None,
   cts_active |-> cts_active, rts_active |-> rts_active, cts_blocked |-> cts_blocked,
   rst_n |-> dut.rst_n, uart_tx_o |-> dut.tx = None, uart_rx_i |-> peer.sending = None,
   uart_cts_i |-> ~dut.cts, uart_rts_o |-> ~rts_active]

-----------------------------------------------------------------------------
(* Time.                                                                    *)

Busy == (IF dut.tx # None \/ mon.cap # None THEN {"tx"} ELSE {})
        \cup (IF dut.rx # None \/ peer.sending # None THEN {"rx"} ELSE {})

BeginNow == dut.rst_n /\ peer.sending = None /\ peer.pending # << >>

\* So many clocks may be over now, counted from the start of the call.
Passed(clks) ==
  /\ clks >= 4 => ~BeginNow /\ (dut.rst_n => dut.cts_sync = dut.cts)
  /\ clks >= peer.params.bit_clks => ~LaunchNow
  /\ \A line \in Busy : tc.seen[line] >= clks \div frame_clks(peer.params)

Abs(n)      == IF n < 0 THEN -n ELSE n
MaxOf(m, n) == IF m < n THEN n ELSE m

\* Whether a condition of the case holds now.
Holds(cond) ==
  CASE cond.on = "status"   -> \A f \in DOMAIN cond.want : Status[f] = cond.want[f]
    [] cond.on = "frames"   -> mon.observed >= cond.want
    [] cond.on = "no_more_frames" -> mon.observed <= cond.want
    [] cond.on = "events"   -> \A e \in DOMAIN cond.want : ev[e] = tc.before[e] + cond.want[e]
    [] cond.on = "ticket"   -> tc.ticket \notin peer.undone
    [] cond.on = "accepted" -> tc.accepted = cond.want
    [] cond.on = "popped"   -> tc.popped \in {None, cond.want}
    [] cond.on = "double"   -> Abs(tc.kept[2] - 2 * tc.kept[1]) * 50 <= MaxOf(2 * tc.kept[1], 1000)
    [] cond.on = "longer"   -> 2 * tc.kept[2] > 2 * tc.kept[1] + BASIC_UART_BIT_CLKS

\* A wait for events gives up at once when there are too many.
Overshot(cond) ==
  cond.on = "events" /\ \E e \in DOMAIN cond.want : ev[e] > tc.before[e] + cond.want[e]

Room == dut.rst_n /\ Len(dut.txq) < TX_FIFO_DEPTH

\* How long the present call may take, in clocks; 0 for a few.
Span == CASE At("wait")   -> Here.timeout
          [] At("push")   -> IF Room THEN 0 ELSE Here.timeout
          [] At("pop")    -> IF dut.rxq # << >> THEN 0 ELSE Here.timeout
          [] At("hold")   -> Here.clks
          [] At("clocks") -> Here.arg
          [] OTHER        -> 0

\* The case is in a call that gives way to the other coroutines and the design.
Suspending == {"wait", "push", "pop", "hold", "clocks", "drive_idle", "apply_config",
               "drive_reset", "drive_cts_now", "clear_rx", "clear_tx"}
Suspended ==
  /\ Running /\ tc.at <= Len(tc.program) /\ Here.op \in Suspending
  /\ At("wait") => ~Holds(Here.arg) /\ ~Overshot(Here.arg)
  /\ At("hold") => Holds(Here.arg)

MayEnd(line) ==
  Suspended /\ (line \notin tc.fresh \/ Span = Forever \/ Span >= frame_clks(peer.params))

Ended(line) == tc' = [tc EXCEPT !.seen[line] = @ + 1, !.fresh = {}]
Began(line) == tc' = [tc EXCEPT !.fresh = @ \cup {line}]

-----------------------------------------------------------------------------
(* A character that the core sends.                                         *)

\* How long a captured frame is, from the middle of its start bit to that of
\* its last stop bit.
CaptureClks(params) == (bits_per_frame(params) - 1) * params.bit_clks

\* What the monitor makes of a character: its data, if it looks at the line
\* with the parameters of the core.
Captured(data) ==
  [data |-> IF Agrees(mon.params) THEN data_mask(data, mon.params.data_bits) ELSE Garbled,
   errors |-> NoErrors, clks |-> CaptureClks(mon.params)]

\* uart_tx takes the head of the FIFO at a baud tick, and the monitor sees the
\* start bit, unless it is still at an earlier frame.
Launch ==
  /\ Suspended /\ LaunchNow
  /\ dut' = Settled([dut EXCEPT !.tx = Head(dut.txq), !.txq = Tail(@)])
  /\ mon' = [mon EXCEPT !.cap = IF @ = None THEN Captured(Head(dut.txq)) ELSE [@ EXCEPT !.data = Garbled]]
  /\ Began("tx")
  /\ UNCHANGED << peer, ev, scb >>

\* The agent at the middle of the last stop bit.
Capture ==
  /\ mon.cap # None /\ MayEnd("tx")
  /\ mon' = [mon EXCEPT !.cap = None, !.observed = @ + 1,
                        !.history = IF mon.capture_enable THEN Append(@, mon.cap) ELSE @]
  /\ scb' = RulesObserve(StreamObserve(scb, mon.cap), mon.cap)
  /\ IF dut.tx = None THEN Ended("tx") ELSE tc' = [tc EXCEPT !.fresh = {}]
  /\ UNCHANGED << dut, peer, ev >>

TxEnds ==
  /\ dut.tx # None /\ mon.cap = None /\ Able /\ MayEnd("tx")
  /\ dut' = Settled([dut EXCEPT !.tx = None])
  /\ ev' = [ev EXCEPT !.tx_done = @ + 1]
  /\ Ended("tx")
  /\ UNCHANGED << peer, mon, scb >>

-----------------------------------------------------------------------------
(* A character that uart_peer_tx sends.                                     *)

\* What the receiver makes of it.
Received(item) ==
  [data |-> IF Agrees(peer.params) THEN item.data ELSE Garbled,
   errors |-> ErrorFlags(item.bad_stop, item.bad_parity /\ parity_enable(peer.params),
                         item.bad_stop /\ item.data = 0)]

Hears == Able /\ dut.cfg.rx_enable

\* The agent takes an item, unless in reset, and the receiver detects the
\* start bit if it is able to.
Begin ==
  /\ Suspended /\ BeginNow
  /\ peer' = [peer EXCEPT !.sending = Head(peer.pending), !.pending = Tail(@)]
  /\ dut' = [dut EXCEPT !.rx = IF Hears THEN Received(Head(peer.pending)) ELSE None]
  /\ Began("rx")
  /\ UNCHANGED << mon, ev, scb >>

Counted(errors, lost) ==
  [ev EXCEPT !.rx_overrun      = IF lost THEN @ + 1 ELSE @,
             !.rx_frame_error  = IF errors.frame_error THEN @ + 1 ELSE @,
             !.rx_parity_error = IF errors.parity_error THEN @ + 1 ELSE @,
             !.rx_break_detect = IF errors.break_detect THEN @ + 1 ELSE @]

\* The record at the middle of the last stop bit: into the FIFO, or lost.
Receive ==
  /\ dut.rx # None /\ Able /\ MayEnd("rx")
  /\ LET lost == Len(dut.rxq) = RX_FIFO_DEPTH
     IN /\ dut' = Settled([dut EXCEPT !.rx = None,
                                      !.rxq = IF lost THEN @ ELSE Append(@, dut.rx)])
        /\ ev' = Counted(dut.rx.errors, lost)
  /\ tc' = [tc EXCEPT !.fresh = {}]
  /\ UNCHANGED << peer, mon, scb >>

\* Seeded fault: the ticket is not marked as done after an error.
MutSent ==
  /\ peer.sending # None /\ (dut.rx = None \/ ~Able) /\ MayEnd("rx")
  /\ peer' = [peer EXCEPT !.sending = None,
                          !.undone = IF peer.sending.bad_stop THEN @ ELSE @ \ {peer.sending.ticket}]
  /\ Ended("rx")
  /\ UNCHANGED << dut, mon, ev, scb >>

\* The end of send_item_.
Sent ==
  /\ peer.sending # None /\ (dut.rx = None \/ ~Able) /\ MayEnd("rx")
  /\ peer' = [peer EXCEPT !.sending = None, !.undone = @ \ {peer.sending.ticket}]
  /\ Ended("rx")
  /\ UNCHANGED << dut, mon, ev, scb >>

\* The CTS pin through its synchroniser.
Sync ==
  /\ Suspended /\ dut.rst_n /\ dut.cts_sync # dut.cts
  /\ dut' = [dut EXCEPT !.cts_sync = dut.cts]
  /\ UNCHANGED << peer, mon, ev, scb, tc >>

Environment == Launch \/ Capture \/ TxEnds \/ Begin \/ Receive \/ Sent \/ Sync

-----------------------------------------------------------------------------
(* Calls of the case.                                                       *)

Return(t)     == tc' = [t EXCEPT !.at = @ + 1, !.seen = NoneSeen]
ReturnLate(t) == Return([t EXCEPT !.fresh = IF Span # Forever /\ Span < peer.params.bit_clks
                                            THEN @ ELSE {}])

\* A character in flight is lost when its line changes its speed or format.
Spoilt(char) == IF char = None THEN None ELSE [char EXCEPT !.data = Garbled]
SpoiltRecord == [data |-> Garbled, errors |-> NoErrors]

SetParams ==
  /\ At("set_params")
  /\ scb' = StreamParams(scb, Here.arg)
  /\ peer' = [peer EXCEPT !.params = Here.arg]
  /\ mon' = [mon EXCEPT !.params = Here.arg, !.cap = IF Here.arg = mon.params THEN @ ELSE Spoilt(@)]
  /\ dut' = [dut EXCEPT !.rx = IF Here.arg = peer.params THEN @ ELSE Spoilt(@)]
  /\ Return(tc) /\ UNCHANGED ev

Configure(cfg) ==
  LET stable == cfg.enable = dut.cfg.enable /\ cfg.baud = dut.cfg.baud
      late   == peer.sending # None /\ dut.rx = None /\ ~Hears
                /\ dut.rst_n /\ cfg.enable /\ cfg.rx_enable
  IN /\ dut' = Settled([dut EXCEPT !.cfg = cfg,
                                   !.rx = IF late THEN SpoiltRecord
                                          ELSE IF stable THEN @ ELSE Spoilt(@)])
     /\ mon' = [mon EXCEPT !.cap = IF stable THEN @ ELSE Spoilt(@)]

DriveConfig ==
  /\ \/ At("drive_idle") /\ Configure(IdleConfig)
     \/ At("apply_config") /\ Configure(Here.arg)
  /\ Return(tc) /\ UNCHANGED << peer, ev, scb >>

\* Seeded fault: the transmit FIFO keeps its bytes.
MutAssertReset ==
  /\ At("drive_reset") /\ Here.arg
  /\ dut' = [dut EXCEPT !.rst_n = FALSE, !.tx = None, !.rxq = << >>, !.rx = None,
                        !.cts_sync = TRUE, !.rts = TRUE]
  /\ ev' = NoEvents /\ mon' = [mon EXCEPT !.cap = Spoilt(@)]
  /\ Return(tc) /\ UNCHANGED << peer, scb >>

\* The line goes high at once, and the monitor takes the rest of its frame
\* from it: ones, and an error if its start or parity bit is among them.
AssertReset ==
  /\ At("drive_reset") /\ Here.arg
  /\ dut' = DutReset @@ [dut EXCEPT !.rst_n = FALSE]
  /\ ev' = NoEvents
  /\ IF mon.cap = None \/ dut.tx = None THEN UNCHANGED mon
     ELSE \E data \in {data_mask(255, mon.params.data_bits), Garbled}, start_lost \in BOOLEAN,
             parity_lost \in {FALSE, parity_enable(mon.params)} :
            mon' = [mon EXCEPT !.cap.data = data,
                               !.cap.errors = ErrorFlags(start_lost, parity_lost, FALSE)]
  /\ Return(tc) /\ UNCHANGED << peer, scb >>

ReleaseReset ==
  /\ At("drive_reset") /\ ~Here.arg
  /\ dut' = Settled([dut EXCEPT
               !.rst_n = TRUE,
               !.rx = IF peer.sending # None /\ dut.cfg.enable /\ dut.cfg.rx_enable
                      THEN SpoiltRecord ELSE @])
  /\ Return(tc) /\ UNCHANGED << peer, mon, ev, scb >>

DriveCts ==
  /\ At("drive_cts_now")
  /\ dut' = [dut EXCEPT !.cts = Here.arg]
  /\ Return(tc) /\ UNCHANGED << peer, mon, ev, scb >>

Clear ==
  /\ \/ At("clear_rx") /\ dut' = Settled([dut EXCEPT !.rxq = << >>])
     \/ At("clear_tx") /\ dut' = [dut EXCEPT !.txq = << >>]
  /\ Return(tc) /\ UNCHANGED << peer, mon, ev, scb >>

Push ==
  /\ At("push")
  /\ \/ /\ Room
        /\ dut' = [dut EXCEPT !.txq = Append(@, Here.arg)]
        /\ Return([tc EXCEPT !.accepted = TRUE]) /\ UNCHANGED scb
     \/ /\ ~Room /\ Passed(Here.timeout)
        /\ scb' = FailUnless(scb, ~Here.must, "push timed out")
        /\ ReturnLate([tc EXCEPT !.accepted = FALSE]) /\ UNCHANGED dut
  /\ UNCHANGED << peer, mon, ev >>

Pop ==
  /\ At("pop")
  /\ \/ /\ dut.rxq # << >>
        /\ dut' = Settled([dut EXCEPT !.rxq = Tail(@)])
        /\ scb' = CoreObserveRx(scb, Head(dut.rxq))
        /\ Return([tc EXCEPT !.popped = Head(dut.rxq)])
     \/ /\ dut.rxq = << >> /\ Passed(Here.timeout)
        /\ scb' = note_fail(scb, "pop timed out")
        /\ ReturnLate([tc EXCEPT !.popped = None]) /\ UNCHANGED dut
  /\ UNCHANGED << peer, mon, ev >>

Item(data, i, ticket) ==
  [data |-> data_mask(data, peer.params.data_bits), ticket |-> ticket,
   bad_stop |-> i = 1 /\ peer.next_bad_stop, bad_parity |-> i = 1 /\ peer.next_bad_parity]

Enqueue ==
  /\ At("enqueue")
  /\ LET bytes == Here.arg
         last  == peer.next_ticket + Len(bytes) - 1
     IN /\ peer' = [peer EXCEPT
              !.pending = @ \o [i \in DOMAIN bytes |-> Item(bytes[i], i, peer.next_ticket + i - 1)],
              !.next_bad_stop = FALSE, !.next_bad_parity = FALSE,
              !.next_ticket = last + 1, !.undone = @ \cup (peer.next_ticket .. last)]
        /\ Return([tc EXCEPT !.ticket = last])
  /\ UNCHANGED << dut, mon, ev, scb >>

Arm ==
  /\ At("arm")
  /\ peer' = IF Here.arg = "bad_stop" THEN [peer EXCEPT !.next_bad_stop = TRUE]
             ELSE [peer EXCEPT !.next_bad_parity = TRUE]
  /\ Return(tc) /\ UNCHANGED << dut, mon, ev, scb >>

\* Calls that only touch the scoreboards.
Expect ==
  /\ \/ At("expect_rx") /\ scb' = CoreExpectRx(scb, Here.arg)
     \/ At("expect_byte") /\ scb' = CoreExpectTx(scb, Here.arg)
     \/ At("expect_frame")
        /\ scb' = StreamExpect(scb, [data |-> Here.arg, errors |-> NoErrors, clks |-> 0])
     \/ At("reset_stream") /\ scb' = StreamResetCase(scb)
     \/ At("reset_core") /\ scb' = CoreResetCase(scb)
     \/ At("flags") /\ scb' = Here.arg @@ scb
  /\ Return(tc) /\ UNCHANGED << dut, peer, mon, ev >>

\* observe_tx_frames, a frame a step: history from next_index on, of `total' frames.
Observe ==
  /\ At("observe")
  /\ LET stop == IF Len(mon.history) < Here.arg THEN Len(mon.history) ELSE Here.arg
     IN IF tc.next_index < stop
        THEN /\ scb' = CoreObserveTx(scb, mon.history[tc.next_index + 1])
             /\ tc' = [tc EXCEPT !.next_index = @ + 1]
        ELSE /\ scb' = FailUnless(scb, Len(mon.history) = Here.arg, "missing or extra frames")
             /\ Return([tc EXCEPT !.next_index = stop])
  /\ UNCHANGED << dut, peer, mon, ev >>

\* tc_cfg takes the latest frame only, if there is one, and keeps its length.
ObserveLast ==
  /\ At("observe_last")
  /\ IF mon.history = << >> THEN Return(tc) /\ UNCHANGED scb
     ELSE /\ scb' = CoreObserveTx(scb, Last(mon.history))
          /\ Return([tc EXCEPT !.kept[Here.arg] = Last(mon.history).clks])
  /\ UNCHANGED << dut, peer, mon, ev >>

Note ==
  /\ \/ At("mark") /\ Return([tc EXCEPT !.before = ev]) /\ UNCHANGED mon
     \/ At("rewind") /\ Return([tc EXCEPT !.next_index = 0]) /\ UNCHANGED mon
     \/ /\ At("clear_history") /\ Return(tc)
        /\ mon' = [mon EXCEPT !.history = << >>, !.observed = 0]
     \/ /\ At("capture_enable") /\ Return(tc)
        /\ mon' = [mon EXCEPT !.capture_enable = Here.arg]
     \/ /\ At("if_accepted") /\ UNCHANGED mon
        /\ Return([tc EXCEPT !.at = IF tc.accepted THEN @ ELSE @ + Here.arg])
  /\ UNCHANGED << dut, peer, ev, scb >>

Check ==
  /\ At("check")
  /\ scb' = FailUnless(scb, Holds(Here.arg), Here.arg.on)
  /\ Return(tc) /\ UNCHANGED << dut, peer, mon, ev >>

Wait ==
  /\ At("wait")
  /\ \/ Holds(Here.arg) /\ Return(tc) /\ UNCHANGED scb
     \/ /\ ~Holds(Here.arg) /\ (Overshot(Here.arg) \/ (Here.timeout # Forever /\ Passed(Here.timeout)))
        /\ scb' = note_fail(scb, Here.arg.on) /\ ReturnLate(tc)
  /\ UNCHANGED << dut, peer, mon, ev >>

\* wait_done and wait_for_frames look again at the next clock, for ever.
Poll == At("wait") /\ Here.timeout = Forever /\ ~Holds(Here.arg) /\ UNCHANGED vars

Hold ==
  /\ At("hold")
  /\ \/ Holds(Here.arg) /\ Passed(Here.clks) /\ ReturnLate(tc) /\ UNCHANGED scb
     \/ ~Holds(Here.arg) /\ scb' = note_fail(scb, Here.arg.on) /\ Return(tc)
  /\ UNCHANGED << dut, peer, mon, ev >>

Clocks ==
  /\ At("clocks") /\ Passed(Here.arg)
  /\ ReturnLate(tc) /\ UNCHANGED << dut, peer, mon, ev, scb >>

-----------------------------------------------------------------------------
(* The runner's hooks, test.cpp.                                            *)

\* reset_case of the scoreboards, the agents and the interface.
StartCase ==
  /\ tc.plan # << >> /\ ~Running
  /\ scb' = ResetCase(scb)
  /\ peer' = [peer EXCEPT !.pending = << >>, !.next_bad_stop = FALSE, !.next_bad_parity = FALSE,
                          !.undone = {}]
  /\ mon' = [mon EXCEPT !.history = << >>, !.observed = 0]
  /\ dut' = [dut EXCEPT !.cts = TRUE]
  /\ ev' = NoEvents
  /\ tc' = [tc EXCEPT !.program = Programs[Head(tc.plan)], !.at = 1]

EndCase ==
  /\ Running /\ tc.at > Len(tc.program)
  /\ scb' = EndCaseCheck(scb)
  /\ tc' = [tc EXCEPT !.plan = Tail(@), !.program = << >>, !.at = 0, !.before = NoEvents,
                      !.next_index = 0, !.accepted = FALSE, !.ticket = 0, !.popped = None, !.kept = << 0, 0 >>]
  /\ UNCHANGED << dut, peer, mon, ev >>

\* The simulation ends.
AllDone == tc.plan = << >> /\ UNCHANGED vars

Case == \/ SetParams \/ DriveConfig \/ AssertReset \/ ReleaseReset \/ DriveCts \/ Clear
        \/ Push \/ Pop \/ Enqueue \/ Arm \/ Expect \/ Observe \/ ObserveLast \/ Note
        \/ Check \/ Wait \/ Poll \/ Hold \/ Clocks

Next == Environment \/ Case \/ StartCase \/ EndCase \/ AllDone

Spec     == Init /\ [][Next]_vars
FairSpec == Spec /\ WF_vars(Next)

-----------------------------------------------------------------------------
(* Properties.                                                              *)

Record == [data : {Garbled} \cup 0 .. 255,
           errors : [frame_error : BOOLEAN, parity_error : BOOLEAN, break_detect : BOOLEAN]]

\* Types, and FIFOs within their depth.
TypeOK ==
  /\ dut.txq \in Seq(0 .. 255) /\ Len(dut.txq) <= TX_FIFO_DEPTH
  /\ dut.rxq \in Seq(Record) /\ Len(dut.rxq) <= RX_FIFO_DEPTH
  /\ dut.tx \in 0 .. 255 \cup {None} /\ dut.rx \in Record \cup {None}
  /\ {dut.rst_n, dut.cts, dut.cts_sync, dut.rts} \subseteq BOOLEAN
  /\ peer.undone \subseteq 1 .. peer.next_ticket - 1
  /\ \A i \in DOMAIN peer.pending : peer.pending[i].ticket < peer.next_ticket
  /\ mon.observed \in Nat /\ Len(mon.history) <= mon.observed
  /\ \A e \in DOMAIN ev : ev[e] \in Nat
  /\ tc.at \in Nat /\ tc.next_index \in Nat
  /\ scb.fails \subseteq STRING

\* Types; on a core that works as uart_core.sv does, no case fails, whatever the order
\* of the events that its waits leave open and whichever cases ran before: no
\* time-out is too short and no scoreboard is left with the wrong frames.
NoFailures == TypeOK /\ scb.fails = {}

\* A case hands over a bench that is quiet, with the settings that reset_case
\* does not restore back at their defaults: no character is on a line or about
\* to be sent to haunt the next case.
CleanHandover ==
  ~Running => /\ Busy = {} /\ peer.pending = << >>
              /\ mon.capture_enable /\ scb.strict /\ scb.fail_on_unexpected /\ scb.rules

Speed(cfg) == << cfg.enable, cfg.baud, cfg.parity_mode, cfg.stop_bits, cfg.data_bits >>

\* Nobody changes the speed or the format of a line while a character is on it,
\* of the core or of the agents at its other end, but by a reset.
LinesStable ==
  [][/\ dut'.rst_n /\ dut.rst_n /\ (dut.tx # None \/ dut.rx # None) => Speed(dut'.cfg) = Speed(dut.cfg)
     /\ mon.cap # None => mon'.params = mon.params
     /\ peer.sending # None => peer'.params = peer.params]_vars

\* Every case comes to its end: wait_done and wait_for_frames, which have no
\* time-out, are answered.
CasesEnd == <>(tc.plan = << >>)
=============================================================================
