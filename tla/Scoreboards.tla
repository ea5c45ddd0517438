----------------------------- MODULE Scoreboards -----------------------------
(***************************************************************************)
(* The scoreboards of the UART test bench: vip_common/scoreboard, vip_uart *)
(* /scoreboard/uart_scb and src/scoreboard/scb_uart_core.cpp, as functions *)
(* on one record scb.  Counters of passes, infos and warnings are left     *)
(* out.  A frame is [data, errors, clks].                                  *)
(***************************************************************************)
EXTENDS TcUtils

\* fails: what was noted as a failure in this case.  expected: frames of the
\* stream scoreboard; expected_rx, expected_tx: of the core scoreboard.  The
\* flags are those that a case may change.
ScbInit ==
  [fails |-> {}, data_bits |-> 8, expected |-> << >>, expected_rx |-> << >>, expected_tx |-> << >>,
   strict |-> TRUE, fail_on_unexpected |-> TRUE, rules |-> TRUE]

note_fail(scb, why) == [scb EXCEPT !.fails = @ \cup {why}]
FailUnless(scb, ok, why) == IF ok THEN scb ELSE note_fail(scb, why)

\* set_params does not touch what is already expected.
StreamParams(scb, params) == [scb EXCEPT !.data_bits = params.data_bits]

StreamExpect(scb, frame) ==
  [scb EXCEPT !.expected = Append(@, [frame EXCEPT !.data = data_mask(@, scb.data_bits)])]

Unexpected(scb) == FailUnless(scb, ~scb.fail_on_unexpected, "unexpected frame")

Compared(scb, exp, frame) ==
  FailUnless([scb EXCEPT !.expected = Tail(@)],
             /\ data_mask(exp.data, scb.data_bits) = data_mask(frame.data, scb.data_bits)
             /\ scb.strict => exp.errors = frame.errors,
             "stream mismatch")

StreamObserve(scb, frame) ==
  IF scb.expected = << >> THEN Unexpected(scb) ELSE Compared(scb, Head(scb.expected), frame)

\* Frames with errors break a rule; warn_only is off in test.cpp.
RulesObserve(scb, frame) == FailUnless(scb, scb.rules => frame.errors = NoErrors, "rule")

CoreExpectRx(scb, rec)  == [scb EXCEPT !.expected_rx = Append(@, rec)]
CoreExpectTx(scb, data) == [scb EXCEPT !.expected_tx = Append(@, data)]

CoreObserveRx(scb, rec) ==
  IF scb.expected_rx = << >> THEN note_fail(scb, "unexpected record")
  ELSE FailUnless([scb EXCEPT !.expected_rx = Tail(@)], Head(scb.expected_rx) = rec,
                  "record mismatch")

CoreObserveTx(scb, frame) ==
  IF scb.expected_tx = << >> THEN note_fail(scb, "unexpected byte")
  ELSE FailUnless([scb EXCEPT !.expected_tx = Tail(@)],
                  Head(scb.expected_tx) = frame.data /\ frame.errors = NoErrors,
                  "byte mismatch")

-----------------------------------------------------------------------------
(* Before and after a case.                                                 *)

StreamResetCase(scb) == [scb EXCEPT !.expected = << >>]
CoreResetCase(scb)   == [scb EXCEPT !.expected_rx = << >>, !.expected_tx = << >>]

\* The flags stay as the case before left them.
ResetCase(scb) == [CoreResetCase(StreamResetCase(scb)) EXCEPT !.fails = {}]

EndCaseCheck(scb) ==
  LET core   == FailUnless(FailUnless(scb, scb.expected_rx = << >>, "outstanding records"),
                           scb.expected_tx = << >>, "outstanding bytes")
  IN FailUnless(core, core.expected = << >>, "outstanding frames")
=============================================================================
