----------------------------- MODULE MCTestCases -----------------------------
(***************************************************************************)
(* The cases that test.cpp registers, by name, and the plans of the run.   *)
(***************************************************************************)
EXTENDS TestBench
LOCAL INSTANCE TcUtils

Basic    == INSTANCE TcBasic
Cfg      == INSTANCE TcCfg
Fifo     == INSTANCE TcFifo
Error    == INSTANCE TcError
FlowCtrl == INSTANCE TcFlowCtrl
Reset    == INSTANCE TcReset
Phase    == INSTANCE TcPhase
Stress   == INSTANCE TcStressNoCts

RegisteredCases ==
  [tc_basic |-> Basic!tc_basic, tc_cfg |-> Cfg!tc_cfg, tc_fifo |-> Fifo!tc_fifo,
   tc_error |-> Error!tc_error, tc_flow_ctrl |-> FlowCtrl!tc_flow_ctrl, tc_reset |-> Reset!tc_reset,
   tc_phase |-> Phase!tc_phase, tc_stress_no_cts |-> Stress!tc_stress_no_cts]

PairsOf(cases) == [1 .. 1 -> cases] \cup [1 .. 2 -> cases]

\* tc_flow_ctrl needs a core with RTS and CTS, and tc_cfg one without.
MCPlans     == PairsOf(DOMAIN RegisteredCases \ {"tc_flow_ctrl"})
MCFlowPlans == {p \in PairsOf(DOMAIN RegisteredCases \ {"tc_cfg"}) : "tc_flow_ctrl" \in Range(p)}
=============================================================================
