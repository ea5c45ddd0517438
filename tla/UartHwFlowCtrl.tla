--------------------------- MODULE UartHwFlowCtrl ---------------------------
(***************************************************************************)
(* rtl_uart_core/src/uart_hw_flow_ctrl.sv.  The pins are given as what     *)
(* they mean, active or not, whatever their polarity.                      *)
(***************************************************************************)
EXTENDS Naturals, Sequences

CONSTANTS RTS_DEASSERT_LEVEL, RTS_ASSERT_LEVEL

VARIABLES
  cts_sync,   \* cts_sync_q, the newest level first
  rts_active  \* rts_active_q

CtsReset == << TRUE, TRUE, TRUE >>
RtsReset == TRUE

CtsEdge(cts_i) == cts_sync' = << cts_i, cts_sync[1], cts_sync[2] >>
cts_active_raw == cts_sync[3]

\* Seeded fault: RTS waits until the FIFO is full.
MutRtsEdge(cfg, level) ==
  rts_active' = CASE ~cfg.enable \/ ~cfg.rx_enable -> FALSE
                  [] cfg.enable /\ cfg.rx_enable   ->
                       IF ~cfg.hw_flow THEN TRUE
                       ELSE IF rts_active THEN level < RTS_DEASSERT_LEVEL + 2
                       ELSE level <= RTS_ASSERT_LEVEL

\* Seeded fault: the level at which RTS is given back is missed by one.
MutRtsAssert(cfg, level) ==
  rts_active' = CASE ~cfg.enable \/ ~cfg.rx_enable -> FALSE
                  [] cfg.enable /\ cfg.rx_enable   ->
                       IF ~cfg.hw_flow THEN TRUE
                       ELSE IF rts_active THEN level < RTS_DEASSERT_LEVEL
                       ELSE level < RTS_ASSERT_LEVEL

RtsEdge(cfg, level) ==
  rts_active' = CASE ~cfg.enable \/ ~cfg.rx_enable -> FALSE
                  [] cfg.enable /\ cfg.rx_enable   ->
                       IF ~cfg.hw_flow THEN TRUE
                       ELSE IF rts_active THEN level < RTS_DEASSERT_LEVEL
                       ELSE level <= RTS_ASSERT_LEVEL

cts_active(cfg)       == ~cfg.hw_flow \/ cts_active_raw
tx_start_allowed(cfg) == ~cfg.hw_flow \/ cts_active_raw
cts_blocked(cfg, tx_launch_wanted) == cfg.hw_flow /\ tx_launch_wanted /\ ~cts_active_raw

\* uart_rts_o, and rts_active of the core.
rts_o(cfg) == IF cfg.hw_flow THEN rts_active ELSE cfg.enable /\ cfg.rx_enable
=============================================================================
