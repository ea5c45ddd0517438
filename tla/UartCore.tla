------------------------------ MODULE UartCore ------------------------------
(***************************************************************************)
(* rtl_uart_core/src/uart_core.sv: the core, from its components.  The     *)
(* FIFOs are the queues that ByteFifo is shown to implement.  One step is  *)
(* one rising clock edge; its inputs are those of the cycle before it.     *)
(***************************************************************************)
EXTENDS UartPkg

CONSTANTS
  OVERSAMPLE, AccSize,
  Bytes,                \* what the upper layer sends
  TX_FIFO_DEPTH, RX_FIFO_DEPTH,
  HAS_RTS_CTS, RTS_DEASSERT_LEVEL, RTS_ASSERT_LEVEL,
  Unknown

ASSUME CoreAssumption ==
  /\ AccSize \in Nat \ {0} /\ OVERSAMPLE \in Nat \ {0}
  /\ Bytes \subseteq Byte /\ HAS_RTS_CTS \in BOOLEAN
  /\ TX_FIFO_DEPTH \in Nat \ {0} /\ RX_FIFO_DEPTH \in Nat \ {0}
  /\ RTS_DEASSERT_LEVEL \in Nat /\ RTS_ASSERT_LEVEL \in Nat

VARIABLES
  baud, tx, sync, rx, cts_sync, rts_active,
  txq, tx_io,  \* the transmit FIFO and what it showed at the latest edge
  rxq, rx_io   \* the receive FIFO, likewise

core == << baud, tx, sync, rx, cts_sync, rts_active, txq, tx_io, rxq, rx_io >>

Records == [data : Byte, errors : [frame_error : BOOLEAN, parity_error : BOOLEAN,
                                   break_detect : BOOLEAN]]

Baud   == INSTANCE UartBaudGen
Tx     == INSTANCE UartTx
Rx     == INSTANCE UartRx
Flow   == INSTANCE UartHwFlowCtrl
TxFifo == INSTANCE BoundedQueue WITH Items <- Bytes, Depth <- TX_FIFO_DEPTH, q <- txq, io <- tx_io
RxFifo == INSTANCE BoundedQueue WITH Items <- Records, Depth <- RX_FIFO_DEPTH, q <- rxq, io <- rx_io

CoreReset ==
  /\ baud = Baud!BaudReset /\ tx = Tx!TxReset
  /\ sync = Rx!SyncReset /\ rx = Rx!RxReset
  /\ cts_sync = Flow!CtsReset /\ rts_active = Flow!RtsReset
  /\ TxFifo!QueueInit /\ RxFifo!QueueInit

-----------------------------------------------------------------------------
(* The glue between the components.                                         *)

start_allowed(cfg)    == ~HAS_RTS_CTS \/ Flow!tx_start_allowed(cfg)
tx_launch_wanted(cfg) == cfg.enable /\ cfg.tx_enable /\ txq # << >> /\ Tx!tx_ready_for_start

\* Seeded fault: a byte is popped as soon as it is wanted.
MutTx_start(cfg) == tx_launch_wanted(cfg) /\ baud.baud_tick

tx_start(cfg) == tx_launch_wanted(cfg) /\ start_allowed(cfg) /\ baud.baud_tick

tx_byte_ready(cfg, in) == TxFifo!PushReady(tx_start(cfg)) /\ ~in.clear_tx

rx_push_valid(in)    == rx.char_valid /\ ~in.clear_rx

\* Seeded fault: a pop at the same edge does not count as room.
MutEvent_rx_overrun(in) == rx.char_valid /\ ~in.clear_rx /\ Len(rxq) = RX_FIFO_DEPTH

event_rx_overrun(in) == rx.char_valid /\ ~in.clear_rx /\ ~RxFifo!PushReady(in.rx_ready)

rts_pin(cfg) == HAS_RTS_CTS /\ Flow!rts_o(cfg)
tx_data      == IF txq = << >> THEN Unknown ELSE Head(txq)

\* in: line, cts, tx_valid, tx_data, rx_ready, clear_tx, clear_rx.
CoreEdge(cfg, inc, in) ==
  /\ Baud!BaudEdge(cfg.enable, inc)
  /\ Rx!SyncEdge(in.line)
  /\ Rx!RxEdge(cfg, baud.oversample_tick)
  /\ RxFifo!Edge(in.clear_rx, rx_push_valid(in), Rx!Record, in.rx_ready)
  /\ TxFifo!Edge(in.clear_tx, in.tx_valid /\ ~in.clear_tx, in.tx_data, tx_start(cfg))
  /\ Tx!TxEdge(cfg, baud.baud_tick, tx_start(cfg), tx_data)
  /\ Flow!CtsEdge(in.cts)
  /\ Flow!RtsEdge(cfg, Len(rxq))

CoreTypeOK ==
  /\ Baud!BaudTypeOK /\ Tx!TxTypeOK /\ Rx!RxTypeOK
  /\ cts_sync \in BOOLEAN \X BOOLEAN \X BOOLEAN /\ rts_active \in BOOLEAN
  /\ txq \in Seq(Bytes) /\ Len(txq) <= TX_FIFO_DEPTH
  /\ rxq \in Seq(Records) /\ Len(rxq) <= RX_FIFO_DEPTH
=============================================================================
