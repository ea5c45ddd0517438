------------------------- MODULE UartCoreLoopProofs --------------------------
(***************************************************************************)
(* Machine-checked proofs about UartCoreLoop, for every depth of the two   *)
(* FIFOs, every byte sent, every configuration and wiring, and whatever    *)
(* the upper layer does: the transmitter obeys CTS, RTS withdrawn in time  *)
(* loses nothing, and the core is a stream of bytes.  The line inside the  *)
(* core is that of UartLoopback, so what is proved of that is used here.   *)
(* At the end comes ByteFifo, the FIFO of the core: that it is the bounded *)
(* queue which UartCore takes it for.                                      *)
(***************************************************************************)
EXTENDS UartCoreLoop, ByteFifo, SequenceTheorems, TLAPS

\* The link of UartLoopback in the core, at one rate.  Its histories since and io, and its bound on
\* the characters on the line, are not in what is used of it.
Link == INSTANCE UartLoopbackProofs
          WITH inc <- Inc, Incs <- {Inc}, Cfgs <- {s.cfg : s \in Setups}, MaxFlight <- 0,
               since <- 0, io <- 0

\* The assumptions of UartLoopback hold here.
LEMMA Assumptions == Link!LoopInputs
BY CoreAssumption, LoopAssumption DEF Link!LoopInputs, Link!Byte, Link!Bit, Link!Config, Link!Codes,
   Byte, Bit, Config, Codes

\* The three instances of the package, and of the components below, are the same.
LEMMA SameFormats ==
  ASSUME NEW d, NEW n, NEW m, NEW b
  PROVE  /\ Tx!decode_data_bits(n) = Link!decode_data_bits(n)
         /\ Tx!decode_stop_bits(n) = Link!decode_stop_bits(n)
         /\ Tx!parity_is_enabled(m) = Link!parity_is_enabled(m)
         /\ Tx!calc_parity_bit(d, n, m) = Link!calc_parity_bit(d, n, m)
         /\ Rx!decode_data_bits(n) = Link!decode_data_bits(n)
         /\ Rx!decode_stop_bits(n) = Link!decode_stop_bits(n)
         /\ Rx!parity_is_enabled(m) = Link!parity_is_enabled(m)
         /\ Rx!calc_parity_error(d, m, b) = Link!calc_parity_error(d, m, b)
         /\ decode_data_bits(n) = Link!decode_data_bits(n)
<1>1. \A S : Tx!Cardinality(S) = Link!Cardinality(S) /\ Rx!Cardinality(S) = Link!Cardinality(S)
  BY Zenon DEF Tx!Cardinality, Rx!Cardinality, Link!Cardinality
<1>2. \A x, k : Tx!OddOnes(x, k) = Link!OddOnes(x, k) /\ Rx!OddOnes(x, k) = Link!OddOnes(x, k)
  BY <1>1 DEF Tx!OddOnes, Rx!OddOnes, Link!OddOnes
<1>3. Tx!calc_parity_bit(d, n, m) = Link!calc_parity_bit(d, n, m)
  BY <1>2, Zenon DEF Tx!calc_parity_bit, Link!calc_parity_bit, Tx!PARITY_EVEN, Tx!PARITY_ODD,
       Link!PARITY_EVEN, Link!PARITY_ODD
<1>4. Rx!calc_parity_error(d, m, b) = Link!calc_parity_error(d, m, b)
  BY <1>2, Zenon DEF Rx!calc_parity_error, Link!calc_parity_error, Rx!PARITY_EVEN, Rx!PARITY_ODD,
       Link!PARITY_EVEN, Link!PARITY_ODD
<1> QED
  BY <1>3, <1>4 DEF Tx!decode_data_bits, Link!decode_data_bits, Tx!decode_stop_bits, Link!decode_stop_bits,
     Tx!parity_is_enabled, Link!parity_is_enabled, Tx!PARITY_EVEN, Tx!PARITY_ODD,
     Link!PARITY_EVEN, Link!PARITY_ODD,
     Rx!decode_data_bits, Rx!decode_stop_bits, Rx!parity_is_enabled, Rx!PARITY_EVEN, Rx!PARITY_ODD,
     decode_data_bits

LEMMA SameBaudEdge ==
  ASSUME NEW e, NEW i
  PROVE  Baud!BaudEdge(e, i) <=> Link!Baud!BaudEdge(e, i)
BY DEF Baud!BaudEdge, Link!Baud!BaudEdge, Baud!Carry, Link!Baud!Carry, Baud!OS_LAST, Link!Baud!OS_LAST,
       Baud!BaudReset, Link!Baud!BaudReset

LEMMA SameReceiver ==
  ASSUME NEW t
  PROVE  /\ Rx!Sampling <=> Link!Sampling 
         /\ Rx!Last = Link!Last
         /\ Rx!Quiet = Link!Quiet /\ Rx!Fresh = Link!Fresh /\ Rx!NoErrors = Link!NoErrors
         /\ Rx!Zero = Link!Zero /\ Rx!rx_sync = Link!rx_sync
         /\ Rx!Due(t) <=> Link!Due(t) 
<1>1. Rx!Sampling <=> Link!Sampling BY DEF Rx!Sampling, Link!Sampling
<1>2. Rx!Last = Link!Last BY DEF Rx!Last, Link!Last, Rx!HALF_LAST, Rx!BIT_LAST, Link!HALF_LAST, Link!BIT_LAST
<1>3. Rx!NoErrors = Link!NoErrors BY DEF Rx!NoErrors, Link!NoErrors
<1>4. Rx!Quiet = Link!Quiet BY <1>3 DEF Rx!Quiet, Link!Quiet
<1>5. Rx!Fresh = Link!Fresh BY <1>3, <1>4 DEF Rx!Fresh, Link!Fresh
<1>6. Rx!Zero = Link!Zero /\ Rx!rx_sync = Link!rx_sync BY DEF Rx!Zero, Link!Zero, Rx!rx_sync, Link!rx_sync
<1>7. Rx!Due(t) <=> Link!Due(t) BY <1>2 DEF Rx!Due, Link!Due
<1> QED BY <1>1, <1>2, <1>3, <1>4, <1>5, <1>6, <1>7

LEMMA SameTxEdge ==
  ASSUME NEW c, NEW t, NEW s, NEW d
  PROVE  Tx!TxEdge(c, t, s, d) <=> Link!TxEdge(c, t, s, d)
<1>1. Tx!TxIdle(c, s) <=> Link!TxIdle(c, s)
  BY SameFormats DEF Tx!TxIdle, Link!TxIdle, Tx!Starts, Link!Starts
<1>2. Tx!TxLaunch(c, s, d) <=> Link!TxLaunch(c, s, d)
  BY SameFormats DEF Tx!TxLaunch, Link!TxLaunch, Tx!Starts, Link!Starts
<1>3. Tx!TxHold(t) <=> Link!TxHold(t)
  BY SameFormats DEF Tx!TxHold, Link!TxHold
<1>4. Tx!TxStart(t) <=> Link!TxStart(t)
  BY SameFormats DEF Tx!TxStart, Link!TxStart
<1>5. Tx!TxData(t) <=> Link!TxData(t)
  BY SameFormats DEF Tx!TxData, Link!TxData
<1>6. Tx!TxDataEnds(t) <=> Link!TxDataEnds(t)
  BY SameFormats DEF Tx!TxDataEnds, Link!TxDataEnds
<1>7. Tx!TxParity(t) <=> Link!TxParity(t)
  BY SameFormats DEF Tx!TxParity, Link!TxParity
<1>8. Tx!TxStop(t) <=> Link!TxStop(t)
  BY SameFormats DEF Tx!TxStop, Link!TxStop
<1> QED BY <1>1, <1>2, <1>3, <1>4, <1>5, <1>6, <1>7, <1>8 DEF Tx!TxEdge, Link!TxEdge

LEMMA SameRxEdge ==
  ASSUME NEW c, NEW t
  PROVE  Rx!RxEdge(c, t) <=> Link!RxEdge(c, t)
<1>1. Rx!RxIdle(c) <=> Link!RxIdle(c)
  BY SameFormats, SameReceiver DEF Rx!RxIdle, Link!RxIdle
<1>2. Rx!RxDetect(c) <=> Link!RxDetect(c)
  BY SameFormats, SameReceiver DEF Rx!RxDetect, Link!RxDetect
<1>3. Rx!RxWait(t) <=> Link!RxWait(t)
  BY SameFormats, SameReceiver DEF Rx!RxWait, Link!RxWait
<1>4. Rx!RxStart(t) <=> Link!RxStart(t)
  BY SameFormats, SameReceiver DEF Rx!RxStart, Link!RxStart
<1>5. Rx!RxData(t) <=> Link!RxData(t)
  BY SameFormats, SameReceiver DEF Rx!RxData, Link!RxData
<1>9. Rx!calc_parity_error(rx.data, rx.parity_mode, Rx!rx_sync)
         = Link!calc_parity_error(rx.data, rx.parity_mode, Link!rx_sync)
  BY SameFormats, SameReceiver
<1>6. Rx!RxParity(t) <=> Link!RxParity(t)
  BY <1>9, SameReceiver, Zenon DEF Rx!RxParity, Link!RxParity
<1>7. Rx!RxStop(t) <=> Link!RxStop(t)
  BY SameFormats, SameReceiver DEF Rx!RxStop, Link!RxStop
<1>8. Rx!RxDone <=> Link!RxDone
  BY SameFormats, SameReceiver DEF Rx!RxDone, Link!RxDone
<1> QED BY <1>1, <1>2, <1>3, <1>4, <1>5, <1>6, <1>7, <1>8 DEF Rx!RxEdge, Link!RxEdge

-----------------------------------------------------------------------------
(* The transmit side: types and what Link's transmitter needs.              *)

SendInv ==
  /\ setup \in Setups /\ turn \in DOMAIN Sends
  /\ txq \in Seq(Bytes) /\ Len(txq) <= TX_FIFO_DEPTH
  /\ Link!Baud!BaudTypeOK /\ Link!TxInv

-----------------------------------------------------------------------------
(* CTS stops the transmitter.                                               *)

\* The synchroniser shows CTS inactive.
Off == ~cts_sync[1] /\ ~cts_sync[2] /\ ~cts_sync[3]

\* The character launched at the edge at which CTS became inactive at the pin, or while that was on
\* its way through the synchroniser, is under way until the transmitter sees it.
StopInv ==
  /\ SendInv /\ late \in 0 .. 3
  /\ HAS_RTS_CTS /\ cfg.hw_flow /\ late # 0 =>
       /\ late = 1
       /\ \/ ~cts_sync[1] /\ tx.state = "START"
          \/ ~cts_sync[1] /\ ~cts_sync[2] /\ tx.state \in {"START", "DATA"}
          \/ Off

-----------------------------------------------------------------------------
(* The receive FIFO has room for what is under way.                         *)

\* The transmitter was still busy n ticks ago.
Within(n) == tx.state = "IDLE" => Link!Elapsed <= n

\* A full FIFO withdraws RTS, and CTS has it before the next launch can be.
RoomInv ==
  /\ Len(rxq) + Len(flight) <= RX_FIFO_DEPTH
  /\ Len(rxq) = RX_FIFO_DEPTH =>
       \/ Within(2)
       \/ ~rts_active /\ Within(3)
       \/ ~rts_active /\ ~cts_sync[1] /\ Within(4)
       \/ ~rts_active /\ ~cts_sync[1] /\ ~cts_sync[2] /\ Within(5)
       \/ ~rts_active /\ Off

FlowsBack == HAS_RTS_CTS /\ cfg.hw_flow /\ setup.looped

CoreInv ==
  /\ SendInv /\ cts \in BOOLEAN /\ rts_active \in BOOLEAN
  /\ cts_sync \in BOOLEAN \X BOOLEAN \X BOOLEAN /\ late \in 0 .. 3
  /\ flight \in Seq(Byte)
  /\ seen \in [accept : BOOLEAN, pop : BOOLEAN, clear : BOOLEAN, overrun : BOOLEAN, launch : BOOLEAN]
  /\ rxq \in Seq(Records) /\ Len(rxq) <= RX_FIFO_DEPTH
  /\ \A i \in DOMAIN rxq : rxq[i].errors = Rx!NoErrors
  /\ Link!BaudInv /\ Link!RxInv
  /\ IF cfg.rx_enable THEN Link!LinkInv
     ELSE rx.state = "IDLE" /\ ~rx.char_valid /\ rxq = << >>

FlowInv == FlowsBack => ~seen.overrun /\ (cfg.rx_enable => RoomInv)

\* What both FIFOs and the offered bytes are.
LEMMA TxFifoStep ==
  ASSUME txq \in Seq(Bytes), Len(txq) <= TX_FIFO_DEPTH, NEW clear, NEW valid, NEW data \in Bytes, NEW ready,
         TxFifo!Edge(clear, valid, data, ready)
  PROVE  txq' \in Seq(Bytes) /\ Len(txq') <= TX_FIFO_DEPTH
<1> DEFINE rest == TxFifo!Rest(ready)
<1>1. rest \in Seq(Bytes) /\ Len(rest) <= Len(txq) /\ (TxFifo!PushReady(ready) => Len(rest) < TX_FIFO_DEPTH)
  BY CoreAssumption DEF TxFifo!Rest, TxFifo!PushReady, TxFifo!PopFire
<1>2. /\ TX_FIFO_DEPTH \in Nat /\ Append(rest, data) \in Seq(Bytes) /\ Len(Append(rest, data)) = Len(rest) + 1
      /\ << >> \in Seq(Bytes) /\ Len(<< >>) = 0
  BY <1>1, CoreAssumption
<1>3. txq' = IF clear THEN << >> ELSE IF valid /\ TxFifo!PushReady(ready) THEN Append(rest, data) ELSE rest
  BY DEF TxFifo!Edge
<1> HIDE DEF rest
<1> QED BY <1>1, <1>2, <1>3

\* A set-up has a configuration that UartLoopback allows too.
LEMMA ConfigTypes ==
  ASSUME setup \in Setups
  PROVE  /\ cfg \in Link!Config /\ cfg \in Config /\ setup.looped \in BOOLEAN
         /\ cfg.enable \in BOOLEAN /\ cfg.rx_enable \in BOOLEAN /\ cfg.tx_enable \in BOOLEAN
         /\ cfg.hw_flow \in BOOLEAN /\ Inc \in Nat
BY LoopAssumption, CoreAssumption DEF cfg, Config, Codes, Link!Config, Link!Codes

\* A launch takes a byte that is there, at a baud tick, with both sides of the core on.
LEMMA LaunchFacts ==
  ASSUME SendInv
  PROVE  /\ tx_start(cfg) \in BOOLEAN /\ baud.baud_tick \in BOOLEAN /\ baud.oversample_tick \in BOOLEAN
         /\ tx_start(cfg) => /\ txq # << >> /\ tx_data = Head(txq) /\ tx_data \in Bytes /\ tx_data \in Link!Byte
                             /\ tx.state = "IDLE" /\ baud.baud_tick /\ cfg.enable /\ cfg.tx_enable
<1>1. baud.baud_tick \in BOOLEAN /\ baud.oversample_tick \in BOOLEAN
  BY DEF SendInv, Link!Baud!BaudTypeOK
<1>2. Bytes \subseteq Link!Byte /\ txq \in Seq(Bytes)
  BY CoreAssumption DEF SendInv, Byte, Bit, Link!Byte, Link!Bit
<1>3. tx_start(cfg) \in BOOLEAN
  BY DEF tx_start
<1> QED BY <1>1, <1>2, <1>3 DEF tx_start, tx_launch_wanted, tx_data, Tx!tx_ready_for_start

\* The transmit side keeps its types, whatever the receive side does.
LEMMA SendStep == ASSUME SendInv, [Next]_vars PROVE SendInv'
<1>1. CASE Clock
  <2>1. PICK in \in Inputs : CoreEdge(cfg, Inc, in)
    BY <1>1 DEF Clock
  <2>2. /\ Sends \in Seq(Bytes) /\ Len(Sends) \in Nat \ {0}
        /\ turn \in 1 .. Len(Sends) /\ DOMAIN Sends = 1 .. Len(Sends)
    BY LoopAssumption DEF SendInv
  <2>3. in.tx_data \in Bytes
    BY <2>2 DEF Inputs
  <2>4. txq' \in Seq(Bytes) /\ Len(txq') <= TX_FIFO_DEPTH
    BY <2>1, <2>3, TxFifoStep DEF SendInv, CoreEdge
  <2>5. /\ Baud!BaudEdge(cfg.enable, Inc) /\ Tx!TxEdge(cfg, baud.baud_tick, tx_start(cfg), tx_data)
        /\ UNCHANGED setup /\ turn' \in {turn, (turn % Len(Sends)) + 1}
    BY <1>1, <2>1 DEF CoreEdge, Clock
  <2>6. Link!Baud!BaudTypeOK'
    <3>1. Link!Baud!BaudEdge(cfg.enable, Inc)
      BY <2>5, SameBaudEdge
    <3>2. cfg.enable \in BOOLEAN /\ Inc \in Nat /\ Link!Baud!BaudTypeOK
      BY ConfigTypes DEF SendInv
    <3> QED BY <3>1, <3>2, Assumptions, Link!BaudStep
  <2>7. Link!TxInv'
    BY <2>5, SameTxEdge, Assumptions, ConfigTypes, LaunchFacts, Link!TxStep DEF SendInv
  <2>8. turn' \in 1 .. Len(Sends)
    BY <2>2, <2>5
  <2> QED BY <2>2, <2>4, <2>5, <2>6, <2>7, <2>8 DEF SendInv
<1>2. CASE UNCHANGED << setup, turn, txq, baud, tx >>
  BY <1>2 DEF SendInv, Link!Baud!BaudTypeOK, Link!TxInv, Link!TxTypeOK, Link!LevelNow
<1> QED BY <1>1, <1>2 DEF Next, CtsChanges, vars, core

\* It has them after reset.
LEMMA SendInit == ASSUME Init PROVE SendInv
<1>1. Link!Baud!BaudTypeOK
  BY Assumptions, CoreAssumption DEF Init, CoreReset, Link!Baud!BaudTypeOK, Baud!BaudReset
<1>2. tx = Link!TxReset
  BY DEF Init, CoreReset, Tx!TxReset, Link!TxReset, Tx!Zero, Link!Zero
<1>3. Link!TxInv
  BY <1>2, Assumptions, Link!TxInit
<1>4. turn \in DOMAIN Sends
  BY LoopAssumption DEF Init
<1>5. txq \in Seq(Bytes) /\ Len(txq) <= TX_FIFO_DEPTH
  BY CoreAssumption DEF Init, CoreReset, TxFifo!QueueInit
<1> QED BY <1>1, <1>3, <1>4, <1>5 DEF SendInv, Init

\* The transmitter is away from IDLE for two edges at least after a launch.
LEMMA TxStates ==
  ASSUME NEW c, NEW t, NEW s, NEW d, Tx!TxEdge(c, t, s, d), Link!TxInv
  PROVE  /\ tx.state = "START" => tx'.state \in {"START", "DATA"}
         /\ tx.state = "IDLE" /\ Tx!Starts(c, s) => tx'.state = "START"
<1>1. CASE tx.state = "START"
  <2>1. Tx!TxHold(t) \/ Tx!TxStart(t)
    BY <1>1 DEF Tx!TxEdge, Tx!TxIdle, Tx!TxLaunch, Tx!TxData, Tx!TxDataEnds, Tx!TxParity, Tx!TxStop
  <2> QED BY <1>1, <2>1 DEF Tx!TxHold, Tx!TxStart, Link!TxInv, Link!TxTypeOK
<1>2. CASE tx.state = "IDLE" /\ Tx!Starts(c, s)
  <2>1. Tx!TxLaunch(c, s, d)
    BY <1>2 DEF Tx!TxEdge, Tx!TxIdle, Tx!TxHold, Tx!TxStart, Tx!TxData, Tx!TxDataEnds, Tx!TxParity, Tx!TxStop
  <2> QED BY <1>2, <2>1 DEF Tx!TxLaunch
<1> QED BY <1>1, <1>2

\* One edge at which late counts: the three flip-flops of the synchroniser are passed while
\* the character launched last is still in its first bits.
LEMMA StopClock ==
  ASSUME StopInv, HAS_RTS_CTS, cfg.hw_flow, Clock, late' # 0
  PROVE  /\ late' = 1
         /\ \/ ~cts_sync'[1] /\ tx'.state = "START"
            \/ ~cts_sync'[1] /\ ~cts_sync'[2] /\ tx'.state \in {"START", "DATA"}
            \/ Off'
<1>1. PICK in \in Inputs : CoreEdge(cfg, Inc, in)
  BY DEF Clock
<1>2. /\ Tx!TxEdge(cfg, baud.baud_tick, tx_start(cfg), tx_data)
      /\ cts_sync' = << cts_pin, cts_sync[1], cts_sync[2] >>
      /\ late' = IF cts_pin THEN 0 ELSE IF tx_start(cfg) /\ late < 3 THEN late + 1 ELSE late
  BY <1>1 DEF CoreEdge, Flow!CtsEdge, Inputs, Clock
<1>8. Link!TxInv
  BY DEF StopInv, SendInv
<1>3. /\ ~cts_pin /\ cts_sync'[1] = cts_pin /\ cts_sync'[2] = cts_sync[1] /\ cts_sync'[3] = cts_sync[2]
      /\ late \in 0 .. 3
  BY <1>2 DEF StopInv
<1>4. ~cts_sync'[1]
  BY <1>3
<1>5. tx_start(cfg) => tx.state = "IDLE" /\ cts_sync[3] /\ Tx!Starts(cfg, tx_start(cfg))
  BY DEF tx_start, tx_launch_wanted, start_allowed, Tx!tx_ready_for_start, Tx!Starts, Flow!tx_start_allowed,
         Flow!cts_active_raw
<1>6. CASE late = 0
  <2>1. tx_start(cfg) /\ late' = 1
    BY <1>2, <1>6
  <2> QED BY <1>2, <1>4, <1>5, <1>8, <2>1, TxStates
<1>7. CASE late # 0
  <2>0. \/ ~cts_sync[1] /\ tx.state = "START"
        \/ ~cts_sync[1] /\ ~cts_sync[2] /\ tx.state \in {"START", "DATA"}
        \/ ~cts_sync[1] /\ ~cts_sync[2] /\ ~cts_sync[3]
    BY <1>7 DEF StopInv, Off
  <2>1. late = 1 /\ ~tx_start(cfg)
    BY <1>5, <1>7, <2>0 DEF StopInv
  <2>2. late' = 1
    BY <1>2, <1>3, <2>1
  <2>3. CASE ~cts_sync[1] /\ tx.state = "START"
    <3>1. ~cts_sync'[2] /\ tx'.state \in {"START", "DATA"}
      BY <1>2, <1>3, <1>8, <2>3, TxStates
    <3> QED BY <1>4, <2>2, <3>1
  <2>4. CASE ~cts_sync[1] /\ ~cts_sync[2]
    <3>1. Off'
      BY <1>3, <1>4, <2>4 DEF Off
    <3> QED BY <2>2, <3>1
  <2> QED BY <2>0, <2>3, <2>4
<1> QED BY <1>3, <1>6, <1>7

\* uart_core.sv:257-258 and uart_hw_flow_ctrl.sv:79-85, the synchroniser: after CTS has become inactive at
\* the pin the transmitter launches at most the one character that it had decided on, at any
\* oversampling and rate, however often CTS changes and whatever the FIFOs are doing.
THEOREM CtsStopsTheTransmitter == Spec => []StopsOnCts
<1>1. Init => StopInv
  BY SendInit DEF Init, StopInv
<1>2. StopInv /\ [Next]_vars => StopInv'
  <2> SUFFICES ASSUME StopInv, [Next]_vars PROVE StopInv'
    OBVIOUS
  <2>1. SendInv'
    BY SendStep DEF StopInv
  <2>2. CASE Clock
    <3>1. UNCHANGED setup /\ late' \in 0 .. 3
      BY <2>2 DEF Clock, StopInv
    <3> QED BY <2>1, <2>2, <3>1, StopClock DEF StopInv, cfg
  <2>3. CASE UNCHANGED << late, cts_sync, tx, setup >>
    BY <2>1, <2>3 DEF StopInv, cfg, Off
  <2> QED BY <2>2, <2>3 DEF Next, CtsChanges, vars, core
<1>3. StopInv => StopsOnCts
  BY DEF StopInv, StopsOnCts
<1> QED BY <1>1, <1>2, <1>3, PTL DEF Spec

-----------------------------------------------------------------------------
(* The core's edge is an edge of the link.                                  *)

\* The names of UartCoreLoop are those of the link.
LEMMA SameLink ==
  /\ Link!Received = Received /\ Rx!NoErrors = Link!NoErrors
  /\ Link!Byte = Byte
  /\ \A d, n : Link!Masked(d, n) = Masked(d, n)
  /\ \A i : Rx!SyncEdge(i) <=> Link!SyncEdge(i)
BY DEF Link!Received, Received, Rx!NoErrors, Link!NoErrors, Link!Byte, Byte, Link!Bit, Bit, Link!Masked, Masked,
       Rx!SyncEdge, Link!SyncEdge

\* What CoreEdge and Clock say, in the terms of the link.
LEMMA EdgeOfLink ==
  ASSUME CoreInv, Clock
  PROVE  /\ Link!Baud!BaudEdge(cfg.enable, Inc)
         /\ Link!TxEdge(cfg, baud.baud_tick, tx_start(cfg), tx_data)
         /\ Link!SyncEdge(tx.line) /\ Link!RxEdge(cfg, baud.oversample_tick)
         /\ flight' = IF tx_start(cfg) THEN Append(Received, Masked(tx_data, decode_data_bits(cfg.data_bits)))
                      ELSE Received
         /\ cfg' = cfg
<1>1. PICK in \in Inputs : CoreEdge(cfg, Inc, in)
  BY DEF Clock
<1>2. in.line = tx.line
  BY DEF Inputs
<1> QED BY <1>1, <1>2, SameBaudEdge, SameTxEdge, SameRxEdge, SameLink DEF CoreEdge, Clock, cfg

\* With the receiver on, an edge of the core is an edge of the link.
LEMMA CoreLink ==
  ASSUME CoreInv, Clock, cfg.rx_enable
  PROVE  Link!LinkEdge(tx_start(cfg), tx_data)
<1>1. SendInv
  BY DEF CoreInv
<1>2. Link!decode_data_bits(cfg.data_bits) = decode_data_bits(cfg.data_bits)
  BY SameFormats
<1> QED BY <1>1, <1>2, EdgeOfLink, SameLink, LaunchFacts DEF Link!LinkEdge

\* A launch is OVERSAMPLE - 1 ticks after the latest baud tick, and by then the receiver has
\* handed over the character before.
LEMMA LinkTiming ==
  ASSUME Link!LinkInv, OVERSAMPLE >= 8, cfg \in Link!Config, Inc \in Nat,
         NEW start \in BOOLEAN, NEW data, Link!LinkEdge(start, data)
  PROVE  /\ start => ~rx.char_valid /\ flight = << >> /\ \A n \in 0 .. 5 : ~Within(n)
         /\ rx.char_valid => Within(1) /\ flight = << rx.data >> /\ rx.errors = Link!NoErrors
         /\ \A n \in 0 .. 4 : Within(n) => Within(n + 1)'
<1>1. /\ Link!Elapsed \in 0 .. OVERSAMPLE - 1 /\ Link!Elapsed' \in 0 .. OVERSAMPLE - 1
      /\ baud.baud_tick \in BOOLEAN /\ baud.oversample_tick \in BOOLEAN
      /\ baud.baud_tick <=> baud.oversample_tick /\ Link!Elapsed = OVERSAMPLE - 1
      /\ baud.baud_tick \/ ~cfg.enable => Link!Elapsed' = 0
      /\ cfg.enable /\ baud.oversample_tick /\ ~baud.baud_tick => Link!Elapsed' = Link!Elapsed + 1
      /\ cfg.enable /\ ~baud.oversample_tick => Link!Elapsed' = Link!Elapsed
  BY Assumptions, Link!LinkTypes
<1>2. OVERSAMPLE \in Nat /\ cfg.enable \in BOOLEAN
  BY CoreAssumption DEF Link!Config
<1>3. start => tx.state = "IDLE" /\ baud.baud_tick
  BY DEF Link!LinkEdge
<1>4. start => ~rx.char_valid /\ flight = << >>
  BY <1>1, <1>2, <1>3 DEF Link!LinkInv, Link!Rests, Link!Begun, Link!Sampled, Link!Ended, Link!LastStop
<1>5. start => \A n \in 0 .. 5 : ~Within(n)
  BY <1>1, <1>2, <1>3 DEF Within
<1>6. rx.char_valid => Within(1)
  BY <1>1 DEF Within, Link!LinkInv, Link!Rests, Link!Begun, Link!Sampled, Link!Ended
<1>7. rx.char_valid => flight = << rx.data >> /\ rx.errors = Link!NoErrors
  BY Assumptions, Link!LinkKeeps
<1>8. ASSUME NEW n \in 0 .. 4, Within(n), tx'.state = "IDLE" PROVE Link!Elapsed' <= n + 1
  <2>1. CASE tx.state = "IDLE"
    BY <1>1, <1>2, <1>8, <2>1 DEF Within
  <2>2. CASE tx.state # "IDLE"
    <3>1. Link!TxInv /\ Link!TxEdge(cfg, baud.baud_tick, start, data)
      BY DEF Link!LinkInv, Link!LinkEdge
    <3>2. ~baud.baud_tick => tx'.state = tx.state
      BY <1>1, <2>2, <3>1, Assumptions, Link!TxMoves
    <3> QED BY <1>1, <1>8, <2>2, <3>2
  <2> QED BY <2>1, <2>2
<1>9. \A n \in 0 .. 4 : Within(n) => Within(n + 1)'
  BY <1>8 DEF Within
<1> QED BY <1>4, <1>5, <1>6, <1>7, <1>9

\* A receiver that is off stays at rest.
LEMMA RxOff ==
  ASSUME Link!RxTypeOK, NEW c, ~c.rx_enable, NEW t, Link!RxEdge(c, t), rx.state = "IDLE"
  PROVE  rx'.state = "IDLE" /\ ~rx'.char_valid
<1>1. Link!RxIdle(c)
  BY DEF Link!RxEdge, Link!RxIdle, Link!RxDetect, Link!RxWait, Link!RxStart, Link!RxData, Link!RxParity, Link!RxStop,
         Link!RxDone, Link!Sampling
<1> QED BY <1>1 DEF Link!RxIdle, Link!Fresh, Link!Quiet, Link!RxTypeOK

-----------------------------------------------------------------------------
(* Nothing is lost.                                                         *)

\* The receive FIFO at one edge.
LEMMA RxFifoStep ==
  ASSUME CoreInv, NEW in, rx.char_valid => rx.errors = Rx!NoErrors,
         RxFifo!Edge(in.clear_rx, rx_push_valid(in), Rx!Record, in.rx_ready)
  PROVE  /\ rxq' \in Seq(Records) /\ Len(rxq') <= RX_FIFO_DEPTH
         /\ \A i \in DOMAIN rxq' : rxq'[i].errors = Rx!NoErrors
         /\ Len(rxq') <= Len(rxq) + 1 /\ (~rx.char_valid => Len(rxq') <= Len(rxq))
         /\ event_rx_overrun(in) => rx.char_valid /\ Len(rxq) = RX_FIFO_DEPTH
<1> DEFINE rest == RxFifo!Rest(in.rx_ready)
           item == Rx!Record
<1>1. /\ rxq \in Seq(Records) /\ Len(rxq) <= RX_FIFO_DEPTH /\ RX_FIFO_DEPTH \in Nat \ {0}
      /\ \A i \in DOMAIN rxq : rxq[i].errors = Rx!NoErrors
  BY CoreAssumption DEF CoreInv
<1>2. item \in Records /\ item.errors = rx.errors
  <2>1. /\ rx.data \in Byte
        /\ rx.errors \in [frame_error : BOOLEAN, parity_error : BOOLEAN, break_detect : BOOLEAN]
    BY SameLink DEF CoreInv, Link!RxInv, Link!RxTypeOK, Link!Errors
  <2> QED BY <2>1 DEF Rx!Record, Records
<1>3. /\ rest \in Seq(Records) /\ Len(rest) <= Len(rxq)
      /\ (RxFifo!PushReady(in.rx_ready) => Len(rest) < RX_FIFO_DEPTH)
      /\ \A i \in DOMAIN rest : rest[i].errors = Rx!NoErrors
  BY <1>1 DEF RxFifo!Rest, RxFifo!PushReady, RxFifo!PopFire
<1>4. rxq' = IF in.clear_rx THEN << >>
             ELSE IF rx_push_valid(in) /\ RxFifo!PushReady(in.rx_ready) THEN Append(rest, item) ELSE rest
  BY DEF RxFifo!Edge
<1>5. rx_push_valid(in) => rx.char_valid
  BY DEF rx_push_valid
<1>6. event_rx_overrun(in) => rx.char_valid /\ Len(rxq) = RX_FIFO_DEPTH
  BY <1>1 DEF event_rx_overrun, RxFifo!PushReady
<1> HIDE DEF rest, item
<1>7. CASE in.clear_rx
  BY <1>1, <1>4, <1>6, <1>7
<1>8. CASE ~in.clear_rx /\ rx_push_valid(in) /\ RxFifo!PushReady(in.rx_ready)
  <2>1. rxq' = Append(rest, item) /\ rx.char_valid /\ item.errors = Rx!NoErrors
    BY <1>2, <1>4, <1>5, <1>8
  <2>2. Len(rxq') = Len(rest) + 1 /\ rxq' \in Seq(Records)
    BY <1>2, <1>3, <2>1
  <2>3. ASSUME NEW i \in DOMAIN rxq' PROVE rxq'[i].errors = Rx!NoErrors
    BY <1>2, <1>3, <2>1, <2>2
  <2> QED BY <1>1, <1>3, <1>6, <1>8, <2>1, <2>2, <2>3
<1>9. CASE ~in.clear_rx /\ ~(rx_push_valid(in) /\ RxFifo!PushReady(in.rx_ready))
  BY <1>1, <1>3, <1>4, <1>6, <1>9
<1> QED BY <1>7, <1>8, <1>9

\* The receive side after an edge.
LEMMA ReceiveStep ==
  ASSUME CoreInv, Clock, OVERSAMPLE >= 8
  PROVE  /\ Link!BaudInv' /\ Link!RxInv' /\ flight' \in Seq(Byte)
         /\ rx.char_valid => cfg.rx_enable /\ flight = << rx.data >> /\ rx.errors = Rx!NoErrors
         /\ tx_start(cfg) => ~rx.char_valid
         /\ cfg.rx_enable => Link!LinkInv'
         /\ ~cfg.rx_enable => rx'.state = "IDLE" /\ ~rx'.char_valid
<1>1. SendInv /\ Link!BaudInv /\ Link!RxInv /\ flight \in Seq(Byte) /\ Link!Bit = Bit
  BY DEF CoreInv, Link!Bit, Bit
<1>2. /\ cfg \in Link!Config /\ cfg.enable \in BOOLEAN /\ cfg.rx_enable \in BOOLEAN /\ Inc \in Nat
      /\ tx_start(cfg) \in BOOLEAN /\ baud.oversample_tick \in BOOLEAN /\ tx.line \in Link!Bit
      /\ tx_start(cfg) => tx_data \in Byte
  BY <1>1, ConfigTypes, LaunchFacts, SameLink DEF SendInv, Link!TxInv, Link!TxTypeOK
<1>3. Link!BaudInv'
  BY <1>1, <1>2, EdgeOfLink, Assumptions, Link!ElapsedStep
<1>4. Link!RxInv'
  BY <1>1, <1>2, EdgeOfLink, Assumptions, Link!RxStep
<1>5. CASE cfg.rx_enable
  <2>1. Link!LinkInv /\ Link!LinkEdge(tx_start(cfg), tx_data)
    BY <1>5, CoreLink DEF CoreInv
  <2>2. Link!LinkInv'
    BY <1>2, <2>1, Assumptions, Link!LinkStep
  <2>3. flight' \in Seq(Byte)
    <3>1. (Link!LinkInv => flight \in Seq(Link!Byte))'
      BY Assumptions, Link!LinkKeeps, PTL
    <3> QED BY <2>2, <3>1, SameLink
  <2>4. /\ rx.char_valid => flight = << rx.data >> /\ rx.errors = Rx!NoErrors
        /\ tx_start(cfg) => ~rx.char_valid
    BY <1>2, <2>1, LinkTiming, SameLink
  <2> QED BY <1>3, <1>4, <1>5, <2>2, <2>3, <2>4
<1>6. CASE ~cfg.rx_enable
  <2>1. rx.state = "IDLE" /\ ~rx.char_valid
    BY <1>6 DEF CoreInv
  <2>2. rx'.state = "IDLE" /\ ~rx'.char_valid
    BY <1>1, <1>6, <2>1, EdgeOfLink, RxOff DEF Link!RxInv
  <2>3. tx_start(cfg) => Masked(tx_data, decode_data_bits(cfg.data_bits)) \in Byte
    BY <1>2 DEF Masked, Byte, Bit
  <2>4. flight' \in Seq(Byte)
    BY <1>1, <1>2, <2>1, <2>3, EdgeOfLink DEF Received
  <2> QED BY <1>3, <1>4, <1>6, <2>1, <2>2, <2>4
<1> QED BY <1>2, <1>5, <1>6

\* With RTS wired back to CTS a byte is launched only if there will be room for it.
LEMMA RoomStep ==
  ASSUME CoreInv, RoomInv, Clock, OVERSAMPLE >= 8, FlowsBack, cfg.rx_enable,
         RTS_DEASSERT_LEVEL <= RX_FIFO_DEPTH, RTS_ASSERT_LEVEL < RX_FIFO_DEPTH
  PROVE  RoomInv'
<1> DEFINE start == tx_start(cfg)
           D     == RX_FIFO_DEPTH
<1>1. PICK in \in Inputs : CoreEdge(cfg, Inc, in)
  BY DEF Clock
<1>2. SendInv /\ Link!LinkInv /\ Link!LinkEdge(tx_start(cfg), tx_data)
  BY CoreLink DEF CoreInv
<1>3. /\ cfg \in Link!Config /\ Inc \in Nat /\ start \in BOOLEAN /\ cfg.hw_flow /\ D \in Nat \ {0}
      /\ RTS_DEASSERT_LEVEL \in Nat /\ RTS_ASSERT_LEVEL \in Nat /\ HAS_RTS_CTS /\ setup.looped
  BY <1>2, ConfigTypes, LaunchFacts, CoreAssumption DEF SendInv, FlowsBack
<1>4. /\ start => ~rx.char_valid /\ flight = << >> /\ \A n \in 0 .. 5 : ~Within(n)
      /\ rx.char_valid => Within(1) /\ flight = << rx.data >>
      /\ \A n \in 0 .. 4 : Within(n) => Within(n + 1)'
  BY <1>2, <1>3, LinkTiming
<1>5. start => cts_sync[3]
  BY <1>3 DEF tx_start, start_allowed, Flow!tx_start_allowed, Flow!cts_active_raw
<1>6. /\ cts_sync'[1] = rts_active /\ cts_sync'[2] = cts_sync[1] /\ cts_sync'[3] = cts_sync[2]
  <2>1. in.cts = cts_pin
    BY DEF Inputs
  <2>2. cts_pin = rts_active
    BY <1>3 DEF cts_pin, rts_pin, Flow!rts_o, CoreInv
  <2> QED BY <1>1, <2>1, <2>2 DEF CoreEdge, Flow!CtsEdge
<1>7. Len(rxq) = D => ~rts_active'
  <2> DEFINE below == Len(rxq) < RTS_DEASSERT_LEVEL
             low   == Len(rxq) <= RTS_ASSERT_LEVEL
  <2>1. rts_active' = CASE ~cfg.enable \/ ~cfg.rx_enable -> FALSE
                        [] cfg.enable /\ cfg.rx_enable   ->
                             IF ~cfg.hw_flow THEN TRUE ELSE IF rts_active THEN below ELSE low
    BY <1>1 DEF CoreEdge, Flow!RtsEdge
  <2>2. Len(rxq) = D => ~below /\ ~low
    BY <1>3
  <2>3. cfg.enable \in BOOLEAN /\ cfg.rx_enable \in BOOLEAN
    BY <1>3 DEF Link!Config
  <2> HIDE DEF below, low
  <2> QED BY <1>3, <2>1, <2>2, <2>3
<1>8. /\ Len(rxq) \in 0 .. D /\ Len(rxq') \in Nat /\ Len(flight) \in Nat
      /\ Len(rxq') <= Len(rxq) + 1 /\ (~rx.char_valid => Len(rxq') <= Len(rxq))
  <2>1. rx.char_valid => rx.errors = Rx!NoErrors
    BY ReceiveStep
  <2>2. rxq \in Seq(Records) /\ Len(rxq) <= D /\ flight \in Seq(Byte)
    BY DEF CoreInv
  <2> QED BY <1>1, <1>3, <2>1, <2>2, RxFifoStep DEF CoreEdge
<1>9. /\ rx.char_valid => Len(flight') = 0 /\ Len(flight) = 1
      /\ ~rx.char_valid /\ ~start => flight' = flight
      /\ ~rx.char_valid /\ start => Len(flight') = 1 /\ Len(flight) = 0
  <2> DEFINE byte == Masked(tx_data, decode_data_bits(cfg.data_bits))
  <2>1. flight' = IF start THEN Append(Received, byte) ELSE Received
    BY EdgeOfLink
  <2> HIDE DEF byte
  <2>2. CASE rx.char_valid
    <3>1. flight = << rx.data >> /\ flight' = Tail(flight)
      BY <1>4, <2>1, <2>2 DEF Received
    <3>2. Len(flight) = 1 /\ Len(Tail(flight)) = 0
      BY <3>1
    <3> QED BY <2>2, <3>1, <3>2
  <2>3. CASE ~rx.char_valid
    <3>1. Received = flight
      BY <2>3 DEF Received
    <3>2. start => flight' = << byte >> /\ flight = << >>
      BY <1>4, <2>1, <3>1
    <3>3. start => Len(flight') = 1 /\ Len(flight) = 0
      BY <3>2
    <3> HIDE DEF start
    <3> QED BY <2>1, <2>3, <3>1, <3>3
  <2> QED BY <2>2, <2>3
<1>10. Len(rxq) = D => ~start /\ Len(flight) = 0
  <2> SUFFICES ASSUME Len(rxq) = D PROVE ~start /\ Len(flight) = 0
    OBVIOUS
  <2>1. Len(flight) = 0
    BY <1>3, <1>8 DEF RoomInv
  <2>2. \/ \E n \in 0 .. 5 : Within(n)
        \/ ~cts_sync[3]
    BY DEF RoomInv, Off
  <2> QED BY <1>4, <1>5, <2>1, <2>2
<1> HIDE DEF start
<1>11. Len(rxq') + Len(flight') <= D
  <2>1. Len(rxq) + Len(flight) <= D
    BY DEF RoomInv
  <2>2. CASE rx.char_valid
    <3>1. Len(flight') = 0 /\ Len(flight) = 1
      BY <1>9, <2>2
    <3>2. Len(rxq) + 1 <= D
      BY <2>1, <3>1
    <3>3. Len(rxq') <= D
      BY <1>3, <1>8, <3>2
    <3> QED BY <1>3, <1>8, <3>1, <3>3
  <2>3. CASE ~rx.char_valid /\ ~start
    BY <1>3, <1>8, <1>9, <2>1, <2>3
  <2>4. CASE ~rx.char_valid /\ start
    <3>1. Len(flight') = 1
      BY <1>9, <2>4
    <3>2. Len(rxq) # D
      BY <1>10, <2>4
    <3>3. Len(rxq') + 1 <= D
      BY <1>3, <1>8, <2>4, <3>2
    <3> QED BY <3>1, <3>3
  <2> QED BY <2>2, <2>3, <2>4
<1>12. ASSUME Len(rxq') = D
       PROVE  \/ Within(2)'
              \/ ~rts_active' /\ Within(3)'
              \/ ~rts_active' /\ ~cts_sync'[1] /\ Within(4)'
              \/ ~rts_active' /\ ~cts_sync'[1] /\ ~cts_sync'[2] /\ Within(5)'
              \/ ~rts_active' /\ Off'
  <2>1. CASE Len(rxq) # D
    <3>1. rx.char_valid
      BY <1>3, <1>8, <1>12, <2>1
    <3> QED BY <1>4, <3>1
  <2>2. CASE Len(rxq) = D
    <3>1. \/ Within(2)
          \/ ~rts_active /\ Within(3)
          \/ ~rts_active /\ ~cts_sync[1] /\ Within(4)
          \/ ~rts_active /\ ~cts_sync[1] /\ ~cts_sync[2] /\ Within(5)
          \/ ~rts_active /\ Off
      BY <2>2 DEF RoomInv
    <3>2. /\ Within(2) => Within(3)' 
          /\ Within(3) => Within(4)' 
          /\ Within(4) => Within(5)'
      BY <1>4
    <3>3. ~rts_active'
      BY <1>7, <2>2
    <3>4. ~rts_active /\ ~cts_sync[1] /\ ~cts_sync[2] => Off'
      BY <1>6 DEF Off
    <3>5. ~rts_active => ~cts_sync'[1]
      BY <1>6
    <3>6. ~cts_sync[1] => ~cts_sync'[2]
      BY <1>6
    <3>7. Off => ~cts_sync[1] /\ ~cts_sync[2]
      BY DEF Off
    <3> QED BY <3>1, <3>2, <3>3, <3>4, <3>5, <3>6, <3>7
  <2> QED BY <2>1, <2>2
<1> QED BY <1>11, <1>12 DEF RoomInv

\* CoreInv holds after reset, ...
LEMMA CoreInit == ASSUME Init PROVE CoreInv
<1>1. SendInv
  BY SendInit
<1>2. Link!LinkInv
  <2>1. /\ baud = Link!Baud!BaudReset /\ tx = Link!TxReset /\ sync = Link!SyncReset /\ rx = Link!RxReset
        /\ flight = << >>
    BY DEF Init, CoreReset, Baud!BaudReset, Link!Baud!BaudReset, Tx!TxReset, Link!TxReset, Tx!Zero, Link!Zero,
           Rx!SyncReset, Link!SyncReset, Rx!RxReset, Link!RxReset, Rx!Zero, Rx!NoErrors, Link!NoErrors
  <2> QED BY <2>1, Assumptions, Link!LinkInit
<1>3. rx.state = "IDLE" /\ ~rx.char_valid
  BY DEF Init, CoreReset, Rx!RxReset
<1>4. /\ rxq = << >> /\ flight = << >> /\ cts \in BOOLEAN /\ rts_active \in BOOLEAN
      /\ cts_sync \in BOOLEAN \X BOOLEAN \X BOOLEAN /\ late \in 0 .. 3
      /\ seen \in [accept : BOOLEAN, pop : BOOLEAN, clear : BOOLEAN, overrun : BOOLEAN, launch : BOOLEAN]
      /\ ~seen.overrun
  <2>1. seen = [accept |-> FALSE, pop |-> FALSE, clear |-> FALSE, overrun |-> FALSE, launch |-> FALSE]
    BY DEF Init
  <2>2. /\ rxq = << >> /\ flight = << >> /\ cts \in BOOLEAN /\ rts_active \in BOOLEAN /\ late \in 0 .. 3
        /\ cts_sync = << TRUE, TRUE, TRUE >>
    BY DEF Init, CoreReset, RxFifo!QueueInit, Flow!CtsReset, Flow!RtsReset
  <2> QED BY <2>1, <2>2
<1>5. /\ Len(rxq) = 0 /\ Len(flight) = 0 /\ RX_FIFO_DEPTH \in Nat \ {0}
      /\ rxq \in Seq(Records) /\ flight \in Seq(Byte) /\ DOMAIN rxq = {}
  BY <1>4, CoreAssumption
<1>6. Link!BaudInv /\ Link!RxInv
  BY <1>2 DEF Link!LinkInv
<1> QED BY <1>1, <1>2, <1>3, <1>4, <1>5, <1>6 DEF CoreInv

\* ... a clock edge keeps it, ...
LEMMA CoreClock ==
  ASSUME CoreInv, Clock, OVERSAMPLE >= 8
  PROVE  CoreInv'
<1>1. PICK in \in Inputs :
        /\ CoreEdge(cfg, Inc, in)
        /\ seen' = [accept  |-> in.tx_valid /\ tx_byte_ready(cfg, in),
                    pop     |-> rxq # << >> /\ in.rx_ready,
                    clear   |-> in.clear_tx \/ in.clear_rx,
                    overrun |-> event_rx_overrun(in),
                    launch  |-> tx_start(cfg)]
  BY DEF Clock
<1>2. SendInv /\ SendInv'
  BY SendStep DEF CoreInv, Next
<1>3. /\ cfg.enable \in BOOLEAN /\ cfg.rx_enable \in BOOLEAN /\ cfg.hw_flow \in BOOLEAN
      /\ setup.looped \in BOOLEAN
      /\ setup' = setup /\ cts' = cts /\ cfg' = cfg
      /\ setup.clears \subseteq BOOLEAN
  BY <1>2, ConfigTypes, LoopAssumption DEF SendInv, Clock, cfg
<1>4. cts_sync' \in BOOLEAN \X BOOLEAN \X BOOLEAN
  <2>1. in.cts \in BOOLEAN
    BY <1>3, CoreAssumption DEF Inputs, cts_pin, rts_pin, Flow!rts_o, CoreInv
  <2>2. cts_sync' = << in.cts, cts_sync[1], cts_sync[2] >>
    BY <1>1 DEF CoreEdge, Flow!CtsEdge
  <2>3. cts_sync[1] \in BOOLEAN /\ cts_sync[2] \in BOOLEAN
    BY DEF CoreInv
  <2> QED BY <2>1, <2>2, <2>3
<1>5. rts_active' \in BOOLEAN
  <2>1. Len(rxq) \in Nat /\ RTS_DEASSERT_LEVEL \in Nat /\ RTS_ASSERT_LEVEL \in Nat
    BY CoreAssumption DEF CoreInv
  <2> DEFINE below == Len(rxq) < RTS_DEASSERT_LEVEL
             low   == Len(rxq) <= RTS_ASSERT_LEVEL
  <2>2. below \in BOOLEAN /\ low \in BOOLEAN
    BY <2>1
  <2>3. rts_active' = CASE ~cfg.enable \/ ~cfg.rx_enable -> FALSE
                        [] cfg.enable /\ cfg.rx_enable   ->
                             IF ~cfg.hw_flow THEN TRUE ELSE IF rts_active THEN below ELSE low
    BY <1>1 DEF CoreEdge, Flow!RtsEdge
  <2> HIDE DEF below, low
  <2> QED BY <1>3, <2>2, <2>3
<1>6. late' \in 0 .. 3
  BY DEF CoreInv, Clock
<1>7. seen' \in [accept : BOOLEAN, pop : BOOLEAN, clear : BOOLEAN, overrun : BOOLEAN, launch : BOOLEAN]
  <2>1. /\ (in.tx_valid /\ tx_byte_ready(cfg, in)) \in BOOLEAN /\ (rxq # << >> /\ in.rx_ready) \in BOOLEAN
        /\ (in.clear_tx \/ in.clear_rx) \in BOOLEAN
    OBVIOUS
  <2>2. event_rx_overrun(in) \in BOOLEAN /\ tx_start(cfg) \in BOOLEAN
    BY DEF event_rx_overrun, tx_start
  <2> QED BY <1>1, <2>1, <2>2
<1>8. /\ Link!BaudInv' /\ Link!RxInv' /\ flight' \in Seq(Byte)
      /\ rx.char_valid => cfg.rx_enable /\ flight = << rx.data >> /\ rx.errors = Rx!NoErrors
      /\ cfg.rx_enable => Link!LinkInv'
      /\ ~cfg.rx_enable => rx'.state = "IDLE" /\ ~rx'.char_valid
  BY ReceiveStep
<1>9. /\ rxq' \in Seq(Records) /\ Len(rxq') <= RX_FIFO_DEPTH
      /\ \A i \in DOMAIN rxq' : rxq'[i].errors = Rx!NoErrors
      /\ ~rx.char_valid => Len(rxq') <= Len(rxq)
  BY <1>1, <1>8, RxFifoStep DEF CoreEdge
<1>10. ~cfg.rx_enable => rxq' = << >>
  <2>1. ~cfg.rx_enable => Len(rxq) = 0 /\ ~rx.char_valid
    BY DEF CoreInv
  <2> QED BY <1>9, <2>1
<1> QED BY <1>2, <1>3, <1>4, <1>5, <1>6, <1>7, <1>8, <1>9, <1>10 DEF CoreInv

\* ... and so does a change of CTS between two edges.
LEMMA CoreStutter ==
  ASSUME CoreInv, UNCHANGED << core, setup, turn, seen, flight, late >>, cts' \in BOOLEAN
  PROVE  CoreInv' /\ (FlowInv => FlowInv')
<1>1. SendInv'
  BY DEF CoreInv, SendInv, core, Link!Baud!BaudTypeOK, Link!TxInv, Link!TxTypeOK, Link!LevelNow
<1>2. UNCHANGED << baud, tx, sync, rx, flight >> /\ cfg' = cfg
  BY DEF core, cfg
<1>3. Link!BaudInv' /\ Link!RxInv'
  BY <1>2 DEF CoreInv, Link!BaudInv, Link!Baud!BaudTypeOK, Link!RxInv, Link!RxTypeOK, Link!Sampling, Link!Last
<1>4. cfg.rx_enable => Link!LinkInv'
  <2>1. cfg.rx_enable => Link!LinkInv /\ (~cfg'.enable => tx.state = "IDLE" /\ flight = << >>)
    BY <1>2 DEF CoreInv, Link!LinkInv
  <2> QED BY <1>2, <2>1, Assumptions, Link!LinkStutter
<1>5. RoomInv => RoomInv'
  BY <1>2 DEF RoomInv, Within, Off, Link!Elapsed, core
<1> QED BY <1>1, <1>2, <1>3, <1>4, <1>5 DEF CoreInv, core, FlowsBack, FlowInv

LEMMA CoreNext == ASSUME CoreInv, [Next]_vars, OVERSAMPLE >= 8 PROVE CoreInv'
<1>1. CASE Clock
  BY <1>1, CoreClock
<1>2. CASE CtsChanges
  BY <1>2, CoreStutter DEF CtsChanges, CoreInv
<1>3. CASE UNCHANGED vars
  BY <1>3, CoreStutter DEF vars, CoreInv
<1> QED BY <1>1, <1>2, <1>3 DEF Next

\* An overrun needs a full FIFO and a character on its way to it.
LEMMA FlowClock ==
  ASSUME CoreInv, FlowInv, Clock, OVERSAMPLE >= 8,
         RTS_DEASSERT_LEVEL <= RX_FIFO_DEPTH, RTS_ASSERT_LEVEL < RX_FIFO_DEPTH
  PROVE  FlowInv'
<1>1. PICK in \in Inputs : CoreEdge(cfg, Inc, in) /\ seen'.overrun = event_rx_overrun(in)
  BY DEF Clock
<1>2. setup' = setup
  BY DEF Clock
<1>3. rx.char_valid => cfg.rx_enable /\ flight = << rx.data >> /\ rx.errors = Rx!NoErrors
  BY ReceiveStep
<1>4. event_rx_overrun(in) => rx.char_valid /\ Len(rxq) = RX_FIFO_DEPTH
  BY <1>1, <1>3, RxFifoStep DEF CoreEdge
<1>5. FlowsBack => ~event_rx_overrun(in)
  <2> SUFFICES ASSUME FlowsBack, event_rx_overrun(in) PROVE FALSE
    OBVIOUS
  <2>1. cfg.rx_enable /\ Len(flight) = 1 /\ Len(rxq) = RX_FIFO_DEPTH
    BY <1>3, <1>4
  <2>2. Len(rxq) + Len(flight) <= RX_FIFO_DEPTH
    BY <2>1 DEF FlowInv, RoomInv
  <2> QED BY <2>1, <2>2, CoreAssumption
<1>6. FlowsBack /\ cfg.rx_enable => RoomInv'
  BY RoomStep DEF FlowInv
<1> QED BY <1>1, <1>2, <1>5, <1>6 DEF FlowInv, FlowsBack, cfg

LEMMA CoreInvariance == ASSUME OVERSAMPLE >= 8 PROVE Spec => []CoreInv
<1>1. Init => CoreInv
  BY CoreInit
<1>2. CoreInv /\ [Next]_vars => CoreInv'
  BY CoreNext
<1> QED BY <1>1, <1>2, PTL DEF Spec

LEMMA SameTypes ==
  ASSUME CoreInv
  PROVE  Baud!BaudTypeOK /\ Tx!TxTypeOK /\ Rx!RxTypeOK
<1>1. Baud!BaudTypeOK
  BY DEF CoreInv, SendInv, Link!Baud!BaudTypeOK, Baud!BaudTypeOK
<1>2. Tx!TxTypeOK
  BY DEF CoreInv, SendInv, Link!TxInv, Link!TxTypeOK, Tx!TxTypeOK, Tx!Byte, Tx!Bit, Tx!Codes, Link!Byte, Link!Bit,
         Link!Codes
<1>3. Rx!RxTypeOK
  BY DEF CoreInv, Link!RxInv, Link!RxTypeOK, Rx!RxTypeOK, Rx!Byte, Rx!Bit, Rx!Codes, Link!Byte, Link!Bit,
         Link!Codes, Rx!Errors, Link!Errors, Rx!BIT_LAST, Link!BIT_LAST
<1> QED BY <1>1, <1>2, <1>3

\* uart_hw_flow_ctrl.sv:87-99, uart_core.sv:225 and 258: RTS, wired back to CTS, is withdrawn in time for
\* the transmitter to see it before it launches what the receive FIFO has no room for, and no record
\* ever has an error.  The levels may be anything up to the depth: the defaults of uart_core.sv:46-47,
\* DEPTH - 2 and DEPTH / 2, leave more than is needed here.
THEOREM FlowControlKeepsAll ==
  ASSUME OVERSAMPLE >= 8, RTS_DEASSERT_LEVEL <= RX_FIFO_DEPTH, RTS_ASSERT_LEVEL < RX_FIFO_DEPTH
  PROVE  Spec => []KeepsAll
<1>1. Init => FlowInv
  <2>1. ASSUME Init PROVE Len(rxq) = 0 /\ Len(flight) = 0 /\ ~seen.overrun
    BY <2>1 DEF Init, CoreReset, RxFifo!QueueInit
  <2> QED BY <2>1, CoreAssumption DEF FlowInv, RoomInv
<1>2. CoreInv /\ FlowInv /\ [Next]_vars => FlowInv'
  <2> SUFFICES ASSUME CoreInv, FlowInv, [Next]_vars PROVE FlowInv'
    OBVIOUS
  <2>1. CASE Clock
    BY <2>1, FlowClock
  <2>2. CASE CtsChanges
    BY <2>2, CoreStutter DEF CtsChanges, CoreInv
  <2>3. CASE UNCHANGED vars
    BY <2>3, CoreStutter DEF vars, CoreInv
  <2> QED BY <2>1, <2>2, <2>3 DEF Next
<1>3. CoreInv /\ FlowInv => KeepsAll
  <2> SUFFICES ASSUME CoreInv, FlowInv PROVE KeepsAll
    OBVIOUS
  <2>1. TypeOK
    BY SameTypes DEF TypeOK, CoreTypeOK, CoreInv, SendInv
  <2> QED BY <2>1 DEF KeepsAll, CoreInv, FlowInv, FlowsBack
<1> QED BY <1>1, <1>2, <1>3, CoreInvariance, PTL DEF Spec

-----------------------------------------------------------------------------
(* Sequences, in parts and as a whole.                                      *)

\* ConcatProperties and its like for bytes: the solver cannot instantiate a set.
LEMMA Joined == \A u, v \in Seq(Byte) : u \o v \in Seq(Byte) /\ Len(u \o v) = Len(u) + Len(v)
BY ConcatProperties

LEMMA Grouped == \A u, v, w \in Seq(Byte) : (u \o v) \o w = u \o (v \o w)
BY ConcatAssociative

LEMMA Empties == << >> \in Seq(Byte) /\ \A u \in Seq(Byte) : << >> \o u = u /\ u \o << >> = u
BY ConcatEmptySeq

\* A part of a sequence is a subsequence of it.
LEMMA Middle ==
  ASSUME NEW u \in Seq(Byte), NEW v \in Seq(Byte), NEW w \in Seq(Byte)
  PROVE  SubSeq((u \o v) \o w, Len(u) + 1, Len(u) + Len(v)) = v
<1> DEFINE q == (u \o v) \o w
           m == SubSeq(q, Len(u) + 1, Len(u) + Len(v))
<1>1. Len(u) \in Nat /\ Len(v) \in Nat /\ Len(w) \in Nat
  BY LenProperties
<1>2. /\ u \o v \in Seq(Byte) /\ Len(u \o v) = Len(u) + Len(v)
      /\ \A i \in 1 .. Len(u) + Len(v) : (u \o v)[i] = IF i <= Len(u) THEN u[i] ELSE v[i - Len(u)]
  BY ConcatProperties
<1>3. \A i \in 1 .. Len(u) + Len(v) + Len(w) :
         q[i] = IF i <= Len(u) + Len(v) THEN (u \o v)[i] ELSE w[i - (Len(u) + Len(v))]
  BY <1>2, ConcatProperties
<1> HIDE DEF q
<1>4. ASSUME NEW i \in 1 .. Len(v) PROVE q[Len(u) + i] = v[i]
  <2> DEFINE k == Len(u) + i
  <2>1. /\ k \in 1 .. Len(u) + Len(v) /\ k \in 1 .. Len(u) + Len(v) + Len(w)
        /\ ~(k <= Len(u)) /\ k <= Len(u) + Len(v) /\ k - Len(u) = i
    BY <1>1
  <2> HIDE DEF k
  <2>2. q[k] = (u \o v)[k]
    BY <1>3, <2>1
  <2>3. (u \o v)[k] = v[i]
    BY <1>2, <2>1
  <2> QED BY <2>2, <2>3 DEF k
<1>5. \A i \in Len(u) + 1 .. Len(u) + Len(v) : q[i] \in Byte
  <2>1. ASSUME NEW i \in Len(u) + 1 .. Len(u) + Len(v) PROVE q[i] \in Byte
    <3>1. i - Len(u) \in 1 .. Len(v) /\ i = Len(u) + (i - Len(u))
      BY <1>1
    <3>2. q[i] = v[i - Len(u)]
      BY <1>4, <3>1
    <3> QED BY <3>1, <3>2, ElementOfSeq
  <2> QED BY <2>1
<1>6. /\ m \in Seq(Byte) /\ Len(m) = Len(v)
      /\ \A i \in 1 .. Len(v) : m[i] = q[Len(u) + i]
  <2>1. Len(u) + 1 \in Int /\ Len(u) + Len(v) \in Int
    BY <1>1
  <2>2. /\ m \in Seq(Byte)
        /\ Len(m) = IF Len(u) + 1 <= Len(u) + Len(v) THEN (Len(u) + Len(v)) - (Len(u) + 1) + 1 ELSE 0
        /\ \A i \in 1 .. (Len(u) + Len(v)) - (Len(u) + 1) + 1 : m[i] = q[Len(u) + 1 + i - 1]
    BY <1>5, <2>1, SubSeqProperties
  <2> QED BY <1>1, <2>2
<1> HIDE DEF m
<1>7. m = v
  BY <1>4, <1>6, SeqEqual
<1> QED BY <1>7 DEF q, m

\* One element is taken out of the middle.
LEMMA Gone ==
  ASSUME NEW u \in Seq(Byte), NEW x \in Byte, NEW w \in Seq(Byte)
  PROVE  /\ Len(u) + 1 \in DOMAIN ((u \o << x >>) \o w)
         /\ Promise!RemoveAt((u \o << x >>) \o w, Len(u) + 1) = u \o w
<1> DEFINE q == (u \o << x >>) \o w
<1>1. /\ << x >> \in Seq(Byte) /\ Len(<< x >>) = 1 /\ Len(u) \in Nat /\ Len(w) \in Nat
      /\ << >> \in Seq(Byte) /\ Len(<< >>) = 0
  BY LenProperties
<1>2. /\ u \o << x >> \in Seq(Byte) /\ Len(u \o << x >>) = Len(u) + 1 /\ << x >> \o w \in Seq(Byte)
      /\ q \in Seq(Byte) /\ Len(q) = Len(u) + 1 + Len(w) /\ q = u \o (<< x >> \o w)
      /\ q = (<< >> \o u) \o (<< x >> \o w) /\ q = ((u \o << x >>) \o w) \o << >>
  <2>1. u \o << x >> \in Seq(Byte) /\ Len(u \o << x >>) = Len(u) + 1 /\ << x >> \o w \in Seq(Byte)
    BY <1>1, Joined, Grouped, Empties
  <2>2. q \in Seq(Byte) /\ Len(q) = Len(u) + 1 + Len(w) /\ q = u \o (<< x >> \o w)
    BY <1>1, <2>1, Joined, Grouped, Empties
  <2>3. << >> \o u = u /\ q \o << >> = q
    BY <2>2, Joined, Grouped, Empties
  <2> QED BY <2>1, <2>2, <2>3
<1>3. SubSeq(q, 1, Len(u)) = u
  <2>1. SubSeq((<< >> \o u) \o (<< x >> \o w), Len(<< >>) + 1, Len(<< >>) + Len(u)) = u
    BY <1>1, <1>2, Middle
  <2> QED BY <1>1, <1>2, <2>1
<1>4. SubSeq(q, Len(u) + 2, Len(q)) = w
  <2>1. SubSeq(((u \o << x >>) \o w) \o << >>, Len(u \o << x >>) + 1, Len(u \o << x >>) + Len(w)) = w
    BY <1>1, <1>2, Middle
  <2>2. Len(u \o << x >>) + 1 = Len(u) + 2 /\ Len(u \o << x >>) + Len(w) = Len(q)
    BY <1>1, <1>2
  <2> QED BY <1>2, <2>1, <2>2
<1>5. DOMAIN q = 1 .. Len(q)
  BY <1>2, LenProperties
<1>6. (Len(u) + 1) - 1 = Len(u) /\ (Len(u) + 1) + 1 = Len(u) + 2 /\ Len(u) + 1 \in 1 .. Len(q)
  BY <1>1, <1>2
<1> HIDE DEF q
<1>7. Promise!RemoveAt(q, Len(u) + 1) = u \o w
  BY <1>3, <1>4, <1>6 DEF Promise!RemoveAt
<1> QED BY <1>5, <1>6, <1>7 DEF q

\* One element comes last.
LEMMA Grown ==
  ASSUME NEW s \in Seq(Byte), NEW x \in Byte
  PROVE  /\ s \o << x >> # << >> /\ Promise!Front(s \o << x >>) = s
         /\ Promise!Last(s \o << x >>) = x
<1> DEFINE q == s \o << x >>
<1>1. << x >> \in Seq(Byte) /\ Len(<< x >>) = 1 /\ Len(s) \in Nat /\ << >> \in Seq(Byte) /\ Len(<< >>) = 0
  BY LenProperties
<1>2. /\ q \in Seq(Byte) /\ Len(q) = Len(s) + 1 /\ q[Len(s) + 1] = x
  <2>1. /\ q \in Seq(Byte) /\ Len(q) = Len(s) + 1
        /\ \A i \in 1 .. Len(s) + 1 : q[i] = IF i <= Len(s) THEN s[i] ELSE << x >>[i - Len(s)]
    BY <1>1, ConcatProperties
  <2>2. Len(s) + 1 \in 1 .. Len(s) + 1 /\ ~(Len(s) + 1 <= Len(s)) /\ (Len(s) + 1) - Len(s) = 1
    BY <1>1
  <2> QED BY <2>1, <2>2
<1>3. SubSeq(q, 1, Len(s)) = s
  <2>1. SubSeq((<< >> \o s) \o << x >>, Len(<< >>) + 1, Len(<< >>) + Len(s)) = s
    BY <1>1, Middle
  <2>2. << >> \o s = s
    BY Joined, Grouped, Empties
  <2> QED BY <1>1, <2>1, <2>2
<1> HIDE DEF q
<1>4. q # << >> /\ Len(q) - 1 = Len(s)
  BY <1>1, <1>2
<1> QED BY <1>2, <1>3, <1>4 DEF q, Promise!Front, Promise!Last

\* What is at the head of one part goes to the end of the part before it.
LEMMA Handed ==
  ASSUME NEW s \in Seq(Byte), NEW t \in Seq(Byte), t # << >>
  PROVE  /\ Head(t) \in Byte /\ Tail(t) \in Seq(Byte) /\ << Head(t) >> \o Tail(t) = t
         /\ Append(s, Head(t)) = s \o << Head(t) >>
         /\ Append(s, Head(t)) \in Seq(Byte) /\ Append(s, Head(t)) \o Tail(t) = s \o t
<1> DEFINE h == << Head(t) >>
<1>1. Head(t) \in Byte /\ Tail(t) \in Seq(Byte) /\ Len(Tail(t)) = Len(t) - 1 /\ Len(t) \in Nat \ {0}
      /\ \A i \in 1 .. Len(Tail(t)) : Tail(t)[i] = t[i + 1]
  BY HeadTailProperties, EmptySeq
<1>2. h \in Seq(Byte) /\ Len(h) = 1 /\ h[1] = Head(t) /\ Head(t) = t[1]
  BY <1>1
<1>3. /\ h \o Tail(t) \in Seq(Byte) /\ Len(h \o Tail(t)) = Len(t)
      /\ \A i \in 1 .. Len(t) : (h \o Tail(t))[i] = IF i <= 1 THEN h[i] ELSE Tail(t)[i - 1]
  <2>1. 1 + Len(Tail(t)) = Len(t)
    BY <1>1
  <2> QED BY <1>1, <1>2, <2>1, ConcatProperties
<1> HIDE DEF h
<1>4. \A i \in 1 .. Len(t) : (h \o Tail(t))[i] = t[i]
  BY <1>1, <1>2, <1>3
<1>5. h \o Tail(t) = t
  BY <1>3, <1>4, SeqEqual
<1>6. Append(s, Head(t)) = s \o h /\ Append(s, Head(t)) \in Seq(Byte)
  BY <1>1, AppendIsConcat, AppendProperties DEF h
<1>7. (s \o h) \o Tail(t) = s \o (h \o Tail(t))
  BY <1>1, <1>2, Joined, Grouped, Empties
<1> QED BY <1>1, <1>5, <1>6, <1>7 DEF h

\* What is taken from the first part is taken from the whole.
LEMMA TailOfFirst ==
  ASSUME NEW s \in Seq(Byte), NEW t \in Seq(Byte), s # << >>
  PROVE  s \o t # << >> /\ Tail(s \o t) = Tail(s) \o t
<1> DEFINE r == Tail(s) \o t
<1>1. Head(s) \in Byte /\ Tail(s) \in Seq(Byte) /\ << Head(s) >> \o Tail(s) = s /\ << Head(s) >> \in Seq(Byte)
  BY Handed
<1>2. s \o t = << Head(s) >> \o r /\ r \in Seq(Byte)
  BY <1>1, Joined, Grouped, Empties
<1> HIDE DEF r
<1>3. /\ << Head(s) >> \o r \in Seq(Byte) /\ Len(<< Head(s) >> \o r) = 1 + Len(r)
      /\ \A i \in 1 .. 1 + Len(r) : (<< Head(s) >> \o r)[i] = IF i <= 1 THEN << Head(s) >>[i] ELSE r[i - 1]
  BY <1>1, <1>2, ConcatProperties
<1> DEFINE q == << Head(s) >> \o r
<1>4. Len(r) \in Nat
  BY <1>2, LenProperties
<1>5. q \in Seq(Byte) /\ q # << >> /\ Len(q) = 1 + Len(r)
  BY <1>3, <1>4
<1>6. \A i \in 1 .. Len(r) : q[i + 1] = r[i]
  BY <1>3, <1>4
<1> HIDE DEF q
<1>7. /\ Tail(q) \in Seq(Byte) /\ Len(Tail(q)) = Len(r)
      /\ \A i \in 1 .. Len(r) : Tail(q)[i] = q[i + 1]
  <2>1. Len(q) - 1 = Len(r)
    BY <1>4, <1>5
  <2> QED BY <1>5, <2>1, HeadTailProperties
<1>8. Tail(q) = r
  BY <1>2, <1>6, <1>7, SeqEqual
<1> QED BY <1>2, <1>5, <1>8 DEF q, r

Datas(s) == [i \in DOMAIN s |-> s[i].data]
Cuts(s)  == [i \in DOMAIN s |-> Cut(s[i])]

\* The bytes of the receive FIFO, and how they change.
LEMMA DatasTypes ==
  ASSUME NEW s \in Seq(Records)
  PROVE  /\ Datas(s) \in Seq(Byte) /\ Len(Datas(s)) = Len(s)
         /\ \A i \in 1 .. Len(s) : Datas(s)[i] = s[i].data
         /\ s = << >> <=> Datas(s) = << >>
<1>1. DOMAIN s = 1 .. Len(s) /\ Len(s) \in Nat /\ \A i \in 1 .. Len(s) : s[i] \in Records
  BY LenProperties, ElementOfSeq
<1>2. \A i \in 1 .. Len(s) : s[i].data \in Byte
  BY <1>1 DEF Records
<1>3. Datas(s) = [i \in 1 .. Len(s) |-> s[i].data]
  BY <1>1 DEF Datas
<1>4. /\ Datas(s) \in Seq(Byte) /\ Len(Datas(s)) = Len(s)
      /\ \A i \in 1 .. Len(s) : Datas(s)[i] = s[i].data
  BY <1>1, <1>2, <1>3
<1> QED BY <1>1, <1>4, EmptySeq

LEMMA DatasMoves ==
  ASSUME NEW s \in Seq(Records)
  PROVE  /\ \A r \in Records : Datas(Append(s, r)) = Append(Datas(s), r.data)
         /\ s # << >> => /\ Datas(s) # << >> /\ Datas(Tail(s)) = Tail(Datas(s))
                        /\ Head(Datas(s)) = Head(s).data
<1> DEFINE t == Datas(s)
<1>1. t \in Seq(Byte) /\ Len(t) = Len(s) /\ Len(s) \in Nat /\ \A i \in 1 .. Len(s) : t[i] = s[i].data
  BY DatasTypes, LenProperties
<1> HIDE DEF t
<1>2. ASSUME NEW r \in Records PROVE Datas(Append(s, r)) = Append(t, r.data)
  <2> DEFINE u == Datas(Append(s, r))
             b == r.data
  <2>1. b \in Byte
    BY DEF Records
  <2>2. /\ Append(s, r) \in Seq(Records) /\ Len(Append(s, r)) = Len(s) + 1
        /\ \A i \in 1 .. Len(s) : Append(s, r)[i] = s[i]
        /\ Append(s, r)[Len(s) + 1] = r
    BY AppendProperties
  <2>3. /\ u \in Seq(Byte) /\ Len(u) = Len(s) + 1
        /\ \A i \in 1 .. Len(s) + 1 : u[i] = Append(s, r)[i].data
    BY <2>2, DatasTypes
  <2>4. /\ Append(t, b) \in Seq(Byte) /\ Len(Append(t, b)) = Len(s) + 1
        /\ \A i \in 1 .. Len(s) : Append(t, b)[i] = t[i]
        /\ Append(t, b)[Len(s) + 1] = b
    <3> HIDE DEF b
    <3> QED BY <1>1, <2>1, AppendProperties
  <2>6. u[Len(s) + 1] = b
    BY <1>1, <2>2, <2>3
  <2>7. \A i \in 1 .. Len(s) : u[i] = t[i]
    BY <1>1, <2>2, <2>3
  <2> HIDE DEF u, b
  <2>5. ASSUME NEW i \in 1 .. Len(s) + 1 PROVE u[i] = Append(t, b)[i]
    <3>1. CASE i = Len(s) + 1
      BY <2>4, <2>6, <3>1
    <3>2. CASE i # Len(s) + 1
      <4>1. i \in 1 .. Len(s)
        BY <1>1, <3>2
      <4> QED BY <2>4, <2>7, <4>1
    <3> QED BY <3>1, <3>2
  <2>8. u = Append(t, b)
    BY <2>3, <2>4, <2>5, SeqEqual
  <2> QED BY <2>8 DEF u, b
<1>3. ASSUME s # << >> PROVE t # << >> /\ Datas(Tail(s)) = Tail(t) /\ Head(t) = Head(s).data
  <2>1. t # << >> /\ Len(s) >= 1
    BY <1>1, <1>3, EmptySeq
  <2>2. /\ Tail(s) \in Seq(Records) /\ Len(Tail(s)) = Len(s) - 1
        /\ \A i \in 1 .. Len(s) - 1 : Tail(s)[i] = s[i + 1]
    BY <1>3, HeadTailProperties
  <2>3. /\ Datas(Tail(s)) \in Seq(Byte) /\ Len(Datas(Tail(s))) = Len(s) - 1
        /\ \A i \in 1 .. Len(s) - 1 : Datas(Tail(s))[i] = Tail(s)[i].data
    BY <2>2, DatasTypes
  <2>4. /\ Tail(t) \in Seq(Byte) /\ Len(Tail(t)) = Len(s) - 1
        /\ \A i \in 1 .. Len(s) - 1 : Tail(t)[i] = t[i + 1]
    BY <1>1, <2>1, HeadTailProperties
  <2>5. \A i \in 1 .. Len(s) - 1 : Datas(Tail(s))[i] = Tail(t)[i]
    BY <1>1, <2>2, <2>3, <2>4
  <2>6. Datas(Tail(s)) = Tail(t)
    BY <2>3, <2>4, <2>5, SeqEqual
  <2>7. Head(t) = t[1] /\ Head(s) = s[1] /\ 1 \in 1 .. Len(s)
    BY <1>1, <1>3, <2>1
  <2> QED BY <1>1, <2>1, <2>6, <2>7
<1> QED BY <1>2, <1>3 DEF t

\* The bytes of the transmit FIFO, cut to the width of the format, and how they change.
LEMMA CutIsByte == ASSUME SendInv, NEW b \in Bytes PROVE Cut(b) \in Byte
BY CoreAssumption DEF Cut, Masked, Byte, Bit

LEMMA CutsTypes ==
  ASSUME NEW s \in Seq(Bytes), SendInv
  PROVE  /\ Cuts(s) \in Seq(Byte) /\ Len(Cuts(s)) = Len(s)
         /\ \A i \in 1 .. Len(s) : Cuts(s)[i] = Cut(s[i])
         /\ s = << >> <=> Cuts(s) = << >>
<1>1. DOMAIN s = 1 .. Len(s) /\ Len(s) \in Nat /\ \A i \in 1 .. Len(s) : s[i] \in Bytes
  BY LenProperties, ElementOfSeq
<1>2. \A i \in 1 .. Len(s) : Cut(s[i]) \in Byte
  BY <1>1, CutIsByte
<1>3. Cuts(s) = [i \in 1 .. Len(s) |-> Cut(s[i])]
  BY <1>1 DEF Cuts
<1>4. /\ Cuts(s) \in Seq(Byte) /\ Len(Cuts(s)) = Len(s)
      /\ \A i \in 1 .. Len(s) : Cuts(s)[i] = Cut(s[i])
  BY <1>1, <1>2, <1>3
<1> QED BY <1>1, <1>4, EmptySeq

LEMMA CutsMoves ==
  ASSUME NEW s \in Seq(Bytes), SendInv
  PROVE  /\ \A r \in Bytes : Cuts(Append(s, r)) = Append(Cuts(s), Cut(r))
         /\ s # << >> => /\ Cuts(s) # << >> /\ Cuts(Tail(s)) = Tail(Cuts(s))
                        /\ Head(Cuts(s)) = Cut(Head(s))
<1> DEFINE t == Cuts(s)
<1>1. t \in Seq(Byte) /\ Len(t) = Len(s) /\ Len(s) \in Nat /\ \A i \in 1 .. Len(s) : t[i] = Cut(s[i])
  BY CutsTypes, LenProperties
<1> HIDE DEF t
<1>2. ASSUME NEW r \in Bytes PROVE Cuts(Append(s, r)) = Append(t, Cut(r))
  <2> DEFINE u == Cuts(Append(s, r))
             b == Cut(r)
  <2>1. b \in Byte
    BY CutIsByte
  <2>2. /\ Append(s, r) \in Seq(Bytes) /\ Len(Append(s, r)) = Len(s) + 1
        /\ \A i \in 1 .. Len(s) : Append(s, r)[i] = s[i]
        /\ Append(s, r)[Len(s) + 1] = r
    BY AppendProperties
  <2>3. /\ u \in Seq(Byte) /\ Len(u) = Len(s) + 1
        /\ \A i \in 1 .. Len(s) + 1 : u[i] = Cut(Append(s, r)[i])
    BY <2>2, CutsTypes
  <2>4. /\ Append(t, b) \in Seq(Byte) /\ Len(Append(t, b)) = Len(s) + 1
        /\ \A i \in 1 .. Len(s) : Append(t, b)[i] = t[i]
        /\ Append(t, b)[Len(s) + 1] = b
    <3> HIDE DEF b
    <3> QED BY <1>1, <2>1, AppendProperties
  <2>6. u[Len(s) + 1] = b
    BY <1>1, <2>2, <2>3
  <2>7. \A i \in 1 .. Len(s) : u[i] = t[i]
    BY <1>1, <2>2, <2>3
  <2> HIDE DEF u, b
  <2>5. ASSUME NEW i \in 1 .. Len(s) + 1 PROVE u[i] = Append(t, b)[i]
    <3>1. CASE i = Len(s) + 1
      BY <2>4, <2>6, <3>1
    <3>2. CASE i # Len(s) + 1
      <4>1. i \in 1 .. Len(s)
        BY <1>1, <3>2
      <4> QED BY <2>4, <2>7, <4>1
    <3> QED BY <3>1, <3>2
  <2>8. u = Append(t, b)
    BY <2>3, <2>4, <2>5, SeqEqual
  <2> QED BY <2>8 DEF u, b
<1>3. ASSUME s # << >> PROVE t # << >> /\ Cuts(Tail(s)) = Tail(t) /\ Head(t) = Cut(Head(s))
  <2>1. t # << >> /\ Len(s) >= 1
    BY <1>1, <1>3, EmptySeq
  <2>2. /\ Tail(s) \in Seq(Bytes) /\ Len(Tail(s)) = Len(s) - 1
        /\ \A i \in 1 .. Len(s) - 1 : Tail(s)[i] = s[i + 1]
    BY <1>3, HeadTailProperties
  <2>3. /\ Cuts(Tail(s)) \in Seq(Byte) /\ Len(Cuts(Tail(s))) = Len(s) - 1
        /\ \A i \in 1 .. Len(s) - 1 : Cuts(Tail(s))[i] = Cut(Tail(s)[i])
    BY <2>2, CutsTypes
  <2>4. /\ Tail(t) \in Seq(Byte) /\ Len(Tail(t)) = Len(s) - 1
        /\ \A i \in 1 .. Len(s) - 1 : Tail(t)[i] = t[i + 1]
    BY <1>1, <2>1, HeadTailProperties
  <2>5. \A i \in 1 .. Len(s) - 1 : Cuts(Tail(s))[i] = Tail(t)[i]
    BY <1>1, <2>2, <2>3, <2>4
  <2>6. Cuts(Tail(s)) = Tail(t)
    BY <2>3, <2>4, <2>5, SeqEqual
  <2>7. Head(t) = t[1] /\ Head(s) = s[1] /\ 1 \in 1 .. Len(s)
    BY <1>1, <1>3, <2>1
  <2> QED BY <1>1, <2>1, <2>6, <2>7
<1> QED BY <1>2, <1>3 DEF t

\* The first of a part may be appended to the part before it, ...
Hands(s, t, s2, t2) ==
  /\ s \in Seq(Byte) /\ t \in Seq(Byte)
  /\ (s2 = s /\ t2 = t) \/ (t # << >> /\ s2 = Append(s, Head(t)) /\ t2 = Tail(t))

\* ... and nothing changes in the two together.
LEMMA OnlyHanded ==
  ASSUME NEW s, NEW t, NEW s2, NEW t2, Hands(s, t, s2, t2)
  PROVE  s2 \in Seq(Byte) /\ t2 \in Seq(Byte) /\ s2 \o t2 = s \o t
<1>0. s \in Seq(Byte) /\ t \in Seq(Byte)
  BY DEF Hands
<1>1. CASE t # << >> /\ s2 = Append(s, Head(t)) /\ t2 = Tail(t)
  <2>1. Append(s, Head(t)) \in Seq(Byte) /\ Tail(t) \in Seq(Byte) /\ Append(s, Head(t)) \o Tail(t) = s \o t
    BY <1>0, <1>1, Handed
  <2> QED BY <1>1, <2>1
<1>2. CASE s2 = s /\ t2 = t
  BY <1>0, <1>2
<1> QED BY <1>1, <1>2 DEF Hands

\* The byte taken in comes after the rest.
Takes(r2, f2, t2, t3, accept) ==
  /\ r2 \in Seq(Byte) /\ f2 \in Seq(Byte) /\ t2 \in Seq(Byte) /\ accept \in BOOLEAN
  /\ \E x \in Byte : t3 = IF accept THEN Append(t2, x) ELSE t2

Follows(rest, accept, q) ==
  IF accept THEN q # << >> /\ Promise!Front(q) = rest /\ Promise!Last(q) \in Byte ELSE q = rest

LEMMA TakenIn ==
  ASSUME NEW r2, NEW f2, NEW t2, NEW t3, NEW accept, Takes(r2, f2, t2, t3, accept)
  PROVE  Follows((r2 \o f2) \o t2, accept, (r2 \o f2) \o t3)
<1>1. accept \in BOOLEAN
  BY DEF Takes
<1>2. PICK x \in Byte : t3 = IF accept THEN Append(t2, x) ELSE t2
  BY DEF Takes
<1>3. CASE accept
  <2> DEFINE p == r2 \o f2
  <2>1. r2 \in Seq(Byte) /\ f2 \in Seq(Byte)
    BY DEF Takes
  <2>2. p \in Seq(Byte)
    BY <2>1, Joined
  <2> HIDE DEF p
  <2>3. t2 \in Seq(Byte)
    BY DEF Takes
  <2>4. << x >> \in Seq(Byte) /\ t3 = t2 \o << x >>
    BY <1>2, <1>3, <2>3, AppendIsConcat
  <2>5. p \o t3 = (p \o t2) \o << x >>
    BY <2>2, <2>3, <2>4, Grouped
  <2>6. p \o t2 \in Seq(Byte)
    BY <2>2, <2>3, Joined
  <2>7. p \o t3 # << >> /\ Promise!Front(p \o t3) = p \o t2 /\ Promise!Last(p \o t3) = x
    BY <2>5, <2>6, Grown
  <2> QED BY <1>3, <2>7 DEF p, Follows
<1>4. CASE ~accept
  BY <1>2, <1>4 DEF Follows
<1> QED BY <1>1, <1>3, <1>4

\* What is left between the ends is a subsequence.
Kept(q, v)  == \E u, w \in Seq(Byte) : v \in Seq(Byte) /\ q = (u \o v) \o w
Trims(q, v) == \E i \in 1 .. Len(q) + 1, j \in 0 .. Len(q) : v = SubSeq(q, i, j)

LEMMA Between == ASSUME NEW q, NEW v, Kept(q, v) PROVE Trims(q, v)
<1>1. PICK u, w : u \in Seq(Byte) /\ w \in Seq(Byte) /\ v \in Seq(Byte) /\ q = (u \o v) \o w
  BY DEF Kept
<1>2. Len(u) \in Nat /\ Len(v) \in Nat /\ Len(w) \in Nat
  BY <1>1, LenProperties
<1>3. Len(q) = Len(u) + Len(v) + Len(w)
  BY <1>1, Joined
<1>4. v = SubSeq(q, Len(u) + 1, Len(u) + Len(v))
  BY <1>1, Middle
<1>5. Len(u) + 1 \in 1 .. Len(q) + 1 /\ Len(u) + Len(v) \in 0 .. Len(q)
  BY <1>2, <1>3
<1> QED BY <1>4, <1>5 DEF Trims

LEMMA FirstOff ==
  ASSUME NEW s \in Seq(Byte), NEW some \in BOOLEAN, some => s # << >>
  PROVE  \E g, t \in Seq(Byte) : s = g \o t /\ t = IF some THEN Tail(s) ELSE s
<1>1. CASE some
  <2>1. << Head(s) >> \in Seq(Byte) /\ Tail(s) \in Seq(Byte) /\ s = << Head(s) >> \o Tail(s)
    BY <1>1, Handed
  <2> QED BY <1>1, <2>1
<1>2. CASE ~some
  BY <1>2, Empties
<1> QED BY <1>1, <1>2

\* Where that happens between r and f and then between f and t, the whole stays what it was.
Through(r, f, t, r2, f1, f2, t2) ==
  /\ r \in Seq(Byte) /\ f \in Seq(Byte) /\ t \in Seq(Byte)
  /\ r2 \in Seq(Byte) /\ f1 \in Seq(Byte) /\ f2 \in Seq(Byte) /\ t2 \in Seq(Byte)
  /\ r2 \o f1 = r \o f /\ f2 \o t2 = f1 \o t

Same(g, r, f, t, r2, f2, t2) == ((g \o r) \o f) \o t = (g \o (r2 \o f2)) \o t2

LEMMA HandedOn ==
  ASSUME NEW g, g \in Seq(Byte), NEW r, NEW f, NEW t, NEW r2, NEW f1, NEW f2, NEW t2,
         Through(r, f, t, r2, f1, f2, t2)
  PROVE  Same(g, r, f, t, r2, f2, t2)
<1>1. g \in Seq(Byte)
  BY DEF Through
<1>2. r2 \in Seq(Byte)
  BY DEF Through
<1>3. f1 \in Seq(Byte)
  BY DEF Through
<1>4. f2 \in Seq(Byte)
  BY DEF Through
<1>5. r \in Seq(Byte) /\ f \in Seq(Byte)
  BY DEF Through
<1>6. t \in Seq(Byte)
  BY DEF Through
<1>7. t2 \in Seq(Byte)
  BY DEF Through
<1>8. r2 \o f1 = r \o f
  BY DEF Through
<1>9. f2 \o t2 = f1 \o t
  BY DEF Through
<1>10. (g \o r) \o f = g \o (r \o f)
  BY <1>1, <1>5, Grouped
<1>11. (g \o r2) \o f1 = g \o (r2 \o f1)
  BY <1>1, <1>2, <1>3, Grouped
<1>12. (g \o r2) \o f2 = g \o (r2 \o f2)
  BY <1>1, <1>2, <1>4, Grouped
<1> DEFINE p == g \o r2
<1>13. p \in Seq(Byte)
  BY <1>1, <1>2, Joined
<1>14. (p \o f1) \o t = p \o (f1 \o t)
  <2> HIDE DEF p
  <2> QED BY <1>13, <1>3, <1>6, Grouped
<1>15. (p \o f2) \o t2 = p \o (f2 \o t2)
  <2> HIDE DEF p
  <2> QED BY <1>13, <1>4, <1>7, Grouped
<1> QED BY <1>8, <1>9, <1>10, <1>11, <1>12, <1>14, <1>15 DEF Same

\* What is left when the first part is emptied, h being what the second one had handed on or lost.
Left(r, h, f1, f2, t, t2) ==
  /\ r \in Seq(Byte) /\ h \in Seq(Byte) /\ f1 \in Seq(Byte) /\ f2 \in Seq(Byte)
  /\ t \in Seq(Byte) /\ t2 \in Seq(Byte) /\ f2 \o t2 = f1 \o t

Rest(r, h, f1, f2, t, t2) ==
  /\ r \o h \in Seq(Byte) /\ f2 \o t2 \in Seq(Byte)
  /\ (r \o (h \o f1)) \o t = ((r \o h) \o (f2 \o t2)) \o << >>
  /\ (r \o (h \o f1)) \o t = ((r \o h) \o f2) \o t2

LEMMA LeftByFirst ==
  ASSUME NEW r, NEW h, NEW f1, NEW f2, NEW t, NEW t2, Left(r, h, f1, f2, t, t2)
  PROVE  Rest(r, h, f1, f2, t, t2)
<1>1. r \in Seq(Byte) /\ h \in Seq(Byte)
  BY DEF Left
<1>2. f1 \in Seq(Byte)
  BY DEF Left
<1>3. f2 \in Seq(Byte) /\ t2 \in Seq(Byte)
  BY DEF Left
<1>4. t \in Seq(Byte)
  BY DEF Left
<1>5. f2 \o t2 = f1 \o t
  BY DEF Left
<1> DEFINE u == r \o h
           z == f2 \o t2
<1>6. r \o (h \o f1) = u \o f1
  BY <1>1, <1>2, Grouped
<1>7. u \in Seq(Byte)
  BY <1>1, Joined
<1>8. z \in Seq(Byte)
  BY <1>3, Joined
<1>9. (u \o f1) \o t = u \o (f1 \o t)
  <2> HIDE DEF u
  <2> QED BY <1>7, <1>2, <1>4, Grouped
<1>10. (u \o f2) \o t2 = u \o z
  <2> HIDE DEF u
  <2> QED BY <1>7, <1>3, Grouped
<1>11. (u \o z) \o << >> = u \o z
  <2> HIDE DEF u, z
  <2>1. u \o z \in Seq(Byte)
    BY <1>7, <1>8, Joined
  <2> QED BY <2>1, Empties
<1> QED BY <1>5, <1>6, <1>7, <1>8, <1>9, <1>10, <1>11 DEF Rest

\* One edge: r, f and t are the bytes in the receive FIFO, on the line and in the transmit FIFO; r1, f1
\* and t1 what is left when the first has gone, r2, f2 and t2 what they are when the next one has come.
Moved(r, f, t, r1, f1, t1, r2, f2, t2, pop, valid, lost, clear_rx, clear_tx) ==
  /\ r \in Seq(Byte) /\ f \in Seq(Byte) /\ t \in Seq(Byte)
  /\ {pop, valid, lost, clear_rx, clear_tx} \subseteq BOOLEAN
  /\ r1 = IF pop THEN Tail(r) ELSE r
  /\ pop => r # << >>
  /\ valid => Len(f) = 1
  /\ f1 = IF valid THEN Tail(f) ELSE f
  /\ r2 = IF clear_rx THEN << >> ELSE IF valid /\ ~lost THEN Append(r1, Head(f)) ELSE r1
  /\ \/ f2 = f1 /\ t1 = t
     \/ ~valid /\ t # << >> /\ f2 = Append(f1, Head(t)) /\ t1 = Tail(t)
  /\ t2 = IF clear_tx THEN << >> ELSE t1
  /\ lost => valid /\ ~clear_rx /\ ~pop

\* A clear leaves what is between the FIFO that it empties, or the end of it, and the other one.
LEMMA LeftByClear ==
  ASSUME NEW r, NEW f, NEW t, NEW r1, NEW f1, NEW t1, NEW r2, NEW f2, NEW t2,
         NEW pop, NEW valid, NEW lost, NEW clear_rx, NEW clear_tx,
         Moved(r, f, t, r1, f1, t1, r2, f2, t2, pop, valid, lost, clear_rx, clear_tx),
         clear_tx \/ clear_rx
  PROVE  Kept((r \o f) \o t, (r2 \o f2) \o t2)
<1>0. /\ r \in Seq(Byte) /\ f \in Seq(Byte) /\ t \in Seq(Byte)
      /\ r1 = IF pop THEN Tail(r) ELSE r
      /\ pop => r # << >>
      /\ valid => Len(f) = 1
      /\ f1 = IF valid THEN Tail(f) ELSE f
      /\ r2 = IF clear_rx THEN << >> ELSE IF valid /\ ~lost THEN Append(r1, Head(f)) ELSE r1
      /\ \/ f2 = f1 /\ t1 = t
         \/ ~valid /\ t # << >> /\ f2 = Append(f1, Head(t)) /\ t1 = Tail(t)
      /\ t2 = IF clear_tx THEN << >> ELSE t1
      /\ lost => valid /\ ~clear_rx /\ ~pop
      /\ clear_tx \/ clear_rx
  BY DEF Moved
<1>r. r \in Seq(Byte)
  BY <1>0
<1>f. f \in Seq(Byte)
  BY <1>0
<1>t. t \in Seq(Byte)
  BY <1>0
<1>v. valid => f # << >> /\ Len(f) = 1
  <2>1. (valid => Len(f) = 1) /\ Len(<< >>) = 0
    BY <1>0
  <2> QED BY <2>1
\* The first of f has gone, and the first of r.
<1>1. PICK h : h \in Seq(Byte) /\ f = h \o f1 /\ f1 \in Seq(Byte)
  <2>1. \E g, s \in Seq(Byte) : f = g \o s /\ s = IF valid THEN Tail(f) ELSE f
    BY <1>f, <1>v, FirstOff
  <2>2. f1 = IF valid THEN Tail(f) ELSE f
    BY <1>0
  <2> QED BY <2>1, <2>2
<1>2. PICK g : g \in Seq(Byte) /\ r = g \o r1 /\ r1 \in Seq(Byte)
  <2>1. pop => r # << >>
    BY <1>0
  <2>2. \E e, s \in Seq(Byte) : r = e \o s /\ s = IF pop THEN Tail(r) ELSE r
    BY <1>r, <2>1, FirstOff
  <2>3. r1 = IF pop THEN Tail(r) ELSE r
    BY <1>0
  <2> QED BY <2>2, <2>3
<1>3. f2 \in Seq(Byte) /\ t1 \in Seq(Byte) /\ f2 \o t1 = f1 \o t
  <2>1. f1 \in Seq(Byte)
    BY <1>1
  <2>2. (f2 = f1 /\ t1 = t) \/ (t # << >> /\ f2 = Append(f1, Head(t)) /\ t1 = Tail(t))
    BY <1>0
  <2>3. Hands(f1, t, f2, t1)
    BY <1>t, <2>1, <2>2 DEF Hands
  <2> QED BY <2>3, OnlyHanded
<1>c. t2 = IF clear_tx THEN << >> ELSE t1
  BY <1>0
\* After a clear of the receive FIFO the stream begins on the line.
<1>4. CASE clear_rx
  <2>1. r2 = << >>
    BY <1>0, <1>4
  <2>2. r2 \o f2 = f2 /\ f2 \o << >> = f2
    BY <1>3, <2>1, Empties
  <2>3. /\ r \o h \in Seq(Byte) /\ f2 \o t1 \in Seq(Byte)
        /\ (r \o f) \o t = ((r \o h) \o (f2 \o t1)) \o << >>
        /\ (r \o f) \o t = ((r \o h) \o f2) \o t1
    <3>1. f1 \in Seq(Byte) /\ f = h \o f1 /\ h \in Seq(Byte)
      BY <1>1
    <3>3. Left(r, h, f1, f2, t, t1)
      BY <1>r, <1>t, <1>3, <3>1 DEF Left
    <3>2. Rest(r, h, f1, f2, t, t1)
      BY <3>3, LeftByFirst
    <3> QED BY <3>1, <3>2 DEF Rest
  <2>4. CASE clear_tx
    <3>1. (r2 \o f2) \o t2 = f2
      BY <1>c, <2>2, <2>4
    <3> QED BY <1>3, <2>3, <3>1 DEF Kept
  <2>5. CASE ~clear_tx
    <3>1. (r2 \o f2) \o t2 = f2 \o t1
      BY <1>c, <2>2, <2>5
    <3>2. << >> \in Seq(Byte)
      BY Empties
    <3> QED BY <2>3, <3>1, <3>2 DEF Kept
  <2> QED BY <2>4, <2>5
\* Without it, after a clear of the transmit FIFO, it ends there.
<1>5. CASE ~clear_rx /\ ~lost
  <2>1. t2 = << >>
    BY <1>0, <1>5
  <2>2. r2 \in Seq(Byte) /\ r2 \o f1 = r1 \o f
    <3>1. r1 \in Seq(Byte)
      BY <1>2
    <3>2. (r2 = r1 /\ f1 = f) \/ (f # << >> /\ r2 = Append(r1, Head(f)) /\ f1 = Tail(f))
      BY <1>0, <1>5, <1>v
    <3>3. Hands(r1, f, r2, f1)
      BY <1>f, <3>1, <3>2 DEF Hands
    <3> QED BY <3>3, OnlyHanded
  <2>3. ((g \o r1) \o f) \o t = (g \o (r2 \o f2)) \o t1
    <3>1. r1 \in Seq(Byte)
      BY <1>2
    <3>2. f1 \in Seq(Byte)
      BY <1>1
    <3>3. Through(r1, f, t, r2, f1, f2, t1)
      BY <1>f, <1>t, <1>3, <2>2, <3>1, <3>2 DEF Through
    <3>4. g \in Seq(Byte)
      BY <1>2
    <3>5. Same(g, r1, f, t, r2, f2, t1)
      BY <3>3, <3>4, HandedOn
    <3> QED BY <3>5 DEF Same
  <2>4. r2 \o f2 \in Seq(Byte)
    BY <1>3, <2>2, Joined
  <2>5. (r2 \o f2) \o t2 = r2 \o f2
    <3> DEFINE p == r2 \o f2
    <3>1. p \in Seq(Byte)
      BY <2>4
    <3> HIDE DEF p
    <3>2. p \o t2 = p
      BY <2>1, <3>1, Empties
    <3> QED BY <3>2 DEF p
  <2>6. r = g \o r1 /\ g \in Seq(Byte)
    BY <1>2
  <2>7. t1 \in Seq(Byte)
    BY <1>3
  <2> QED BY <2>3, <2>4, <2>5, <2>6, <2>7 DEF Kept
<1>6. CASE ~clear_rx /\ lost
  <2>1. r2 = r /\ t2 = << >> /\ f1 = Tail(f) /\ Len(f) = 1
    BY <1>0, <1>6
  <2>2. f1 = << >>
    BY <1>f, <1>v, <1>0, <1>6, HeadTailProperties, EmptySeq
  <2>3. f2 = << >>
    BY <1>0, <1>6, <2>2
  <2>4. (r2 \o f2) \o t2 = r
    BY <1>r, <2>1, <2>3, Empties
  <2>5. f \o t \in Seq(Byte) /\ (r \o f) \o t = r \o (f \o t)
    BY <1>r, <1>f, <1>t, Joined, Grouped
  <2>6. << >> \o r = r /\ << >> \in Seq(Byte)
    BY <1>r, Empties
  <2>7. (r \o f) \o t = (<< >> \o r) \o (f \o t)
    BY <2>5, <2>6
  <2> QED BY <1>r, <2>4, <2>5, <2>6, <2>7 DEF Kept
<1> QED BY <1>4, <1>5, <1>6

\* What ByteStream says of the bytes that were there already.
Stream(s, pop, lost, clear, rest) ==
  /\ clear => Trims(s, rest)
  /\ lost /\ ~clear => ~pop /\ \E i \in DOMAIN s : rest = Promise!RemoveAt(s, i)
  /\ ~lost /\ ~clear => (pop => s # << >>) /\ rest = IF pop THEN Tail(s) ELSE s

\* Whatever happens at an edge, ByteStream allows it.
LEMMA EdgeOfStream ==
  ASSUME NEW r, NEW f, NEW t, NEW r1, NEW f1, NEW t1, NEW r2, NEW f2, NEW t2,
         NEW pop, NEW valid, NEW lost, NEW clear_rx, NEW clear_tx,
         Moved(r, f, t, r1, f1, t1, r2, f2, t2, pop, valid, lost, clear_rx, clear_tx)
  PROVE  /\ r2 \in Seq(Byte) /\ f2 \in Seq(Byte) /\ t2 \in Seq(Byte)
         /\ Stream((r \o f) \o t, pop, lost, clear_tx \/ clear_rx, (r2 \o f2) \o t2)
<1> DEFINE s == (r \o f) \o t
           R == (r2 \o f2) \o t2
<1>m. Moved(r, f, t, r1, f1, t1, r2, f2, t2, pop, valid, lost, clear_rx, clear_tx)
  OBVIOUS
<1>r. r \in Seq(Byte)
  BY DEF Moved
<1>f. f \in Seq(Byte)
  BY DEF Moved
<1>t. t \in Seq(Byte)
  BY DEF Moved
<1>v. valid => f # << >> /\ Len(f) = 1
  <2>1. (valid => Len(f) = 1) /\ Len(<< >>) = 0
    BY DEF Moved
  <2> QED BY <2>1
<1>1. r1 \in Seq(Byte)
  <2>1. r1 = IF pop THEN Tail(r) ELSE r
    BY DEF Moved
  <2>2. pop => r # << >>
    BY DEF Moved
  <2>3. pop => Tail(r) \in Seq(Byte)
    BY <1>r, <2>2, Handed
  <2> QED BY <1>r, <2>1, <2>3
<1>2. f1 \in Seq(Byte)
  <2>1. f1 = IF valid THEN Tail(f) ELSE f
    BY DEF Moved
  <2>2. valid => Tail(f) \in Seq(Byte)
    BY <1>f, <1>v, Handed
  <2> QED BY <1>f, <2>1, <2>2
<1>3. f2 \in Seq(Byte) /\ t1 \in Seq(Byte) /\ f2 \o t1 = f1 \o t
  <2>1. Hands(f1, t, f2, t1)
    BY <1>t, <1>2 DEF Moved, Hands
  <2> QED BY <2>1, OnlyHanded
<1>4. r2 \in Seq(Byte)
  <2>1. valid => Append(r1, Head(f)) \in Seq(Byte)
    BY <1>f, <1>v, <1>1, Handed
  <2>2. r2 = IF clear_rx THEN << >> ELSE IF valid /\ ~lost THEN Append(r1, Head(f)) ELSE r1
    BY DEF Moved
  <2>3. << >> \in Seq(Byte)
    BY Empties
  <2> QED BY <1>1, <2>1, <2>2, <2>3
<1>5. t2 \in Seq(Byte)
  <2>1. t2 = IF clear_tx THEN << >> ELSE t1
    BY DEF Moved
  <2>2. << >> \in Seq(Byte)
    BY Empties
  <2> QED BY <1>3, <2>1, <2>2
<1>6. ASSUME clear_tx \/ clear_rx PROVE Trims(s, R)
  BY <1>m, <1>6, LeftByClear, Between
<1>7. ASSUME lost, ~(clear_tx \/ clear_rx)
      PROVE  ~pop /\ \E i \in DOMAIN s : R = Promise!RemoveAt(s, i)
  <2>1. r2 = r /\ t2 = t /\ f2 = Tail(f) /\ valid
    BY <1>7 DEF Moved
  <2>2. Tail(f) = << >> /\ f = << Head(f) >> /\ Head(f) \in Byte
    BY <1>f, <1>v, <2>1, HeadTailProperties, EmptySeq
  <2>3. R = r \o t
    <3>1. r2 \o f2 = r
      BY <1>r, <2>1, <2>2, Empties
    <3> QED BY <2>1, <3>1
  <2>4. /\ Len(r) + 1 \in DOMAIN ((r \o << Head(f) >>) \o t)
        /\ Promise!RemoveAt((r \o << Head(f) >>) \o t, Len(r) + 1) = r \o t
    BY <1>r, <1>t, <2>2, Gone
  <2>5. ~pop
    BY <1>7 DEF Moved
  <2> QED BY <2>2, <2>3, <2>4, <2>5
<1>8. ASSUME ~lost, ~(clear_tx \/ clear_rx)
      PROVE  (pop => s # << >>) /\ R = IF pop THEN Tail(s) ELSE s
  <2>1. t2 = t1
    BY <1>8 DEF Moved
  <2>2. r2 \o f1 = r1 \o f
    <3>1. Hands(r1, f, r2, f1)
      BY <1>f, <1>v, <1>1, <1>8 DEF Moved, Hands
    <3> QED BY <3>1, OnlyHanded
  <2>3. R = (r1 \o f) \o t
    <3>1. Through(r1, f, t, r2, f1, f2, t1)
      BY <1>f, <1>t, <1>1, <1>2, <1>3, <1>4, <2>2 DEF Through
    <3>2. << >> \in Seq(Byte)
      BY Empties
    <3>3. Same(<< >>, r1, f, t, r2, f2, t1)
      BY <3>1, <3>2, HandedOn
    <3>4. << >> \o r1 = r1
      BY <1>1, Empties
    <3>5. << >> \o (r2 \o f2) = r2 \o f2
      <4> DEFINE p == r2 \o f2
      <4>1. p \in Seq(Byte)
        BY <1>3, <1>4, Joined
      <4> HIDE DEF p
      <4>2. << >> \o p = p
        BY <4>1, Empties
      <4> QED BY <4>2 DEF p
    <3> QED BY <2>1, <3>3, <3>4, <3>5 DEF Same
  <2>4. CASE pop
    <3>1. r1 = Tail(r) /\ r # << >>
      BY <2>4 DEF Moved
    <3>2. r \o f # << >> /\ Tail(r \o f) = Tail(r) \o f
      BY <1>r, <1>f, <3>1, TailOfFirst
    <3> DEFINE p == r \o f
    <3>3. p \in Seq(Byte)
      BY <1>r, <1>f, Joined
    <3>4. p # << >>
      BY <3>2
    <3>5. p \o t # << >> /\ Tail(p \o t) = Tail(p) \o t
      <4> HIDE DEF p
      <4> QED BY <1>t, <3>3, <3>4, TailOfFirst
    <3> QED BY <2>3, <2>4, <3>1, <3>2, <3>5
  <2>5. CASE ~pop
    <3>1. r1 = r
      BY <2>5 DEF Moved
    <3> QED BY <2>3, <2>5, <3>1
  <2> QED BY <2>4, <2>5
<1> HIDE DEF s, R
<1>9. Stream(s, pop, lost, clear_tx \/ clear_rx, R)
  BY <1>6, <1>7, <1>8 DEF Stream
<1> QED BY <1>3, <1>4, <1>5, <1>9 DEF s, R

-----------------------------------------------------------------------------
(* One edge of the core is one edge of the stream.                          *)

\* What a pop and a launch leave in the FIFOs, and what clear_tx then leaves.
RxRest(in) == IF rxq # << >> /\ in.rx_ready THEN Tail(Datas(rxq)) ELSE Datas(rxq)
TxRest(in) == IF tx_start(cfg) THEN Tail(Cuts(txq)) ELSE Cuts(txq)

\* The receive FIFO does as Moved says, ...
LEMMA RxFifoMoves ==
  ASSUME CoreInv, NEW in, rx.char_valid => flight = << rx.data >> /\ rx.errors = Rx!NoErrors,
         RxFifo!Edge(in.clear_rx, rx_push_valid(in), Rx!Record, in.rx_ready)
  PROVE  Datas(rxq') = IF in.clear_rx THEN << >>
                       ELSE IF rx.char_valid /\ ~event_rx_overrun(in) THEN Append(RxRest(in), Head(flight))
                       ELSE RxRest(in)
<1> DEFINE rest == IF rxq # << >> /\ in.rx_ready THEN Tail(rxq) ELSE rxq
<1>1. rxq \in Seq(Records)
  BY DEF CoreInv
<1>2. rest \in Seq(Records)
  <2>1. rxq # << >> => Tail(rxq) \in Seq(Records)
    BY <1>1, HeadTailProperties
  <2> QED BY <1>1, <2>1
<1>3. Datas(rest) = RxRest(in)
  <2>1. rxq # << >> => Datas(Tail(rxq)) = Tail(Datas(rxq))
    BY <1>1, DatasMoves
  <2> QED BY <2>1 DEF RxRest
<1>4. rx.char_valid => Rx!Record \in Records /\ Rx!Record.data = Head(flight)
  <2>1. rx.data \in Byte
    BY DEF CoreInv, Link!RxInv, Link!RxTypeOK, Link!Byte, Byte, Link!Bit, Bit
  <2>2. Rx!NoErrors \in [frame_error : BOOLEAN, parity_error : BOOLEAN, break_detect : BOOLEAN]
    BY DEF Rx!NoErrors
  <2> QED BY <2>1, <2>2 DEF Rx!Record, Records
<1>5. rxq' = IF in.clear_rx THEN << >>
             ELSE IF rx.char_valid /\ ~event_rx_overrun(in) THEN Append(rest, Rx!Record) ELSE rest
  BY DEF RxFifo!Edge, RxFifo!Rest, RxFifo!PopFire, rx_push_valid, event_rx_overrun
<1> HIDE DEF rest
<1>6. Datas(<< >>) = << >>
  <2>1. << >> \in Seq(Records)
    OBVIOUS
  <2> QED BY <2>1, DatasTypes
<1>7. rx.char_valid => Datas(Append(rest, Rx!Record)) = Append(RxRest(in), Head(flight))
  BY <1>2, <1>3, <1>4, DatasMoves
<1> QED BY <1>3, <1>5, <1>6, <1>7

\* ... the transmit FIFO too, after which it takes in a byte, ...
LEMMA TxFifoMoves ==
  ASSUME SendInv, NEW in, in.tx_data \in Bytes,
         TxFifo!Edge(in.clear_tx, in.tx_valid /\ ~in.clear_tx, in.tx_data, tx_start(cfg))
  PROVE  LET left == IF in.clear_tx THEN << >> ELSE TxRest(in)
         IN  Cuts(txq') = IF in.tx_valid /\ tx_byte_ready(cfg, in) THEN Append(left, Cut(in.tx_data)) ELSE left
<1> DEFINE rest == IF tx_start(cfg) THEN Tail(txq) ELSE txq
<1>1. txq \in Seq(Bytes) /\ (tx_start(cfg) => txq # << >>)
  BY LaunchFacts DEF SendInv
<1>2. rest \in Seq(Bytes)
  <2>1. txq # << >> => Tail(txq) \in Seq(Bytes)
    BY <1>1, HeadTailProperties
  <2> QED BY <1>1, <2>1
<1>3. Cuts(rest) = TxRest(in)
  <2>1. txq # << >> => Cuts(Tail(txq)) = Tail(Cuts(txq))
    BY <1>1, CutsMoves
  <2> QED BY <1>1, <2>1 DEF TxRest
<1>4. txq' = IF in.clear_tx THEN << >>
             ELSE IF in.tx_valid /\ tx_byte_ready(cfg, in) THEN Append(rest, in.tx_data) ELSE rest
  BY <1>1 DEF TxFifo!Edge, TxFifo!Rest, TxFifo!PopFire, tx_byte_ready
<1> HIDE DEF rest
<1>5. Cuts(<< >>) = << >>
  <2>1. << >> \in Seq(Bytes)
    OBVIOUS
  <2> QED BY <2>1, CutsTypes
<1>6. Cuts(Append(rest, in.tx_data)) = Append(TxRest(in), Cut(in.tx_data))
  BY <1>2, <1>3, CutsMoves
<1>7. tx_byte_ready(cfg, in) => ~in.clear_tx
  BY DEF tx_byte_ready
<1> QED BY <1>3, <1>4, <1>5, <1>6, <1>7

\* ... and so does the core.
LEMMA StreamClock == ASSUME CoreInv, Clock, OVERSAMPLE >= 8 PROVE Promise!StreamNext
<1>1. PICK in \in Inputs :
        /\ CoreEdge(cfg, Inc, in)
        /\ seen' = [accept  |-> in.tx_valid /\ tx_byte_ready(cfg, in),
                    pop     |-> rxq # << >> /\ in.rx_ready,
                    clear   |-> in.clear_tx \/ in.clear_rx,
                    overrun |-> event_rx_overrun(in),
                    launch  |-> tx_start(cfg)]
  BY DEF Clock
<1> DEFINE r  == Datas(rxq)
           f  == flight
           t  == Cuts(txq)
           pop    == rxq # << >> /\ in.rx_ready
           lost   == event_rx_overrun(in)
           accept == in.tx_valid /\ tx_byte_ready(cfg, in)
           r1 == RxRest(in)
           f1 == IF rx.char_valid THEN Tail(f) ELSE f
           t1 == TxRest(in)
           r2 == Datas(rxq')
           f2 == flight'
           t2 == IF in.clear_tx THEN << >> ELSE t1
           s  == (r \o f) \o t
           R  == (r2 \o f2) \o t2
           t3 == Cuts(txq')
           s3 == (r2 \o f2) \o t3
<1>2. /\ SendInv /\ rxq \in Seq(Records) /\ txq \in Seq(Bytes) /\ flight \in Seq(Byte)
      /\ rx.char_valid \in BOOLEAN
  BY DEF CoreInv, SendInv, Link!RxInv, Link!RxTypeOK
<1>3. /\ in.tx_data \in Bytes /\ in.tx_valid \in BOOLEAN /\ in.rx_ready \in BOOLEAN
      /\ in.clear_tx \in BOOLEAN /\ in.clear_rx \in BOOLEAN
  <2>1. setup.clears \subseteq BOOLEAN /\ Sends[turn] \in Bytes
    BY <1>2, LoopAssumption, ElementOfSeq DEF SendInv
  <2> QED BY <1>1, <2>1 DEF Inputs
<1>4. /\ rx.char_valid => flight = << rx.data >> /\ rx.errors = Rx!NoErrors
      /\ tx_start(cfg) => ~rx.char_valid
  BY ReceiveStep
<1>5. /\ cfg' = cfg
      /\ flight' = IF tx_start(cfg) THEN Append(Received, Masked(tx_data, decode_data_bits(cfg.data_bits)))
                   ELSE Received
  BY EdgeOfLink
<1>6. r2 = IF in.clear_rx THEN << >> ELSE IF rx.char_valid /\ ~lost THEN Append(r1, Head(f)) ELSE r1
  BY <1>1, <1>4, RxFifoMoves DEF CoreEdge
<1>7. t3 = IF accept THEN Append(t2, Cut(in.tx_data)) ELSE t2
  BY <1>1, <1>2, <1>3, TxFifoMoves DEF CoreEdge
<1>8. Moved(r, f, t, r1, f1, t1, r2, f2, t2, pop, rx.char_valid, lost, in.clear_rx, in.clear_tx)
  <2>1. r \in Seq(Byte) /\ f \in Seq(Byte) /\ t \in Seq(Byte) /\ (pop => r # << >>)
    BY <1>2, DatasTypes, CutsTypes
  <2>2. rx.char_valid => Len(f) = 1
    BY <1>4
  <2>3. tx_start(cfg) => t # << >> /\ Masked(tx_data, decode_data_bits(cfg.data_bits)) = Head(t)
    <3>1. tx_start(cfg) => txq # << >> /\ tx_data = Head(txq)
      BY <1>2, LaunchFacts
    <3> QED BY <1>2, <3>1, CutsMoves DEF Cut
  <2>4. \/ f2 = f1 /\ t1 = t
        \/ ~rx.char_valid /\ t # << >> /\ f2 = Append(f1, Head(t)) /\ t1 = Tail(t)
    <3>1. Received = f1
      BY DEF Received
    <3>4. t1 = IF tx_start(cfg) THEN Tail(t) ELSE t
      BY DEF TxRest
    <3> HIDE DEF f1, t, t1
    <3>2. CASE tx_start(cfg)
      BY <1>4, <1>5, <2>3, <3>1, <3>2, <3>4
    <3>3. CASE ~tx_start(cfg)
      BY <1>5, <3>1, <3>3, <3>4
    <3> QED BY <3>2, <3>3
  <2>5. lost => rx.char_valid /\ ~in.clear_rx /\ ~pop
    BY DEF event_rx_overrun, RxFifo!PushReady, RxFifo!PopFire
  <2>6. r1 = IF pop THEN Tail(r) ELSE r
    BY DEF RxRest
  <2>7. t2 = IF in.clear_tx THEN << >> ELSE t1
    OBVIOUS
  <2>8. {pop, rx.char_valid, lost, in.clear_rx, in.clear_tx} \subseteq BOOLEAN
    BY <1>2, <1>3 DEF event_rx_overrun
  <2>9. f1 = IF rx.char_valid THEN Tail(f) ELSE f
    OBVIOUS
  <2> HIDE DEF r, f, t, pop, lost, r1, t1, f1, r2, f2, t2
  <2> QED BY <1>6, <2>1, <2>2, <2>4, <2>5, <2>6, <2>7, <2>8, <2>9 DEF Moved
<1>9. Cut(in.tx_data) \in Byte
  BY <1>2, <1>3, CutIsByte
<1>10. Pipeline = s /\ Pipeline' = s3
  BY <1>5 DEF Pipeline, Datas, Cuts, Cut
<1>11. pop \in BOOLEAN /\ lost \in BOOLEAN /\ accept \in BOOLEAN
  BY DEF event_rx_overrun
<1>12. /\ seen'.accept = accept /\ seen'.pop = pop /\ seen'.overrun = lost
       /\ seen'.clear = (in.clear_tx \/ in.clear_rx)
  BY <1>1
<1> HIDE DEF r, f, t, pop, lost, accept, r1, f1, t1, r2, f2, t2, t3
<1> DEFINE clear == in.clear_tx \/ in.clear_rx
<1>13. /\ r2 \in Seq(Byte) /\ f2 \in Seq(Byte) /\ t2 \in Seq(Byte)
       /\ Stream(s, pop, lost, clear, R)
  BY <1>8, EdgeOfStream
<1>14. Follows(R, accept, s3)
  <2>1. Takes(r2, f2, t2, t3, accept)
    BY <1>7, <1>9, <1>11, <1>13 DEF Takes
  <2> QED BY <2>1, TakenIn
<1> HIDE DEF s, R, s3
<1>16. Promise!Becomes(R)
  BY <1>10, <1>12, <1>14 DEF Promise!Becomes, Follows
<1>17. clear \in BOOLEAN
  BY <1>3
<1> HIDE DEF clear
<1>18. {seen'.accept, seen'.pop, seen'.overrun, seen'.clear} \subseteq BOOLEAN
  BY <1>11, <1>12, <1>17 DEF clear
<1>19. CASE clear
  <2>1. Promise!Clears
    BY <1>10, <1>13, <1>16, <1>19 DEF Stream, Trims, Promise!Clears
  <2> QED BY <1>12, <1>18, <1>19, <2>1 DEF clear, Promise!StreamNext
<1>20. CASE ~clear /\ lost
  <2>1. Promise!Loses
    BY <1>10, <1>12, <1>13, <1>16, <1>20 DEF Stream, Promise!Loses
  <2> QED BY <1>12, <1>18, <1>20, <2>1 DEF clear, Promise!StreamNext
<1>21. CASE ~clear /\ ~lost
  <2>1. Promise!Moves
    BY <1>10, <1>12, <1>13, <1>16, <1>21 DEF Stream, Promise!Moves
  <2> QED BY <1>12, <1>18, <1>21, <2>1 DEF clear, Promise!StreamNext
<1> QED BY <1>17, <1>19, <1>20, <1>21

\* uart_core.sv:201-259 with the two FIFOs, the transmitter and the receiver: the bytes go through the
\* whole core in order and once, one is lost exactly when event_rx_overrun says so, and a clear
\* takes bytes from the ends only, never the character on the line, whatever is offered, popped and
\* cleared, with flow control or without.  (OVERSAMPLE >= 8 is what CharactersLoopBack needs.)
THEOREM BytesAreAStream == ASSUME OVERSAMPLE >= 8 PROVE Spec => ImplementsByteStream
<1>1. Init => Promise!StreamInit
  <2> SUFFICES ASSUME Init PROVE Promise!StreamInit
    OBVIOUS
  <2>1. /\ rxq = << >> /\ txq = << >> /\ flight = << >>
        /\ ~seen.accept /\ ~seen.pop /\ ~seen.overrun /\ ~seen.clear
    BY DEF Init, CoreReset, RxFifo!QueueInit, TxFifo!QueueInit
  <2>2. SendInv
    BY SendInit
  <2>3. Datas(<< >>) = << >> /\ Cuts(<< >>) = << >>
    <3>1. << >> \in Seq(Records) /\ << >> \in Seq(Bytes)
      OBVIOUS
    <3> QED BY <2>2, <3>1, DatasTypes, CutsTypes
  <2>4. Pipeline = (Datas(rxq) \o flight) \o Cuts(txq)
    BY DEF Pipeline, Datas, Cuts
  <2>5. Pipeline = << >>
    BY <2>1, <2>3, <2>4, Empties
  <2> QED BY <2>1, <2>5 DEF Promise!StreamInit
<1>2. CoreInv /\ [Next]_vars =>
        \/ Promise!StreamNext
        \/ UNCHANGED << Pipeline, seen.accept, seen.pop, seen.overrun, seen.clear >>
  <2> SUFFICES ASSUME CoreInv, [Next]_vars
               PROVE  \/ Promise!StreamNext
                      \/ UNCHANGED << Pipeline, seen.accept, seen.pop, seen.overrun, seen.clear >>
    OBVIOUS
  <2>1. CASE Clock
    BY <2>1, StreamClock
  <2>2. CASE CtsChanges \/ UNCHANGED vars
    <3>1. UNCHANGED << rxq, flight, txq, seen >> /\ cfg' = cfg
      BY <2>2 DEF CtsChanges, vars, core, cfg
    <3> QED BY <3>1 DEF Pipeline, Cut
  <2> QED BY <2>1, <2>2 DEF Next
<1> QED BY <1>1, <1>2, CoreInvariance, PTL DEF Spec, ImplementsByteStream, Promise!StreamSpec

-----------------------------------------------------------------------------
(* The FIFO that the core takes as a bounded queue, for any depth of it.    *)
(* The invariant is its type and the agreement of its pointers; the         *)
(* refinement compares the two queues item by item.                         *)
FifoInv == FifoTypeOK /\ Consistent

Words == Items \cup {NoWord}

-----------------------------------------------------------------------------
(* Arithmetic of the pointers.                                              *)

\* In range, the width of a pointer does not matter.
LEMMA NextPtrFacts ==
  ASSUME NEW p \in 0 .. Depth - 1
  PROVE  NextPtr(p) = IF p = Depth - 1 THEN 0 ELSE p + 1
BY ParamAssumption DEF NextPtr, CountUp

\* Nor does the width of the level.
LEMMA NextLevelFacts ==
  ASSUME FifoInv, NEW push \in BOOLEAN, NEW pop \in BOOLEAN,
         pop => level_q > 0, push /\ ~pop => level_q < Depth
  PROVE  NextLevel(push, pop) = level_q + (IF push THEN 1 ELSE 0) - (IF pop THEN 1 ELSE 0)
BY ParamAssumption DEF NextLevel, CountUp, CountDown, FifoInv, FifoTypeOK

\* Slots are words of the memory, different items are in different slots, and
\* the slots of the items that stay do not move when the oldest is popped.
LEMMA SlotFacts ==
  ASSUME NEW r \in 0 .. Depth - 1
  PROVE  /\ \A i \in 1 .. Depth + 1 : Slot(r, i) \in 0 .. Depth - 1
         /\ \A i, j \in 1 .. Depth : Slot(r, i) = Slot(r, j) => i = j
         /\ Slot(r, 1) = r
         /\ Slot(r, Depth + 1) = r
         /\ \A i \in 1 .. Depth : Slot(r, i + 1) = NextPtr(Slot(r, i))
         /\ \A i \in 1 .. Depth : Slot(NextPtr(r), i) = Slot(r, i + 1)
BY ParamAssumption, NextPtrFacts DEF Slot

-----------------------------------------------------------------------------
LEMMA FifoInitInv == FifoInit => FifoInv
BY ParamAssumption DEF FifoInit, FifoInv, FifoTypeOK, Consistent, Slot

\* What one edge that does not clear does to the queue, slot by slot: the
\* items that stay move up by the number of items popped.
LEMMA MoveFacts ==
  ASSUME FifoInv, NEW push_valid \in BOOLEAN, NEW push_data \in Items,
         NEW pop_ready \in BOOLEAN, Move(push_valid, push_data, pop_ready),
         NEW push, push = push_fire(push_valid, pop_ready),
         NEW pop, pop = pop_fire(pop_ready),
         NEW k, k = IF pop THEN 1 ELSE 0
  PROVE  /\ FifoInv'
         /\ push \in BOOLEAN /\ pop \in BOOLEAN /\ (pop => level_q > 0)
         /\ level_q' = level_q - k + (IF push THEN 1 ELSE 0)
         /\ \A i \in 1 .. level_q - k :
              mem_q'[Slot(rd_ptr_q', i)] = mem_q[Slot(rd_ptr_q, i + k)]
         /\ push => mem_q'[Slot(rd_ptr_q', level_q')] = push_data
<1>1. /\ push \in BOOLEAN /\ pop \in BOOLEAN
      /\ pop => level_q > 0
      /\ push /\ ~pop => level_q < Depth
  <2>1. push \in BOOLEAN /\ pop \in BOOLEAN
    BY DEF push_fire, pop_fire
  <2>2. pop => level_q # 0
    BY DEF pop_fire, pop_valid, empty
  <2>3. push /\ ~pop => level_q # Depth
    BY DEF push_fire, push_ready, full
  <2>4. QED
    BY <2>1, <2>2, <2>3, ParamAssumption DEF FifoInv, FifoTypeOK
<1>2. /\ mem_q' = IF push THEN [mem_q EXCEPT ![wr_ptr_q] = push_data] ELSE mem_q
      /\ wr_ptr_q' = IF push THEN NextPtr(wr_ptr_q) ELSE wr_ptr_q
      /\ rd_ptr_q' = IF pop THEN NextPtr(rd_ptr_q) ELSE rd_ptr_q
      /\ level_q' = NextLevel(push, pop)
  BY DEF Move
<1>3. /\ level_q' = level_q - k + (IF push THEN 1 ELSE 0)
      /\ level_q' \in 0 .. Depth
      /\ level_q - k \in 0 .. Depth
  <2>1. level_q \in 0 .. Depth
    BY DEF FifoInv, FifoTypeOK
  <2>2. level_q' = level_q + (IF push THEN 1 ELSE 0) - (IF pop THEN 1 ELSE 0)
    BY <1>1, <1>2, NextLevelFacts
  <2>3. QED
    BY <1>1, <2>1, <2>2, ParamAssumption
<1>4. /\ rd_ptr_q \in 0 .. Depth - 1 /\ rd_ptr_q' \in 0 .. Depth - 1
      /\ wr_ptr_q \in 0 .. Depth - 1 /\ wr_ptr_q' \in 0 .. Depth - 1
  BY <1>1, <1>2, NextPtrFacts, ParamAssumption DEF FifoInv, FifoTypeOK
<1>5. FifoTypeOK'
  BY <1>1, <1>2, <1>3, <1>4 DEF FifoInv, FifoTypeOK
<1>6. \A i \in 1 .. Depth : Slot(rd_ptr_q', i) = Slot(rd_ptr_q, i + k)
  BY <1>1, <1>2, <1>4, SlotFacts
<1>7. level_q \in 0 .. Depth /\ wr_ptr_q = Slot(rd_ptr_q, level_q + 1)
  BY DEF FifoInv, Consistent, FifoTypeOK
<1>8. wr_ptr_q' = Slot(rd_ptr_q', level_q' + 1)
  <2>1. CASE push /\ pop
    BY <1>1, <1>2, <1>3, <1>4, <1>7, <2>1, SlotFacts, ParamAssumption
  <2>2. CASE push /\ ~pop
    BY <1>1, <1>2, <1>3, <1>4, <1>7, <2>2, SlotFacts, ParamAssumption
  <2>3. CASE ~push /\ pop
    BY <1>1, <1>2, <1>3, <1>4, <1>7, <2>3, SlotFacts, ParamAssumption
  <2>4. CASE ~push /\ ~pop
    BY <1>1, <1>2, <1>3, <1>7, <2>4
  <2>5. QED
    BY <1>1, <2>1, <2>2, <2>3, <2>4
<1>9. \A i \in 1 .. level_q - k :
        mem_q'[Slot(rd_ptr_q', i)] = mem_q[Slot(rd_ptr_q, i + k)]
  <2> SUFFICES ASSUME NEW i \in 1 .. level_q - k
               PROVE  mem_q'[Slot(rd_ptr_q', i)] = mem_q[Slot(rd_ptr_q, i + k)]
    OBVIOUS
  <2>1. i \in 1 .. Depth /\ i + k \in 1 .. level_q /\ i + k \in 1 .. Depth
    BY <1>1, <1>3, <1>7, ParamAssumption
  <2>2. Slot(rd_ptr_q', i) = Slot(rd_ptr_q, i + k) /\ Slot(rd_ptr_q, i + k) \in 0 .. Depth - 1
    BY <1>4, <1>6, <2>1, SlotFacts, ParamAssumption
  <2>3. CASE push
    <3>1. k = 0 => level_q + 1 \in 1 .. Depth
      BY <1>1, <1>7, <2>3, ParamAssumption
    <3>2. Slot(rd_ptr_q, i + k) # wr_ptr_q
      <4>1. CASE level_q + 1 \in 1 .. Depth
        BY <1>4, <1>7, <2>1, <4>1, SlotFacts
      <4>2. CASE level_q + 1 \notin 1 .. Depth
        <5>1. level_q = Depth /\ k = 1
          BY <1>1, <1>7, <3>1, <4>2, ParamAssumption
        <5>3. wr_ptr_q = Slot(rd_ptr_q, 1)
          BY <1>4, <1>7, <5>1, SlotFacts
        <5>4. QED
          BY <1>4, <2>1, <5>1, <5>3, SlotFacts, ParamAssumption
      <4>3. QED
        BY <4>1, <4>2
    <3>3. QED
      BY <1>2, <2>2, <2>3, <3>2 DEF FifoInv, FifoTypeOK
  <2>4. CASE ~push
    BY <1>2, <2>2, <2>4
  <2>5. QED
    BY <1>1, <2>3, <2>4
<1>10. push => mem_q'[Slot(rd_ptr_q', level_q')] = push_data
  <2>1. ASSUME push PROVE Slot(rd_ptr_q', level_q') = wr_ptr_q
    BY <1>1, <1>3, <1>6, <1>7, <2>1
  <2>2. QED
    BY <1>2, <1>4, <2>1 DEF FifoInv, FifoTypeOK
<1>11. \A i \in 1 .. level_q' : mem_q'[Slot(rd_ptr_q', i)] \in Items
  <2> SUFFICES ASSUME NEW i \in 1 .. level_q' PROVE mem_q'[Slot(rd_ptr_q', i)] \in Items
    OBVIOUS
  <2>1. CASE i \in 1 .. level_q - k
    <3>1. i + k \in 1 .. level_q
      BY <1>1, <1>7, <2>1
    <3>2. QED
      BY <1>9, <2>1, <3>1 DEF FifoInv, Consistent
  <2>2. CASE i \notin 1 .. level_q - k
    <3>1. push /\ i = level_q'
      BY <1>1, <1>3, <1>7, <2>2
    <3>2. QED
      BY <1>10, <3>1
  <2>3. QED
    BY <2>1, <2>2
<1>12. FifoInv'
  BY <1>5, <1>8, <1>11 DEF FifoInv, Consistent
<1>13. QED
  BY <1>1, <1>3, <1>9, <1>10, <1>12

\* Every clock edge keeps the invariant.
LEMMA FifoNextInv == FifoInv /\ [FifoNext]_fifo_vars => FifoInv'
<1> SUFFICES ASSUME FifoInv, [FifoNext]_fifo_vars PROVE FifoInv'
  OBVIOUS
<1>1. CASE UNCHANGED fifo_vars
  BY <1>1 DEF fifo_vars, FifoInv, FifoTypeOK, Consistent
<1>2. ASSUME NEW clear \in BOOLEAN, NEW push_valid \in BOOLEAN, NEW pop_ready \in BOOLEAN,
             NEW push_data \in Items, Edge(clear, push_valid, push_data, pop_ready)
      PROVE  FifoInv'
  <2>1. CASE clear
    BY <1>2, <2>1, ParamAssumption DEF Edge, Clear, FifoInv, FifoTypeOK, Consistent, Slot
  <2>2. CASE ~clear
    BY <1>2, <2>2, MoveFacts DEF Edge
  <2>3. QED
    BY <2>1, <2>2
<1>3. QED
  BY <1>1, <1>2 DEF FifoNext

THEOREM FifoInvariance == FifoSpec => []FifoInv
<1>1. FifoInit => FifoInv
  BY FifoInitInv
<1>2. FifoInv /\ [FifoNext]_fifo_vars => FifoInv'
  BY FifoNextInv
<1>3. QED
  BY <1>1, <1>2, PTL DEF FifoSpec

\* The level stays within the depth and the pointers within the memory.
THEOREM FifoTypeCorrect == FifoSpec => []FifoTypeOK
<1>1. FifoInv => FifoTypeOK
  BY DEF FifoInv
<1>2. QED
  BY <1>1, FifoInvariance, PTL

\* Nothing unknown is popped and nothing unread is overwritten.
THEOREM FifoNeverInconsistent == FifoSpec => []Consistent
<1>1. FifoInv => Consistent
  BY DEF FifoInv
<1>2. QED
  BY <1>1, FifoInvariance, PTL

-----------------------------------------------------------------------------
(* The refinement.                                                          *)

\* The memory read as a sequence.
LEMMA ContentsFacts ==
  ASSUME FifoInv
  PROVE  /\ Contents \in Seq(Words)
         /\ Len(Contents) = level_q /\ level_q \in 0 .. Depth
         /\ \A i \in 1 .. level_q : Contents[i] = mem_q[Slot(rd_ptr_q, i)]
         /\ Contents = << >> <=> level_q = 0
         /\ level_q # 0 => Head(Contents) = pop_data
<1>1. level_q \in 0 .. Depth /\ Depth \in Nat /\ rd_ptr_q \in 0 .. Depth - 1
  BY ParamAssumption DEF FifoInv, FifoTypeOK
<1>2. \A i \in 1 .. level_q : mem_q[Slot(rd_ptr_q, i)] \in Words
  BY DEF FifoInv, Consistent, Words
<1>3. /\ Contents \in Seq(Words)
      /\ Len(Contents) = level_q
      /\ \A i \in 1 .. level_q : Contents[i] = mem_q[Slot(rd_ptr_q, i)]
  <2>1. level_q \in Nat
    BY <1>1
  <2>2. QED
    BY <1>2, <2>1 DEF Contents
<1>4. Contents = << >> <=> level_q = 0
  BY <1>1, <1>3
<1>5. level_q # 0 => Head(Contents) = pop_data
  <2>1. ASSUME level_q # 0 PROVE Head(Contents) = Contents[1] /\ 1 \in 1 .. level_q
    BY <1>1, <1>3, <1>4, <2>1
  <2>2. QED
    BY <1>1, <1>3, <2>1, SlotFacts DEF pop_data
<1>6. QED
  BY <1>1, <1>3, <1>4, <1>5

\* Two sequences with the same items are equal.
LEMMA SameQueue ==
  ASSUME FifoInv', NEW s \in Seq(Words), Len(s) = level_q',
         \A i \in 1 .. level_q' : s[i] = mem_q'[Slot(rd_ptr_q', i)]
  PROVE  Contents' = s
<1>1. level_q' \in Nat /\ \A i \in 1 .. level_q' : mem_q'[Slot(rd_ptr_q', i)] \in Words
  BY ParamAssumption DEF FifoInv, FifoTypeOK, Consistent, Words
<1>2. Contents' = [i \in 1 .. level_q' |-> mem_q'[Slot(rd_ptr_q', i)]]
  BY DEF Contents
<1>3. /\ Contents' \in Seq(Words) /\ Len(Contents') = level_q'
      /\ \A i \in 1 .. level_q' : Contents'[i] = mem_q'[Slot(rd_ptr_q', i)]
  BY <1>1, <1>2
<1>4. QED
  BY <1>3, SeqEqual

\* A clock edge of the FIFO is one of the queue.
LEMMA EdgeRefines ==
  ASSUME FifoInv, NEW clear \in BOOLEAN, NEW push_valid \in BOOLEAN, NEW push_data \in Items,
         NEW pop_ready \in BOOLEAN, Edge(clear, push_valid, push_data, pop_ready), FifoInv'
  PROVE  Queue!Edge(clear, push_valid, push_data, pop_ready)
<1> DEFINE push == push_fire(push_valid, pop_ready)
           pop  == pop_fire(pop_ready)
           s    == Contents
           rest == IF pop THEN Tail(s) ELSE s
           k    == IF pop THEN 1 ELSE 0
<1>1. /\ s \in Seq(Words) /\ Len(s) = level_q /\ level_q \in 0 .. Depth
      /\ \A i \in 1 .. level_q : s[i] = mem_q[Slot(rd_ptr_q, i)]
      /\ s = << >> <=> level_q = 0
      /\ level_q # 0 => Head(s) = pop_data
  BY ContentsFacts
<1>2. pop_fire(pop_ready) <=> Queue!PopFire(pop_ready)
  BY <1>1 DEF pop_fire, pop_valid, empty, Queue!PopFire
<1>3. push_ready(pop_ready) <=> Queue!PushReady(pop_ready)
  BY <1>1, <1>2, ParamAssumption DEF push_ready, full, Queue!PushReady
<1>4. io' = Queue!Signals(clear, push_valid, push_data, pop_ready)
  <2>1. io' = Signals(clear, push_valid, push_data, pop_ready)
    BY DEF Edge
  <2>2. push_ready(pop_ready) = Queue!PushReady(pop_ready)
    BY <1>3 DEF push_ready, Queue!PushReady, full, pop_fire, Queue!PopFire
  <2>3. pop_valid = (s # << >>)
    BY <1>1 DEF pop_valid, empty
  <2>4. (IF pop_valid THEN pop_data ELSE NoWord) = (IF s = << >> THEN NoWord ELSE Head(s))
    BY <1>1 DEF pop_valid, empty
  <2>5. QED
    BY <2>1, <2>2, <2>3, <2>4 DEF Signals, Queue!Signals
<1>5. CASE clear
  <2>1. level_q' = 0
    BY <1>5 DEF Edge, Clear
  <2>2. Contents' = << >>
    <3>1. << >> \in Seq(Words) /\ Len(<< >>) = 0 /\ 1 .. level_q' = {}
      BY <2>1
    <3>2. QED
      BY <2>1, <3>1, SameQueue
  <2>3. QED
    BY <1>4, <1>5, <2>2 DEF Queue!Edge
<1>6. CASE ~clear
  <2>1. Move(push_valid, push_data, pop_ready)
    BY <1>6 DEF Edge
  <2>2. /\ push \in BOOLEAN /\ pop \in BOOLEAN /\ (pop => level_q > 0)
        /\ level_q' = level_q - k + (IF push THEN 1 ELSE 0)
        /\ \A i \in 1 .. level_q - k :
             mem_q'[Slot(rd_ptr_q', i)] = mem_q[Slot(rd_ptr_q, i + k)]
        /\ push => mem_q'[Slot(rd_ptr_q', level_q')] = push_data
    BY <2>1, MoveFacts
  <2>3. pop <=> Queue!PopFire(pop_ready)
    BY <1>2
  <2>4. push <=> push_valid /\ Queue!PushReady(pop_ready)
    BY <1>3 DEF push_fire
  <2> HIDE DEF push, pop, s
  <2>5. /\ rest \in Seq(Words) /\ Len(rest) = level_q - k
        /\ \A i \in 1 .. level_q - k : rest[i] = s[i + k]
    <3>1. CASE pop
      <4>1. s # << >>
        BY <1>1, <2>2, <3>1
      <4>2. /\ Tail(s) \in Seq(Words) /\ Len(Tail(s)) = Len(s) - 1
            /\ \A i \in 1 .. Len(Tail(s)) : Tail(s)[i] = s[i + 1]
        BY <1>1, <4>1, HeadTailProperties
      <4>3. QED
        BY <1>1, <3>1, <4>2
    <3>2. CASE ~pop
      BY <1>1, <3>2
    <3>3. QED
      BY <3>1, <3>2
  <2>6. \A i \in 1 .. level_q - k : rest[i] = mem_q'[Slot(rd_ptr_q', i)]
    <3> SUFFICES ASSUME NEW i \in 1 .. level_q - k
                 PROVE  rest[i] = mem_q'[Slot(rd_ptr_q', i)]
      OBVIOUS
    <3>1. i + k \in 1 .. level_q
      BY <1>1, <2>2
    <3>2. QED
      BY <1>1, <2>2, <2>5, <3>1
  <2> HIDE DEF rest
  <2>7. Contents' = IF push THEN Append(rest, push_data) ELSE rest
    <3>1. CASE push
      <4>1. /\ Append(rest, push_data) \in Seq(Words)
            /\ Len(Append(rest, push_data)) = level_q'
            /\ \A i \in 1 .. level_q - k : Append(rest, push_data)[i] = rest[i]
            /\ Append(rest, push_data)[level_q'] = push_data
        BY <1>1, <2>2, <2>5, <3>1, AppendProperties DEF Words
      <4>2. \A i \in 1 .. level_q' : i \in 1 .. level_q - k \/ i = level_q'
        BY <1>1, <2>2, <3>1
      <4>3. \A i \in 1 .. level_q' : Append(rest, push_data)[i] = mem_q'[Slot(rd_ptr_q', i)]
        BY <2>2, <2>6, <3>1, <4>1, <4>2
      <4>4. QED
        BY <3>1, <4>1, <4>3, SameQueue
    <3>2. CASE ~push
      <4>1. level_q' = level_q - k
        BY <1>1, <2>2, <3>2
      <4>2. Contents' = rest
        BY <2>5, <2>6, <4>1, SameQueue
      <4>3. QED
        BY <3>2, <4>2
    <3>3. QED
      BY <3>1, <3>2
  <2>8. rest = Queue!Rest(pop_ready)
    BY <2>3 DEF rest, s, Queue!Rest
  <2>9. QED
    BY <1>4, <1>6, <2>4, <2>7, <2>8 DEF Queue!Edge
<1>7. QED
  BY <1>5, <1>6

\* The FIFO implements the bounded queue, at any depth, whatever the widths of
\* its registers as long as they can hold the depth.
THEOREM FifoRefinement == FifoSpec => ImplementsQueue
<1>1. FifoInit => Queue!QueueInit
  BY DEF FifoInit, Queue!QueueInit, Contents
<1>2. ASSUME FifoInv, FifoInv', [FifoNext]_fifo_vars
      PROVE  [Queue!QueueNext]_<< Contents, io >>
  <2>1. CASE UNCHANGED fifo_vars
    BY <2>1 DEF fifo_vars, Contents
  <2>2. CASE FifoNext
    <3>1. PICK clear \in BOOLEAN, push_valid \in BOOLEAN, pop_ready \in BOOLEAN,
               push_data \in Items : Edge(clear, push_valid, push_data, pop_ready)
      BY <2>2 DEF FifoNext
    <3>2. QED
      BY <1>2, <3>1, EdgeRefines DEF Queue!QueueNext
  <2>3. QED
    BY <1>2, <2>1, <2>2
<1>3. QED
  BY <1>1, <1>2, FifoInvariance, PTL DEF FifoSpec, ImplementsQueue, Queue!QueueSpec
==============================================================================
