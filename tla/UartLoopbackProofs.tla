------------------------- MODULE UartLoopbackProofs -------------------------
(***************************************************************************)
(* Machine-checked proofs about UartLoopback, for every width of the       *)
(* accumulator, every oversampling (of eight at least for what the         *)
(* receiver sees), every byte and every sequence of rates and              *)
(* configurations: the generator, the transmitter, and the two sides of a  *)
(* line together.                                                          *)
(***************************************************************************)
EXTENDS UartLoopback, FiniteSetTheorems, SequenceTheorems, TLAPS

-----------------------------------------------------------------------------
(* The generator does not drift.                                            *)

\* NoDrift, with the ranges of what it is about.
DriftInv ==
  /\ Baud!BaudTypeOK /\ inc \in Incs
  /\ since \in [phase : Nat, ticks : Nat]
  /\ NoDrift

\* The sum of two numbers below the modulus wraps at most once.
LEMMA WrapOnce ==
  ASSUME NEW m \in Nat \ {0}, NEW a \in 0 .. m - 1, NEW b \in 0 .. m - 1
  PROVE  (a + b) % m = IF a + b >= m THEN a + b - m ELSE a + b
<1>1. CASE a + b >= m
  BY <1>1
<1>2. CASE ~(a + b >= m)
  BY <1>2
<1> QED BY <1>1, <1>2

\* A product one further on.
LEMMA OneMore ==
  ASSUME NEW n \in Nat, NEW m \in Nat
  PROVE  (n + 1) * m = n * m + m /\ n * m \in Nat
OBVIOUS

\* The last of a round, in units of the accumulator.
LEMMA LastOfRound ==
  ASSUME NEW n \in Nat \ {0}, NEW m \in Nat
  PROVE  n * m = (n - 1) * m + m /\ (n - 1) * m \in Nat
<1>1. n - 1 \in Nat /\ (n - 1) + 1 = n
  OBVIOUS
<1>2. ((n - 1) + 1) * m = (n - 1) * m + m /\ (n - 1) * m \in Nat
  BY <1>1, OneMore
<1> QED BY <1>1, <1>2

LEMMA DriftInit == Init => DriftInv
<1> SUFFICES ASSUME Init PROVE DriftInv
  OBVIOUS
<1>1. baud = Baud!BaudReset /\ inc \in Incs /\ since = [phase |-> 0, ticks |-> 0]
  BY DEF Init
<1>2. Baud!BaudTypeOK
  BY <1>1, LoopInputs DEF Baud!BaudTypeOK, Baud!BaudReset
<1>3. NoDrift
  BY <1>1, LoopInputs DEF NoDrift, Baud!BaudReset
<1> QED BY <1>1, <1>2, <1>3 DEF DriftInv

\* A clock edge with the core disabled, after which counting starts again.
LEMMA DriftDisabled ==
  ASSUME DriftInv, ~cfg.enable, Baud!BaudEdge(cfg.enable, inc), Counts, UNCHANGED inc
  PROVE  DriftInv'
<1>1. baud' = Baud!BaudReset /\ since' = [phase |-> 0, ticks |-> 0]
  BY DEF Baud!BaudEdge, Counts
<1>2. Baud!BaudTypeOK'
  BY <1>1, LoopInputs DEF Baud!BaudTypeOK, Baud!BaudReset
<1>3. NoDrift'
  BY <1>1, LoopInputs DEF NoDrift, Baud!BaudReset
<1> QED BY <1>1, <1>2, <1>3 DEF DriftInv

\* A clock edge with the core enabled: no carry, a carry within a round of
\* OVERSAMPLE of them, and the last carry of a round.
LEMMA DriftEnabled ==
  ASSUME DriftInv, cfg.enable, Baud!BaudEdge(cfg.enable, inc), Counts, UNCHANGED inc
  PROVE  DriftInv'
<1> DEFINE carry == baud.acc + inc >= AccSize
           last  == baud.count = OVERSAMPLE - 1
<1>1. /\ AccSize \in Nat \ {0} /\ OVERSAMPLE \in Nat \ {0}
      /\ inc \in 0 .. AccSize - 1 /\ inc \in Nat
      /\ baud.acc \in 0 .. AccSize - 1 /\ baud.count \in 0 .. OVERSAMPLE - 1
      /\ since.phase \in Nat /\ since.ticks \in Nat
  BY LoopInputs DEF DriftInv, Baud!BaudTypeOK
<1>2. baud' = [acc   |-> (baud.acc + inc) % AccSize,
               count |-> CASE ~carry         -> baud.count
                           [] carry /\ last  -> 0
                           [] carry /\ ~last -> baud.count + 1,
               oversample_tick |-> carry,
               baud_tick       |-> carry /\ last]
  BY DEF Baud!BaudEdge, Baud!Carry, Baud!OS_LAST
<1>3. since' = [phase |-> since.phase + inc - (IF baud'.baud_tick THEN OVERSAMPLE * AccSize ELSE 0),
                ticks |-> since.ticks + (IF baud'.oversample_tick THEN 1 ELSE 0)
                            - (IF baud'.baud_tick THEN OVERSAMPLE ELSE 0)]
  BY DEF Counts
<1>4. since.phase = since.ticks * AccSize + baud.acc /\ since.ticks = baud.count
  BY DEF DriftInv, NoDrift
<1>5. (baud.acc + inc) % AccSize = IF carry THEN baud.acc + inc - AccSize ELSE baud.acc + inc
  BY <1>1, WrapOnce
<1>6. inc' \in Incs
  BY DEF DriftInv
<1> HIDE DEF last
<1>7. CASE ~carry
  <2>1. baud' = [acc |-> baud.acc + inc, count |-> baud.count,
                 oversample_tick |-> FALSE, baud_tick |-> FALSE]
    <3>1. carry = FALSE /\ (carry /\ last) = FALSE
      BY <1>1, <1>7
    <3>2. (baud.acc + inc) % AccSize = baud.acc + inc
      BY <1>5, <1>7
    <3> HIDE DEF carry
    <3> QED BY <1>2, <3>1, <3>2
  <2>2. since' = [phase |-> since.phase + inc, ticks |-> since.ticks]
    BY <1>1, <1>3, <2>1
  <2>3. Baud!BaudTypeOK'
    BY <1>1, <1>7, <2>1 DEF Baud!BaudTypeOK
  <2>4. since'.ticks * AccSize \in Nat
    BY <1>1, <2>2, OneMore
  <2>5. NoDrift'
    BY <1>1, <1>4, <2>1, <2>2, <2>4 DEF NoDrift
  <2> QED BY <1>1, <1>6, <2>2, <2>3, <2>5 DEF DriftInv
<1>8. CASE carry /\ ~last
  <2>1. baud' = [acc |-> baud.acc + inc - AccSize, count |-> baud.count + 1,
                 oversample_tick |-> TRUE, baud_tick |-> FALSE]
    BY <1>2, <1>5, <1>8
  <2>2. since' = [phase |-> since.phase + inc, ticks |-> since.ticks + 1]
    BY <1>1, <1>3, <2>1
  <2>3. Baud!BaudTypeOK'
    BY <1>1, <1>8, <2>1 DEF Baud!BaudTypeOK, last
  <2>4. /\ (since.ticks + 1) * AccSize = since.ticks * AccSize + AccSize
        /\ since.ticks * AccSize \in Nat
    BY <1>1, OneMore
  <2>5. NoDrift'
    BY <1>1, <1>4, <2>1, <2>2, <2>4 DEF NoDrift
  <2> QED BY <1>1, <1>6, <2>2, <2>3, <2>5 DEF DriftInv
<1>9. CASE carry /\ last
  <2>1. baud' = [acc |-> baud.acc + inc - AccSize, count |-> 0,
                 oversample_tick |-> TRUE, baud_tick |-> TRUE]
    BY <1>2, <1>5, <1>9
  <2>2. since' = [phase |-> since.phase + inc - OVERSAMPLE * AccSize,
                  ticks |-> since.ticks + 1 - OVERSAMPLE]
    BY <1>3, <2>1
  <2>3. Baud!BaudTypeOK'
    BY <1>1, <1>9, <2>1 DEF Baud!BaudTypeOK
  <2>4. /\ OVERSAMPLE * AccSize = (OVERSAMPLE - 1) * AccSize + AccSize
        /\ (OVERSAMPLE - 1) * AccSize \in Nat
    BY <1>1, LastOfRound
  <2>5. since.phase = (OVERSAMPLE - 1) * AccSize + baud.acc
    BY <1>4, <1>9 DEF last
  <2>6. since'.ticks = 0
    BY <1>1, <1>4, <1>9, <2>2 DEF last
  <2>7. since'.phase = baud'.acc /\ baud'.acc \in Nat
    <3> DEFINE round == OVERSAMPLE * AccSize
               rest  == (OVERSAMPLE - 1) * AccSize
    <3>1. round = rest + AccSize /\ rest \in Nat /\ since.phase = rest + baud.acc
      BY <2>4, <2>5
    <3>2. since'.phase = since.phase + inc - round /\ baud'.acc = baud.acc + inc - AccSize
      BY <2>1, <2>2
    <3> HIDE DEF round, rest
    <3> QED BY <1>1, <1>9, <3>1, <3>2
  <2>8. since'.ticks * AccSize = 0
    BY <1>1, <2>6
  <2>9. NoDrift'
    BY <1>1, <2>1, <2>6, <2>7, <2>8 DEF NoDrift
  <2>10. since' \in [phase : Nat, ticks : Nat]
    BY <2>2, <2>6, <2>7
  <2> QED BY <1>6, <2>3, <2>9, <2>10 DEF DriftInv
<1> QED BY <1>7, <1>8, <1>9

LEMMA DriftClock == ASSUME DriftInv, Clocks PROVE DriftInv'
<1>1. Baud!BaudEdge(cfg.enable, inc) /\ Counts /\ UNCHANGED inc
  BY DEF Clocks, Clock
<1>2. CASE cfg.enable
  BY <1>1, <1>2, DriftEnabled
<1>3. CASE ~cfg.enable
  BY <1>1, <1>3, DriftDisabled
<1> QED BY <1>2, <1>3

LEMMA DriftInvariance == Spec => []DriftInv
<1>1. DriftInv /\ [Next]_vars => DriftInv'
  <2> SUFFICES ASSUME DriftInv, [Next]_vars PROVE DriftInv'
    OBVIOUS
  <2>1. CASE Clocks
    BY <2>1, DriftClock
  <2>2. CASE \E c \in Cfgs : Reconfigure(c)
    BY <2>2 DEF Reconfigure, DriftInv, Baud!BaudTypeOK, NoDrift
  <2>3. CASE \E i \in Incs : SetRate(i)
    BY <2>3 DEF SetRate, DriftInv, Baud!BaudTypeOK, NoDrift
  <2>4. CASE UNCHANGED vars
    BY <2>4 DEF vars, DriftInv, Baud!BaudTypeOK, NoDrift
  <2> QED BY <2>1, <2>2, <2>3, <2>4 DEF Next
<1> QED BY DriftInit, <1>1, PTL DEF Spec

\* uart_baud_gen.sv:72-100 neither loses nor makes up a part of a tick, whatever
\* the increment is changed to and when, and however often the core is disabled.
THEOREM BaudDoesNotDrift == Spec => []NoDrift
<1>1. DriftInv => NoDrift
  BY DEF DriftInv
<1> QED BY <1>1, DriftInvariance, PTL

-----------------------------------------------------------------------------
(* The transmitter.                                                         *)

ParityBits == IF parity_is_enabled(tx.parity_mode) THEN 1 ELSE 0

\* The level that a transmitter drives, told from its other registers.
LevelNow == CASE tx.state \in {"IDLE", "STOP"} -> 1
              [] tx.state = "START"            -> 0
              [] tx.state = "DATA"             -> tx.data[tx.bit_index]
              [] tx.state = "PARITY"           -> tx.parity_bit

TxInv ==
  /\ TxTypeOK
  /\ tx.state = "PARITY" => parity_is_enabled(tx.parity_mode)
  /\ tx.stop_bit_index < tx.stop_bits
  /\ tx.parity_bit = calc_parity_bit(tx.data, tx.data_bits, tx.parity_mode)
  /\ tx.line = LevelNow

LEMMA OddOnesIsBit ==
  ASSUME NEW data \in Byte, NEW n \in 0 .. 8
  PROVE  /\ Cardinality({i \in 0 .. n - 1 : data[i] = 1}) \in Nat
         /\ OddOnes(data, n) \in Bit
<1> DEFINE ones == {i \in 0 .. n - 1 : data[i] = 1}
<1>1. IsFiniteSet(0 .. n - 1)
  BY FS_Interval
<1>2. IsFiniteSet(ones)
  BY <1>1, FS_Subset
<1>3. Cardinality(ones) \in Nat
  BY <1>2, FS_CardinalityType
<1> HIDE DEF ones
<1>4. Cardinality(ones) % 2 \in Bit
  BY <1>3 DEF Bit
<1> QED BY <1>3, <1>4 DEF OddOnes, ones

LEMMA ParityIsBit ==
  ASSUME NEW data \in Byte, NEW n \in 5 .. 8, NEW mode \in Codes
  PROVE  calc_parity_bit(data, n, mode) \in Bit
<1>1. OddOnes(data, n) \in Bit
  <2>1. n \in 0 .. 8
    OBVIOUS
  <2> QED BY <2>1, OddOnesIsBit
<1> QED BY <1>1 DEF calc_parity_bit, Bit, PARITY_EVEN, PARITY_ODD, Codes

\* The parity that the transmitter computes is the one that the format asks for.
LEMMA ParityIsGood ==
  ASSUME NEW data \in Byte, NEW n \in 5 .. 8, NEW mode \in Codes, parity_is_enabled(mode)
  PROVE  GoodParity(data, n, mode) = calc_parity_bit(data, n, mode)
<1> DEFINE k == Cardinality({i \in 0 .. n - 1 : data[i] = 1})
           want == IF mode = PARITY_EVEN THEN 0 ELSE 1
           calc == calc_parity_bit(data, n, mode)
<1>1. k \in Nat /\ OddOnes(data, n) = k % 2
  <2>1. n \in 0 .. 8
    OBVIOUS
  <2> QED BY <2>1, OddOnesIsBit DEF OddOnes
<1>2. mode = PARITY_EVEN \/ (mode = PARITY_ODD /\ mode # PARITY_EVEN)
  BY DEF parity_is_enabled, PARITY_EVEN, PARITY_ODD
<1>3. calc = IF mode = PARITY_EVEN THEN k % 2 ELSE 1 - (k % 2)
  <2>1. CASE mode = PARITY_EVEN
    BY <1>1, <2>1 DEF calc_parity_bit, PARITY_EVEN, PARITY_ODD
  <2>2. CASE mode = PARITY_ODD /\ mode # PARITY_EVEN
    BY <1>1, <2>2 DEF calc_parity_bit, PARITY_EVEN, PARITY_ODD
  <2> QED BY <1>2, <2>1, <2>2
<1>4. GoodParity(data, n, mode) = CHOOSE p \in Bit : (k + p) % 2 = want
  BY DEF GoodParity
<1>5. want \in Bit
  BY DEF Bit
<1> HIDE DEF k, want
<1>6. calc \in Bit /\ (k + calc) % 2 = want
  BY <1>1, <1>2, <1>3 DEF Bit, want
<1>7. \A p \in Bit : (k + p) % 2 = want => p = calc
  BY <1>1, <1>2, <1>3 DEF Bit, want
<1> HIDE DEF calc
<1>8. (CHOOSE p \in Bit : (k + p) % 2 = want) = calc
  BY <1>6, <1>7
<1> QED BY <1>4, <1>8 DEF calc

LEMMA TxInit == ASSUME tx = TxReset PROVE TxInv
<1>1. calc_parity_bit(Zero, 8, 0) = 0
  BY DEF calc_parity_bit, PARITY_EVEN, PARITY_ODD
<1>2. Zero \in Byte
  BY DEF Zero, Byte, Bit
<1> QED BY <1>1, <1>2 DEF TxInv, TxReset, TxTypeOK, LevelNow, Bit, Codes

\* The registers with another state, indices, line and event; the frame's data and
\* format as they are.
TxWith(state, bit_index, stop_bit_index, line, done) ==
  [state |-> state, data |-> tx.data, bit_index |-> bit_index, stop_bit_index |-> stop_bit_index,
   data_bits |-> tx.data_bits, stop_bits |-> tx.stop_bits, parity_mode |-> tx.parity_mode,
   parity_bit |-> tx.parity_bit, line |-> line, done |-> done]

\* What an edge makes of the registers, state by state.
LEMMA TxIdleForm ==
  ASSUME TxTypeOK, NEW c, NEW start, TxIdle(c, start)
  PROVE  tx' = TxWith("IDLE", 0, 0, 1, FALSE)
BY DEF TxTypeOK, TxIdle, TxWith

LEMMA TxHoldForm ==
  ASSUME TxTypeOK, NEW tick, TxHold(tick)
  PROVE  tx' = TxWith(tx.state, tx.bit_index, tx.stop_bit_index,
                      IF tx.state = "STOP" THEN 1 ELSE tx.line, FALSE)
BY DEF TxTypeOK, TxHold, TxWith

LEMMA TxStartForm ==
  ASSUME TxTypeOK, NEW tick, TxStart(tick)
  PROVE  tx' = TxWith("DATA", 0, tx.stop_bit_index, tx.data[0], FALSE)
BY DEF TxTypeOK, TxStart, TxWith

LEMMA TxDataForm ==
  ASSUME TxTypeOK, NEW tick, TxData(tick)
  PROVE  tx' = TxWith("DATA", tx.bit_index + 1, tx.stop_bit_index, tx.data[tx.bit_index + 1], FALSE)
<1>1. (tx.bit_index + 1) % 8 = tx.bit_index + 1
  BY DEF TxTypeOK, TxData
<1> QED BY <1>1 DEF TxTypeOK, TxData, TxWith

LEMMA TxDataEndsForm ==
  ASSUME TxTypeOK, NEW tick, TxDataEnds(tick)
  PROVE  tx' = IF parity_is_enabled(tx.parity_mode)
               THEN TxWith("PARITY", 0, tx.stop_bit_index, tx.parity_bit, FALSE)
               ELSE TxWith("STOP", 0, 0, 1, FALSE)
<1>1. CASE parity_is_enabled(tx.parity_mode)
  <2>1. tx' = [tx EXCEPT !.state = "PARITY", !.bit_index = 0, !.line = tx.parity_bit, !.done = FALSE]
    BY <1>1 DEF TxDataEnds
  <2>2. tx' = TxWith("PARITY", 0, tx.stop_bit_index, tx.parity_bit, FALSE)
    BY <2>1 DEF TxTypeOK, TxWith
  <2> QED BY <1>1, <2>2
<1>2. CASE ~parity_is_enabled(tx.parity_mode)
  <2>1. tx' = [tx EXCEPT !.state = "STOP", !.bit_index = 0, !.stop_bit_index = 0, !.line = 1,
                         !.done = FALSE]
    BY <1>2 DEF TxDataEnds
  <2>2. tx' = TxWith("STOP", 0, 0, 1, FALSE)
    BY <2>1 DEF TxTypeOK, TxWith
  <2> QED BY <1>2, <2>2
<1> QED BY <1>1, <1>2

LEMMA TxParityForm ==
  ASSUME TxTypeOK, NEW tick, TxParity(tick)
  PROVE  tx' = TxWith("STOP", tx.bit_index, 0, 1, FALSE)
BY DEF TxTypeOK, TxParity, TxWith

LEMMA TxStopForm ==
  ASSUME TxTypeOK, NEW tick, TxStop(tick)
  PROVE  tx' = IF tx.stop_bit_index = tx.stop_bits - 1
               THEN TxWith("IDLE", tx.bit_index, tx.stop_bit_index, 1, TRUE)
               ELSE TxWith("STOP", tx.bit_index, tx.stop_bit_index + 1, 1, FALSE)
<1>1. CASE tx.stop_bit_index = tx.stop_bits - 1
  <2>1. tx' = [tx EXCEPT !.state = "IDLE", !.stop_bit_index = tx.stop_bit_index, !.line = 1, !.done = TRUE]
    BY <1>1 DEF TxStop
  <2>2. tx' = TxWith("IDLE", tx.bit_index, tx.stop_bit_index, 1, TRUE)
    BY <2>1 DEF TxTypeOK, TxWith
  <2> QED BY <1>1, <2>2
<1>2. CASE tx.stop_bit_index # tx.stop_bits - 1
  <2>1. tx' = [tx EXCEPT !.state = "STOP", !.stop_bit_index = tx.stop_bit_index + 1, !.line = 1, !.done = FALSE]
    BY <1>2 DEF TxStop
  <2>2. tx' = TxWith("STOP", tx.bit_index, tx.stop_bit_index + 1, 1, FALSE)
    BY <2>1 DEF TxTypeOK, TxWith
  <2> QED BY <1>2, <2>2
<1> QED BY <1>1, <1>2

\* The invariant of the transmitter depends on the parts of TxWith alone.
LEMMA TxWithInv ==
  ASSUME TxInv,
         NEW state \in {"IDLE", "START", "DATA", "PARITY", "STOP"},
         NEW b \in 0 .. 7, NEW s \in 0 .. 1, NEW line \in Bit, NEW done \in BOOLEAN,
         tx' = TxWith(state, b, s, line, done),
         b < tx.data_bits, s < tx.stop_bits,
         state = "PARITY" => parity_is_enabled(tx.parity_mode),
         line = CASE state \in {"IDLE", "STOP"} -> 1
                  [] state = "START"            -> 0
                  [] state = "DATA"             -> tx.data[b]
                  [] state = "PARITY"           -> tx.parity_bit
  PROVE  TxInv'
<1>1. TxTypeOK'
  BY DEF TxInv, TxTypeOK, TxWith
<1>2. /\ tx'.state = state /\ tx'.bit_index = b /\ tx'.stop_bit_index = s /\ tx'.line = line
      /\ tx'.data = tx.data /\ tx'.data_bits = tx.data_bits /\ tx'.stop_bits = tx.stop_bits
      /\ tx'.parity_mode = tx.parity_mode /\ tx'.parity_bit = tx.parity_bit
  BY DEF TxWith
<1>3. LevelNow' = line
  BY <1>2 DEF LevelNow
<1> QED BY <1>1, <1>2, <1>3 DEF TxInv

LEMMA TxStep ==
  ASSUME TxInv, NEW c \in Config, NEW tick \in BOOLEAN, NEW start \in BOOLEAN,
         NEW data, start => data \in Byte, TxEdge(c, tick, start, data)
  PROVE  TxInv'
<1>1. /\ tx.state \in {"IDLE", "START", "DATA", "PARITY", "STOP"}
      /\ tx.bit_index \in 0 .. 7 /\ tx.stop_bit_index \in 0 .. 1
      /\ tx.data_bits \in 5 .. 8 /\ tx.stop_bits \in 1 .. 2
      /\ tx.line \in Bit /\ tx.parity_bit \in Bit
      /\ tx.bit_index < tx.data_bits /\ tx.stop_bit_index < tx.stop_bits
      /\ \A i \in 0 .. 7 : tx.data[i] \in Bit
      /\ tx.line = LevelNow /\ (tx.state = "PARITY" => parity_is_enabled(tx.parity_mode))
  BY DEF TxInv, TxTypeOK, Byte
<1>2. /\ TxTypeOK /\ 0 \in Bit /\ 1 \in Bit /\ 0 \in 0 .. 7 /\ 0 \in 0 .. 1
      /\ 0 < tx.data_bits /\ 0 < tx.stop_bits
  BY <1>1 DEF TxInv, Bit
<1>3. CASE TxIdle(c, start)
  <2>1. tx' = TxWith("IDLE", 0, 0, 1, FALSE)
    BY <1>2, <1>3, TxIdleForm
  <2> QED BY <1>1, <1>2, <2>1, TxWithInv
<1>4. CASE TxLaunch(c, start, data)
  <2> DEFINE n == decode_data_bits(c.data_bits)
             p == calc_parity_bit(data, n, c.parity_mode)
             m == decode_stop_bits(c.stop_bits)
  <2>1. n \in 5 .. 8 /\ m \in 1 .. 2 /\ c.parity_mode \in Codes
    BY DEF decode_data_bits, decode_stop_bits, Config, Codes
  <2>2. data \in Byte
    BY <1>4 DEF TxLaunch, Starts
  <2>3. p \in Bit
    BY <2>1, <2>2, ParityIsBit
  <2>4. tx' = [state |-> "START", data |-> data, bit_index |-> 0, stop_bit_index |-> 0,
               data_bits |-> n, stop_bits |-> m, parity_mode |-> c.parity_mode,
               parity_bit |-> p, line |-> 0, done |-> FALSE]
    BY <1>4 DEF TxLaunch
  <2> HIDE DEF n, m, p
  <2>5. TxTypeOK'
    BY <1>2, <2>1, <2>2, <2>3, <2>4 DEF TxTypeOK
  <2>6. LevelNow' = 0 /\ tx'.line = 0 /\ tx'.state = "START"
    BY <2>4 DEF LevelNow
  <2>7. tx'.parity_bit = calc_parity_bit(tx'.data, tx'.data_bits, tx'.parity_mode)
    BY <2>4 DEF p, n
  <2>8. tx'.stop_bit_index < tx'.stop_bits
    BY <2>1, <2>4
  <2> QED BY <2>5, <2>6, <2>7, <2>8 DEF TxInv
<1>5. CASE TxHold(tick)
  <2> DEFINE l == IF tx.state = "STOP" THEN 1 ELSE tx.line
  <2>1. tx' = TxWith(tx.state, tx.bit_index, tx.stop_bit_index, l, FALSE)
    BY <1>2, <1>5, TxHoldForm
  <2>2. l = LevelNow /\ l \in Bit
    BY <1>1, <1>2 DEF LevelNow
  <2> HIDE DEF l
  <2> QED BY <1>1, <2>1, <2>2, TxWithInv DEF LevelNow
<1>6. CASE TxStart(tick)
  <2>1. tx' = TxWith("DATA", 0, tx.stop_bit_index, tx.data[0], FALSE)
    BY <1>2, <1>6, TxStartForm
  <2> QED BY <1>1, <1>2, <2>1, TxWithInv
<1>7. CASE TxData(tick)
  <2>1. tx' = TxWith("DATA", tx.bit_index + 1, tx.stop_bit_index, tx.data[tx.bit_index + 1], FALSE)
    BY <1>2, <1>7, TxDataForm
  <2>2. tx.bit_index + 1 \in 0 .. 7 /\ tx.bit_index + 1 < tx.data_bits
    BY <1>1, <1>7 DEF TxData
  <2> QED BY <1>1, <1>2, <2>1, <2>2, TxWithInv
<1>8. CASE TxDataEnds(tick)
  <2>1. CASE parity_is_enabled(tx.parity_mode)
    <3>1. tx' = TxWith("PARITY", 0, tx.stop_bit_index, tx.parity_bit, FALSE)
      BY <1>2, <1>8, <2>1, TxDataEndsForm
    <3> QED BY <1>1, <1>2, <2>1, <3>1, TxWithInv
  <2>2. CASE ~parity_is_enabled(tx.parity_mode)
    <3>1. tx' = TxWith("STOP", 0, 0, 1, FALSE)
      BY <1>2, <1>8, <2>2, TxDataEndsForm
    <3> QED BY <1>1, <1>2, <3>1, TxWithInv
  <2> QED BY <2>1, <2>2
<1>9. CASE TxParity(tick)
  <2>1. tx' = TxWith("STOP", tx.bit_index, 0, 1, FALSE)
    BY <1>2, <1>9, TxParityForm
  <2> QED BY <1>1, <1>2, <2>1, TxWithInv
<1>10. CASE TxStop(tick)
  <2>1. CASE tx.stop_bit_index = tx.stop_bits - 1
    <3>1. tx' = TxWith("IDLE", tx.bit_index, tx.stop_bit_index, 1, TRUE)
      BY <1>2, <1>10, <2>1, TxStopForm
    <3> QED BY <1>1, <1>2, <3>1, TxWithInv
  <2>2. CASE tx.stop_bit_index # tx.stop_bits - 1
    <3>1. tx' = TxWith("STOP", tx.bit_index, tx.stop_bit_index + 1, 1, FALSE)
      BY <1>2, <1>10, <2>2, TxStopForm
    <3>2. tx.stop_bit_index + 1 \in 0 .. 1 /\ tx.stop_bit_index + 1 < tx.stop_bits
      BY <1>1, <2>2
    <3> QED BY <1>1, <1>2, <3>1, <3>2, TxWithInv
  <2> QED BY <2>1, <2>2
<1> QED BY <1>3, <1>4, <1>5, <1>6, <1>7, <1>8, <1>9, <1>10 DEF TxEdge

-----------------------------------------------------------------------------
(* What is left of a frame is one level less after each baud tick.          *)

LEMMA FirstAndRest ==
  ASSUME NEW x \in Nat, NEW s \in Seq(Nat)
  PROVE  /\ << x >> \o s \in Seq(Nat) /\ << x >> \o s # << >>
         /\ Head(<< x >> \o s) = x /\ Tail(<< x >> \o s) = s
<1> DEFINE q == << x >> \o s
<1>1. << x >> \in Seq(Nat) /\ Len(<< x >>) = 1 /\ Len(s) \in Nat
  BY LenProperties
<1>2. /\ q \in Seq(Nat) /\ Len(q) = 1 + Len(s)
      /\ \A i \in 1 .. 1 + Len(s) : q[i] = IF i <= 1 THEN x ELSE s[i - 1]
  BY <1>1, ConcatProperties
<1> HIDE DEF q
<1>3. q # << >>
  BY <1>1, <1>2
<1>4. Head(q) = x
  <2>1. Head(q) = q[1]
    BY <1>2, <1>3
  <2> QED BY <1>1, <1>2, <2>1
<1>5. Tail(q) = s
  <2>1. /\ Tail(q) \in Seq(Nat) /\ Len(Tail(q)) = Len(s)
        /\ \A i \in 1 .. Len(s) : Tail(q)[i] = q[i + 1]
    BY <1>1, <1>2, <1>3, HeadTailProperties
  <2>2. ASSUME NEW i \in 1 .. Len(s) PROVE Tail(q)[i] = s[i]
    <3>1. Tail(q)[i] = q[i + 1]
      BY <2>1
    <3>2. i + 1 \in 1 .. 1 + Len(s) /\ ~(i + 1 <= 1) /\ (i + 1) - 1 = i
      BY <1>1
    <3> QED BY <1>2, <3>1, <3>2
  <2> QED BY <2>1, <2>2, SeqEqual
<1> QED BY <1>2, <1>3, <1>4, <1>5 DEF q

\* A sequence put together from a first element and two parts.
LEMMA TailOfParts ==
  ASSUME NEW x \in Nat, NEW s \in Seq(Nat), NEW t \in Seq(Nat)
  PROVE  /\ (<< x >> \o s) \o t # << >>
         /\ Head((<< x >> \o s) \o t) = x
         /\ Tail((<< x >> \o s) \o t) = s \o t
<1>1. << x >> \in Seq(Nat)
  OBVIOUS
<1>2. (<< x >> \o s) \o t = << x >> \o (s \o t) /\ s \o t \in Seq(Nat)
  BY <1>1, ConcatAssociative, ConcatProperties
<1> QED BY <1>2, FirstAndRest

LEMMA OnesRecur ==
  ASSUME NEW k \in Nat
  PROVE  /\ Ones(k) \in Seq(Nat) /\ Len(Ones(k)) = k
         /\ k = 0 => Ones(k) = << >>
         /\ Ones(k + 1) # << >> /\ Head(Ones(k + 1)) = 1 /\ Tail(Ones(k + 1)) = Ones(k)
<1>1. /\ Ones(k) \in Seq(Nat) /\ Len(Ones(k)) = k
      /\ Ones(k + 1) \in Seq(Nat) /\ Len(Ones(k + 1)) = k + 1
      /\ (\A i \in 1 .. k : Ones(k)[i] = 1) /\ (\A i \in 1 .. k + 1 : Ones(k + 1)[i] = 1)
  BY DEF Ones
<1>2. k = 0 => Ones(k) = << >>
  BY <1>1, EmptySeq
<1>3. Ones(k + 1) # << >>
  BY <1>1
<1>4. /\ Head(Ones(k + 1)) = Ones(k + 1)[1]
      /\ Tail(Ones(k + 1)) \in Seq(Nat) /\ Len(Tail(Ones(k + 1))) = k
      /\ \A i \in 1 .. k : Tail(Ones(k + 1))[i] = Ones(k + 1)[i + 1]
  BY <1>1, <1>3, HeadTailProperties
<1>5. Tail(Ones(k + 1)) = Ones(k)
  BY <1>1, <1>4, SeqEqual
<1> QED BY <1>1, <1>2, <1>3, <1>4, <1>5

\* The parts of what is left of a frame.
LEMMA PartTypes ==
  ASSUME TxInv, NEW b \in 0 .. tx.data_bits
  PROVE  DataFrom(b) \in Seq(Nat) /\ ParityPart \in Seq(Nat)
<1>1. tx.data_bits \in 5 .. 8 /\ tx.parity_bit \in Nat /\ \A i \in 0 .. 7 : tx.data[i] \in Nat
  BY DEF TxInv, TxTypeOK, Byte, Bit
<1>2. ASSUME NEW i \in 1 .. tx.data_bits - b PROVE tx.data[b + i - 1] \in Nat
  BY <1>1
<1>3. tx.data_bits - b \in Nat
  BY <1>1
<1>4. DataFrom(b) \in Seq(Nat)
  BY <1>2, <1>3 DEF DataFrom
<1> QED BY <1>1, <1>4 DEF ParityPart

LEMMA DataRecur ==
  ASSUME TxInv, NEW b \in 0 .. tx.data_bits - 1
  PROVE  /\ DataFrom(b) = << tx.data[b] >> \o DataFrom(b + 1)
         /\ tx.data[b] \in Nat
         /\ DataFrom(tx.data_bits) = << >>
<1>1. tx.data_bits \in 5 .. 8 /\ \A i \in 0 .. 7 : tx.data[i] \in Nat
  BY DEF TxInv, TxTypeOK, Byte, Bit
<1>2. b \in 0 .. tx.data_bits /\ b + 1 \in 0 .. tx.data_bits /\ tx.data_bits \in 0 .. tx.data_bits
      /\ b \in 0 .. 7
  BY <1>1
<1>3. /\ DataFrom(b) \in Seq(Nat) /\ DataFrom(b + 1) \in Seq(Nat) /\ DataFrom(tx.data_bits) \in Seq(Nat)
  BY <1>2, PartTypes
<1>4. tx.data[b] \in Nat /\ << tx.data[b] >> \in Seq(Nat) /\ Len(<< tx.data[b] >>) = 1
  BY <1>1, <1>2
<1>5. /\ Len(DataFrom(b)) = tx.data_bits - b /\ Len(DataFrom(b + 1)) = tx.data_bits - (b + 1)
      /\ Len(DataFrom(tx.data_bits)) = 0
  BY <1>1 DEF DataFrom
<1>6. DataFrom(tx.data_bits) = << >>
  BY <1>3, <1>5, EmptySeq
<1> DEFINE q == << tx.data[b] >> \o DataFrom(b + 1)
<1>7. /\ q \in Seq(Nat) /\ Len(q) = 1 + Len(DataFrom(b + 1))
      /\ \A i \in 1 .. 1 + Len(DataFrom(b + 1)) : q[i] = IF i <= 1 THEN << tx.data[b] >>[i] ELSE DataFrom(b + 1)[i - 1]
  BY <1>3, <1>4, ConcatProperties
<1> HIDE DEF q
<1>11. 1 + Len(DataFrom(b + 1)) = tx.data_bits - b
  <2>1. 1 + (tx.data_bits - (b + 1)) = tx.data_bits - b
    BY <1>1
  <2> QED BY <1>5, <2>1
<1>8. ASSUME NEW i \in 1 .. tx.data_bits - b PROVE DataFrom(b)[i] = q[i]
  <2>1. DataFrom(b)[i] = tx.data[b + i - 1]
    BY <1>1 DEF DataFrom
  <2>2. i \in 1 .. 1 + Len(DataFrom(b + 1))
    BY <1>11
  <2>3. CASE i = 1
    <3>1. q[i] = << tx.data[b] >>[1]
      BY <1>7, <2>2, <2>3
    <3>2. b + i - 1 = b
      BY <2>3
    <3> QED BY <2>1, <3>1, <3>2
  <2>4. CASE i # 1
    <3>1. i - 1 \in 1 .. tx.data_bits - (b + 1) /\ ~(i <= 1) /\ (b + 1) + (i - 1) - 1 = b + i - 1
      BY <1>1, <2>4
    <3>2. DataFrom(b + 1)[i - 1] = tx.data[(b + 1) + (i - 1) - 1]
      BY <3>1 DEF DataFrom
    <3> QED BY <1>7, <2>1, <2>2, <3>1, <3>2
  <2> QED BY <2>3, <2>4
<1>9. Len(DataFrom(b)) = Len(q)
  BY <1>5, <1>7, <1>11
<1>10. DataFrom(b) = q
  BY <1>3, <1>5, <1>7, <1>8, <1>9, SeqEqual
<1> QED BY <1>4, <1>6, <1>10 DEF q

\* What is left after an edge that keeps the frame's data and format.
LEMMA RemainingWith ==
  ASSUME NEW state \in {"IDLE", "START", "DATA", "PARITY", "STOP"}, NEW b, NEW s, NEW line, NEW done,
         tx' = TxWith(state, b, s, line, done)
  PROVE  /\ tx'.state = state /\ tx'.done = done
         /\ state = "IDLE"   => Remaining' = << >>
         /\ state = "START"  => Remaining' = << 0 >> \o DataFrom(0) \o ParityPart \o Ones(tx.stop_bits)
         /\ state = "DATA"   => Remaining' = DataFrom(b) \o ParityPart \o Ones(tx.stop_bits)
         /\ state = "PARITY" => Remaining' = ParityPart \o Ones(tx.stop_bits)
         /\ state = "STOP"   => Remaining' = Ones(tx.stop_bits - s)
<1>1. /\ tx'.state = state /\ tx'.bit_index = b /\ tx'.stop_bit_index = s /\ tx'.done = done
      /\ tx'.data = tx.data /\ tx'.data_bits = tx.data_bits /\ tx'.stop_bits = tx.stop_bits
      /\ tx'.parity_mode = tx.parity_mode /\ tx'.parity_bit = tx.parity_bit
  BY DEF TxWith
<1>2. ParityPart' = ParityPart
  BY <1>1 DEF ParityPart
<1>3. CASE state = "IDLE"
  BY <1>1, <1>3 DEF Remaining
<1>4. CASE state = "START"
  BY <1>1, <1>2, <1>4 DEF Remaining, DataFrom
<1>5. CASE state = "DATA"
  BY <1>1, <1>2, <1>5 DEF Remaining, DataFrom
<1>6. CASE state = "PARITY"
  BY <1>1, <1>2, <1>6 DEF Remaining
<1>7. CASE state = "STOP"
  BY <1>1, <1>7 DEF Remaining, Stops
<1> QED BY <1>1, <1>3, <1>4, <1>5, <1>6, <1>7

\* The line is at the first of the levels that are left; there are none between frames.
LEMMA RemainingFirst ==
  ASSUME TxInv
  PROVE  /\ (Remaining = << >>) <=> tx.state = "IDLE"
         /\ tx.line = Promise!Level(Remaining)
<1>1. /\ tx.state \in {"IDLE", "START", "DATA", "PARITY", "STOP"} /\ tx.line = LevelNow
      /\ tx.bit_index \in 0 .. tx.data_bits - 1 /\ tx.data_bits \in 5 .. 8
      /\ tx.stop_bits \in 1 .. 2 /\ tx.stop_bit_index \in 0 .. tx.stop_bits - 1
      /\ tx.parity_bit \in Nat
      /\ (tx.state = "PARITY" => parity_is_enabled(tx.parity_mode))
  BY DEF TxInv, TxTypeOK, Bit
<1>2. /\ ParityPart \in Seq(Nat) /\ Ones(tx.stop_bits) \in Seq(Nat)
      /\ \A b \in 0 .. tx.data_bits : DataFrom(b) \in Seq(Nat)
  <2>1. ASSUME NEW b \in 0 .. tx.data_bits PROVE DataFrom(b) \in Seq(Nat) /\ ParityPart \in Seq(Nat)
    BY PartTypes
  <2>2. 0 \in 0 .. tx.data_bits /\ tx.stop_bits \in Nat
    BY <1>1
  <2>3. Ones(tx.stop_bits) \in Seq(Nat)
    BY <2>2, OnesRecur
  <2> QED BY <2>1, <2>2, <2>3
<1>3. ParityPart \o Ones(tx.stop_bits) \in Seq(Nat)
  BY <1>2, ConcatProperties
<1>4. CASE tx.state = "IDLE"
  BY <1>1, <1>4 DEF Remaining, Promise!Level, LevelNow
<1>5. CASE tx.state = "START"
  <2>1. DataFrom(0) \in Seq(Nat)
    BY <1>1, <1>2
  <2>2. (<< 0 >> \o DataFrom(0)) \o ParityPart = << 0 >> \o (DataFrom(0) \o ParityPart)
        /\ DataFrom(0) \o ParityPart \in Seq(Nat)
    <3>1. << 0 >> \in Seq(Nat)
      OBVIOUS
    <3> QED BY <1>2, <2>1, <3>1, ConcatAssociative, ConcatProperties
  <2>3. Remaining = (<< 0 >> \o (DataFrom(0) \o ParityPart)) \o Ones(tx.stop_bits)
    BY <1>5, <2>2 DEF Remaining
  <2>4. Remaining # << >> /\ Head(Remaining) = 0
    BY <1>2, <2>2, <2>3, TailOfParts
  <2> QED BY <1>1, <1>5, <2>4 DEF Promise!Level, LevelNow
<1>6. CASE tx.state = "DATA"
  <2> DEFINE b == tx.bit_index
  <2>1. DataFrom(b) = << tx.data[b] >> \o DataFrom(b + 1) /\ tx.data[b] \in Nat
    BY <1>1, DataRecur
  <2>2. b + 1 \in 0 .. tx.data_bits
    BY <1>1
  <2>3. DataFrom(b + 1) \in Seq(Nat)
    BY <1>2, <2>2
  <2>4. (<< tx.data[b] >> \o DataFrom(b + 1)) \o ParityPart = << tx.data[b] >> \o (DataFrom(b + 1) \o ParityPart)
        /\ DataFrom(b + 1) \o ParityPart \in Seq(Nat)
    <3>1. << tx.data[b] >> \in Seq(Nat)
      BY <2>1
    <3> QED BY <1>2, <2>3, <3>1, ConcatAssociative, ConcatProperties
  <2>5. Remaining = (<< tx.data[b] >> \o (DataFrom(b + 1) \o ParityPart)) \o Ones(tx.stop_bits)
    BY <1>6, <2>1, <2>4 DEF Remaining
  <2>6. Remaining # << >> /\ Head(Remaining) = tx.data[b]
    BY <1>2, <2>1, <2>4, <2>5, TailOfParts
  <2> QED BY <1>1, <1>6, <2>6 DEF Promise!Level, LevelNow
<1>7. CASE tx.state = "PARITY"
  <2>1. Remaining = << tx.parity_bit >> \o Ones(tx.stop_bits)
    BY <1>1, <1>7 DEF Remaining, ParityPart
  <2>2. Remaining # << >> /\ Head(Remaining) = tx.parity_bit
    BY <1>1, <1>2, <2>1, FirstAndRest
  <2> QED BY <1>1, <1>7, <2>2 DEF Promise!Level, LevelNow
<1>8. CASE tx.state = "STOP"
  <2>1. tx.stop_bits - tx.stop_bit_index - 1 \in Nat
        /\ (tx.stop_bits - tx.stop_bit_index - 1) + 1 = tx.stop_bits - tx.stop_bit_index
    BY <1>1
  <2>2. Remaining = Ones(tx.stop_bits - tx.stop_bit_index)
    BY <1>8 DEF Remaining, Stops
  <2>3. Remaining # << >> /\ Head(Remaining) = 1
    BY <2>1, <2>2, OnesRecur
  <2> QED BY <1>1, <1>8, <2>3 DEF Promise!Level, LevelNow
<1> QED BY <1>1, <1>4, <1>5, <1>6, <1>7, <1>8

\* An edge on which no frame begins: a baud tick takes the first level away, and
\* the event comes with the last one.
LEMMA RemainingStep ==
  ASSUME TxInv, NEW tick \in BOOLEAN, tx.state # "IDLE", NEW c, NEW start, NEW data,
         TxEdge(c, tick, start, data)
  PROVE  /\ Remaining' = IF tick THEN Tail(Remaining) ELSE Remaining
         /\ tx'.done = (tx'.state = "IDLE")
<1>1. /\ tx.state \in {"START", "DATA", "PARITY", "STOP"} /\ TxTypeOK
      /\ tx.bit_index \in 0 .. tx.data_bits - 1 /\ tx.data_bits \in 5 .. 8
      /\ tx.stop_bits \in 1 .. 2 /\ tx.stop_bit_index \in 0 .. tx.stop_bits - 1
      /\ tx.parity_bit \in Nat
      /\ (tx.state = "PARITY" => parity_is_enabled(tx.parity_mode))
  BY DEF TxInv, TxTypeOK, Bit
<1>2. /\ ParityPart \in Seq(Nat) /\ Ones(tx.stop_bits) \in Seq(Nat)
      /\ \A b \in 0 .. tx.data_bits : DataFrom(b) \in Seq(Nat)
  <2>1. ASSUME NEW b \in 0 .. tx.data_bits PROVE DataFrom(b) \in Seq(Nat) /\ ParityPart \in Seq(Nat)
    BY PartTypes
  <2>2. 0 \in 0 .. tx.data_bits /\ tx.stop_bits \in Nat
    BY <1>1
  <2>3. Ones(tx.stop_bits) \in Seq(Nat)
    BY <2>2, OnesRecur
  <2> QED BY <2>1, <2>2, <2>3
<1>3. TxHold(tick) \/ TxStart(tick) \/ TxData(tick) \/ TxDataEnds(tick) \/ TxParity(tick) \/ TxStop(tick)
  BY DEF TxEdge, TxIdle, TxLaunch
<1>4. CASE TxHold(tick)
  <2>1. ~tick
    BY <1>4 DEF TxHold
  <2> DEFINE l == IF tx.state = "STOP" THEN 1 ELSE tx.line
  <2>2. tx' = TxWith(tx.state, tx.bit_index, tx.stop_bit_index, l, FALSE)
    BY <1>1, <1>4, TxHoldForm
  <2> HIDE DEF l
  <2>3. Remaining' = Remaining /\ tx'.state = tx.state /\ tx'.done = FALSE
    <3>1. tx.state \in {"IDLE", "START", "DATA", "PARITY", "STOP"}
      BY <1>1
    <3>2. /\ tx'.state = tx.state /\ tx'.done = FALSE
          /\ tx.state = "START"  => Remaining' = << 0 >> \o DataFrom(0) \o ParityPart \o Ones(tx.stop_bits)
          /\ tx.state = "DATA"   => Remaining' = DataFrom(tx.bit_index) \o ParityPart \o Ones(tx.stop_bits)
          /\ tx.state = "PARITY" => Remaining' = ParityPart \o Ones(tx.stop_bits)
          /\ tx.state = "STOP"   => Remaining' = Ones(tx.stop_bits - tx.stop_bit_index)
      BY <2>2, <3>1, RemainingWith
    <3> QED BY <1>1, <3>2 DEF Remaining, Stops
  <2> QED BY <1>1, <2>1, <2>3
<1>5. CASE TxStart(tick)
  <2>1. tick /\ tx.state = "START"
    BY <1>5 DEF TxStart
  <2>2. tx' = TxWith("DATA", 0, tx.stop_bit_index, tx.data[0], FALSE)
    BY <1>1, <1>5, TxStartForm
  <2>3. Remaining' = (DataFrom(0) \o ParityPart) \o Ones(tx.stop_bits) /\ tx'.state = "DATA" /\ tx'.done = FALSE
    BY <2>2, RemainingWith
  <2>4. DataFrom(0) \in Seq(Nat) /\ DataFrom(0) \o ParityPart \in Seq(Nat) /\ << 0 >> \in Seq(Nat)
    <3>1. 0 \in 0 .. tx.data_bits
      BY <1>1
    <3> QED BY <1>2, <3>1, ConcatProperties
  <2>5. (<< 0 >> \o DataFrom(0)) \o ParityPart = << 0 >> \o (DataFrom(0) \o ParityPart)
    BY <1>2, <2>4, ConcatAssociative
  <2>6. Remaining = (<< 0 >> \o (DataFrom(0) \o ParityPart)) \o Ones(tx.stop_bits)
    BY <2>1, <2>5 DEF Remaining
  <2>7. Tail(Remaining) = (DataFrom(0) \o ParityPart) \o Ones(tx.stop_bits)
    BY <1>2, <2>4, <2>6, TailOfParts
  <2> QED BY <2>1, <2>3, <2>7
<1>6. CASE tx.state = "DATA" /\ (TxData(tick) \/ TxDataEnds(tick))
  <2> DEFINE b == tx.bit_index
  <2>1. tick
    BY <1>6 DEF TxData, TxDataEnds
  <2>2. b \in 0 .. tx.data_bits - 1 /\ b + 1 \in 0 .. tx.data_bits
    BY <1>1
  <2>3. DataFrom(b) = << tx.data[b] >> \o DataFrom(b + 1) /\ tx.data[b] \in Nat /\ DataFrom(tx.data_bits) = << >>
    BY <2>2, DataRecur
  <2>4. DataFrom(b + 1) \in Seq(Nat) /\ DataFrom(b + 1) \o ParityPart \in Seq(Nat) /\ << tx.data[b] >> \in Seq(Nat)
    BY <1>2, <2>2, <2>3, ConcatProperties
  <2>5. (<< tx.data[b] >> \o DataFrom(b + 1)) \o ParityPart = << tx.data[b] >> \o (DataFrom(b + 1) \o ParityPart)
    BY <1>2, <2>4, ConcatAssociative
  <2>6. Remaining = (<< tx.data[b] >> \o (DataFrom(b + 1) \o ParityPart)) \o Ones(tx.stop_bits)
    BY <1>6, <2>3, <2>5 DEF Remaining
  <2>7. Tail(Remaining) = (DataFrom(b + 1) \o ParityPart) \o Ones(tx.stop_bits)
    BY <1>2, <2>3, <2>4, <2>6, TailOfParts
  <2>8. CASE TxData(tick)
    <3>1. tx' = TxWith("DATA", b + 1, tx.stop_bit_index, tx.data[b + 1], FALSE)
      BY <1>1, <2>8, TxDataForm
    <3>2. Remaining' = (DataFrom(b + 1) \o ParityPart) \o Ones(tx.stop_bits) /\ tx'.state = "DATA" /\ tx'.done = FALSE
      BY <3>1, RemainingWith
    <3> QED BY <2>1, <2>7, <3>2
  <2>9. CASE TxDataEnds(tick)
    <3>1. b + 1 = tx.data_bits
      BY <1>1, <2>9 DEF TxDataEnds
    <3>2. DataFrom(b + 1) = << >> /\ << >> \o ParityPart = ParityPart
      BY <1>2, <2>3, <3>1, ConcatEmptySeq
    <3>3. Tail(Remaining) = ParityPart \o Ones(tx.stop_bits)
      BY <2>7, <3>2
    <3>4. CASE parity_is_enabled(tx.parity_mode)
      <4>1. tx' = TxWith("PARITY", 0, tx.stop_bit_index, tx.parity_bit, FALSE)
        BY <1>1, <2>9, <3>4, TxDataEndsForm
      <4>2. Remaining' = ParityPart \o Ones(tx.stop_bits) /\ tx'.state = "PARITY" /\ tx'.done = FALSE
        BY <4>1, RemainingWith
      <4> QED BY <2>1, <3>3, <4>2
    <3>5. CASE ~parity_is_enabled(tx.parity_mode)
      <4>1. tx' = TxWith("STOP", 0, 0, 1, FALSE)
        BY <1>1, <2>9, <3>5, TxDataEndsForm
      <4>2. Remaining' = Ones(tx.stop_bits - 0) /\ tx'.state = "STOP" /\ tx'.done = FALSE
        BY <4>1, RemainingWith
      <4>3. ParityPart = << >> /\ << >> \o Ones(tx.stop_bits) = Ones(tx.stop_bits) /\ tx.stop_bits - 0 = tx.stop_bits
        BY <1>1, <1>2, <3>5, ConcatEmptySeq DEF ParityPart
      <4> QED BY <2>1, <3>3, <4>2, <4>3
    <3> QED BY <3>4, <3>5
  <2> QED BY <1>6, <2>8, <2>9
<1>7. CASE TxParity(tick)
  <2>1. tick /\ tx.state = "PARITY"
    BY <1>7 DEF TxParity
  <2>2. tx' = TxWith("STOP", tx.bit_index, 0, 1, FALSE)
    BY <1>1, <1>7, TxParityForm
  <2>3. Remaining' = Ones(tx.stop_bits - 0) /\ tx'.state = "STOP" /\ tx'.done = FALSE
    BY <2>2, RemainingWith
  <2>4. Remaining = << tx.parity_bit >> \o Ones(tx.stop_bits)
    BY <1>1, <2>1 DEF Remaining, ParityPart
  <2>5. Tail(Remaining) = Ones(tx.stop_bits) /\ tx.stop_bits - 0 = tx.stop_bits
    BY <1>1, <1>2, <2>4, FirstAndRest
  <2> QED BY <2>1, <2>3, <2>5
<1>8. CASE TxStop(tick)
  <2> DEFINE k == tx.stop_bits - tx.stop_bit_index - 1
  <2>1. tick /\ tx.state = "STOP"
    BY <1>8 DEF TxStop
  <2>2. k \in Nat /\ k + 1 = tx.stop_bits - tx.stop_bit_index /\ k = tx.stop_bits - (tx.stop_bit_index + 1)
    BY <1>1
  <2>3. Remaining = Ones(k + 1)
    BY <2>1, <2>2 DEF Remaining, Stops
  <2>4. Tail(Remaining) = Ones(k) /\ (k = 0 => Ones(k) = << >>)
    BY <2>2, <2>3, OnesRecur
  <2>5. CASE tx.stop_bit_index = tx.stop_bits - 1
    <3>1. tx' = TxWith("IDLE", tx.bit_index, tx.stop_bit_index, 1, TRUE)
      BY <1>1, <1>8, <2>5, TxStopForm
    <3>2. Remaining' = << >> /\ tx'.state = "IDLE" /\ tx'.done = TRUE
      BY <3>1, RemainingWith
    <3>3. k = 0
      BY <1>1, <2>5
    <3> QED BY <2>1, <2>4, <3>2, <3>3
  <2>6. CASE tx.stop_bit_index # tx.stop_bits - 1
    <3>1. tx' = TxWith("STOP", tx.bit_index, tx.stop_bit_index + 1, 1, FALSE)
      BY <1>1, <1>8, <2>6, TxStopForm
    <3>2. Remaining' = Ones(tx.stop_bits - (tx.stop_bit_index + 1)) /\ tx'.state = "STOP" /\ tx'.done = FALSE
      BY <3>1, RemainingWith
    <3> QED BY <2>1, <2>2, <2>4, <3>2
  <2> QED BY <2>5, <2>6
<1> QED BY <1>3, <1>4, <1>5, <1>6, <1>7, <1>8 DEF TxData, TxDataEnds

\* The frame that begins is the one that the format promises.
LEMMA LaunchFrame ==
  ASSUME NEW c \in Config, NEW data \in Byte, NEW start, TxLaunch(c, start, data)
  PROVE  Remaining' = Frame(data, c) /\ tx'.state = "START" /\ tx'.done = FALSE
<1> DEFINE n == decode_data_bits(c.data_bits)
           m == decode_stop_bits(c.stop_bits)
           p == calc_parity_bit(data, n, c.parity_mode)
           g == GoodParity(data, n, c.parity_mode)
           d == [i \in 1 .. n |-> data[i - 1]]
           pp == IF parity_is_enabled(c.parity_mode) THEN << p >> ELSE << >>
<1>1. n \in 5 .. 8 /\ c.parity_mode \in Codes
  BY DEF decode_data_bits, Config, Codes
<1>2. /\ tx'.state = "START" /\ tx'.data = data /\ tx'.data_bits = n /\ tx'.stop_bits = m
      /\ tx'.parity_mode = c.parity_mode /\ tx'.parity_bit = p /\ tx'.done = FALSE
  BY DEF TxLaunch
<1>3. parity_is_enabled(c.parity_mode) => g = p
  BY <1>1, ParityIsGood
<1> HIDE DEF n, p, g
<1>4. DataFrom(0)' = d
  <2>1. DataFrom(0)' = [i \in 1 .. n - 0 |-> data[0 + i - 1]]
    BY <1>2 DEF DataFrom
  <2>2. n - 0 = n /\ \A i \in 1 .. n : 0 + i - 1 = i - 1
    BY <1>1
  <2> QED BY <2>1, <2>2
<1>5. ParityPart' = pp
  BY <1>2 DEF ParityPart
<1>6. Ones(tx.stop_bits)' = Ones(StopsOf(c))
  BY <1>2 DEF Ones, StopsOf, decode_stop_bits
<1>7. Remaining' = << 0 >> \o d \o pp \o Ones(StopsOf(c))
  BY <1>2, <1>4, <1>5, <1>6 DEF Remaining
<1>8. Frame(data, c) = << 0 >> \o d \o (IF c.parity_mode \in {PARITY_EVEN, PARITY_ODD} THEN << g >> ELSE << >>)
                       \o Ones(StopsOf(c))
  BY DEF Frame, FrameWith, n, g, Ones
<1>9. (IF c.parity_mode \in {PARITY_EVEN, PARITY_ODD} THEN << g >> ELSE << >>) = pp
  BY <1>3 DEF parity_is_enabled
<1> QED BY <1>2, <1>7, <1>8, <1>9

\* The transmitter's registers and inputs.
LineInv == TxInv /\ cfg \in Cfgs /\ inc \in Incs /\ io \in [tick : BOOLEAN, launch : BOOLEAN] /\ Baud!BaudTypeOK

LEMMA LineInvInit == Init => LineInv /\ Promise!LineInit
<1> SUFFICES ASSUME Init PROVE LineInv /\ Promise!LineInit
  OBVIOUS
<1>1. tx = TxReset /\ baud = Baud!BaudReset /\ cfg \in Cfgs /\ inc \in Incs
      /\ io = [tick |-> FALSE, launch |-> FALSE]
  BY DEF Init
<1>2. TxInv
  BY <1>1, TxInit
<1>3. Baud!BaudTypeOK
  BY <1>1, LoopInputs DEF Baud!BaudTypeOK, Baud!BaudReset
<1>4. Remaining = << >> /\ tx.line = 1 /\ tx.done = FALSE
  BY <1>1 DEF TxReset, Remaining
<1> QED BY <1>1, <1>2, <1>3, <1>4 DEF LineInv, Promise!LineInit

LEMMA BaudStep ==
  ASSUME Baud!BaudTypeOK, NEW enable \in BOOLEAN, NEW i \in Nat, Baud!BaudEdge(enable, i)
  PROVE  Baud!BaudTypeOK'
<1>1. CASE ~enable
  BY <1>1, LoopInputs DEF Baud!BaudEdge, Baud!BaudTypeOK, Baud!BaudReset
<1>2. CASE enable
  <2> DEFINE carry == baud.acc + i >= AccSize
             last  == baud.count = OVERSAMPLE - 1
  <2>1. baud' = [acc   |-> (baud.acc + i) % AccSize,
                 count |-> CASE ~carry         -> baud.count
                             [] carry /\ last  -> 0
                             [] carry /\ ~last -> baud.count + 1,
                 oversample_tick |-> carry,
                 baud_tick       |-> carry /\ last]
    BY <1>2 DEF Baud!BaudEdge, Baud!Carry, Baud!OS_LAST
  <2>2. /\ AccSize \in Nat \ {0} /\ OVERSAMPLE \in Nat \ {0}
        /\ baud.acc \in 0 .. AccSize - 1 /\ baud.count \in 0 .. OVERSAMPLE - 1
    BY LoopInputs DEF Baud!BaudTypeOK
  <2>3. (baud.acc + i) % AccSize \in 0 .. AccSize - 1
    <3>1. baud.acc + i \in Nat
      BY <2>2
    <3> QED BY <2>2, <3>1
  <2>4. carry \in BOOLEAN /\ (carry /\ last) \in BOOLEAN
    OBVIOUS
  <2>5. baud'.count \in 0 .. OVERSAMPLE - 1
    BY <2>1, <2>2
  <2> HIDE DEF carry, last
  <2> QED BY <2>1, <2>3, <2>4, <2>5 DEF Baud!BaudTypeOK
<1> QED BY <1>1, <1>2

\* A clock edge is an edge of the serial line.
LEMMA LineStep ==
  ASSUME LineInv, NEW offered \in BOOLEAN, NEW data \in Bytes, Clock(offered, data)
  PROVE  LineInv' /\ Promise!LineNext
<1> DEFINE tick == baud.baud_tick
           start == tx_start(offered)
<1>1. /\ TxEdge(cfg, tick, start, data) /\ Baud!BaudEdge(cfg.enable, inc)
      /\ io' = [tick |-> tick, launch |-> start] /\ UNCHANGED << cfg, inc >>
  BY DEF Clock
<1>2. /\ cfg \in Config /\ data \in Byte /\ tick \in BOOLEAN /\ start \in BOOLEAN
  BY LoopInputs DEF LineInv, Baud!BaudTypeOK, tx_start
<1>3. start <=> tx.state = "IDLE" /\ Starts(cfg, start)
  BY <1>2 DEF tx_start, Starts, tx_ready_for_start
<1> HIDE DEF start
<1>4. TxInv'
  BY <1>1, <1>2, TxStep DEF LineInv
<1>5. TxInv
  BY DEF LineInv
<1>6. /\ (Remaining = << >>) <=> tx.state = "IDLE"
      /\ tx.line = Promise!Level(Remaining)
  BY <1>5, RemainingFirst
<1>7. /\ (Remaining' = << >>) <=> tx'.state = "IDLE"
      /\ tx'.line = Promise!Level(Remaining')
  <2>1. TxInv' => /\ ((Remaining = << >>) <=> tx.state = "IDLE")'
                  /\ (tx.line = Promise!Level(Remaining))'
    BY RemainingFirst, PTL
  <2> QED BY <1>4, <2>1 DEF Promise!Level
<1>8. Promise!Edge(tick, start)
  <2>1. CASE tx.state # "IDLE"
    <3>1. Remaining' = (IF tick THEN Tail(Remaining) ELSE Remaining) /\ tx'.done = (tx'.state = "IDLE")
      BY <1>1, <1>2, <1>5, <2>1, RemainingStep
    <3> QED BY <1>1, <1>6, <1>7, <2>1, <3>1 DEF Promise!Edge
  <2>2. CASE TxIdle(cfg, start)
    <3>1. tx.state = "IDLE" /\ ~start
      BY <1>3, <2>2 DEF TxIdle
    <3>2. tx' = TxWith("IDLE", 0, 0, 1, FALSE)
      BY <1>5, <2>2, TxIdleForm DEF TxInv
    <3>3. Remaining' = << >> /\ tx'.done = FALSE
      BY <3>2, RemainingWith
    <3> QED BY <1>1, <1>6, <1>7, <3>1, <3>3 DEF Promise!Edge
  <2>3. CASE TxLaunch(cfg, start, data)
    <3>1. tx.state = "IDLE" /\ start
      BY <1>3, <2>3 DEF TxLaunch
    <3>2. Remaining' = Frame(data, cfg) /\ tx'.state = "START" /\ tx'.done = FALSE
      BY <1>2, <2>3, LaunchFrame
    <3>3. Frame(data, cfg) \in FrameSet
      BY DEF FrameSet, LineInv
    <3> QED BY <1>1, <1>6, <1>7, <3>1, <3>2, <3>3 DEF Promise!Edge
  <2> QED BY <1>1, <2>1, <2>2, <2>3
          DEF TxEdge, TxHold, TxStart, TxData, TxDataEnds, TxParity, TxStop
<1>9. Promise!LineNext
  BY <1>2, <1>8 DEF Promise!LineNext
<1>10. Baud!BaudTypeOK'
  <2>1. cfg.enable \in BOOLEAN /\ inc \in Nat
    BY <1>2, LoopInputs DEF LineInv, Config
  <2> QED BY <1>1, <2>1, BaudStep DEF LineInv
<1> QED BY <1>1, <1>2, <1>4, <1>9, <1>10 DEF LineInv
\* uart_tx.sv:151-269 puts whole frames on the line: the start bit, the data bits
\* of the format lowest first, the parity over these alone, the stop bits, each
\* until the next baud tick, whatever becomes of the configuration inputs and of
\* the rate meanwhile.
THEOREM TransmitterKeepsFrames == Spec => ImplementsSerialLine
<1> DEFINE outs == << Remaining, tx.line, tx.done, io >>
<1>1. LineInv /\ [Next]_vars => LineInv' /\ [Promise!LineNext]_outs
  <2> SUFFICES ASSUME LineInv, [Next]_vars PROVE LineInv' /\ [Promise!LineNext]_outs
    OBVIOUS
  <2>1. CASE Clocks
    BY <2>1, LineStep DEF Clocks
  <2>2. ASSUME UNCHANGED << baud, tx, io >>, cfg' \in Cfgs, inc' \in Incs
        PROVE  LineInv' /\ [Promise!LineNext]_outs
    <3>1. Remaining' = Remaining
      BY <2>2 DEF Remaining, Stops, ParityPart, DataFrom
    <3>2. LineInv'
      BY <2>2 DEF LineInv, TxInv, TxTypeOK, LevelNow, Baud!BaudTypeOK
    <3> QED BY <2>2, <3>1, <3>2
  <2>3. CASE \E c \in Cfgs : Reconfigure(c)
    <3>1. UNCHANGED << baud, tx, io, inc >> /\ cfg' \in Cfgs
      BY <2>3 DEF Reconfigure
    <3> QED BY <2>2, <3>1 DEF LineInv
  <2>4. CASE \E i \in Incs : SetRate(i)
    <3>1. UNCHANGED << baud, tx, io, cfg >> /\ inc' \in Incs
      BY <2>4 DEF SetRate
    <3> QED BY <2>2, <3>1 DEF LineInv
  <2>5. CASE UNCHANGED vars
    BY <2>2, <2>5 DEF vars, LineInv
  <2> QED BY <2>1, <2>3, <2>4, <2>5 DEF Next
<1> QED BY <1>1, LineInvInit, PTL DEF Spec, ImplementsSerialLine, Promise!LineSpec

-----------------------------------------------------------------------------
(* The transmitter and the receiver on one generator.                       *)

\* What the generator's registers say together.
BaudInv ==
  /\ Baud!BaudTypeOK
  /\ baud.baud_tick => baud.oversample_tick /\ baud.count = 0
  /\ baud.oversample_tick /\ ~baud.baud_tick => baud.count >= 1

\* The oversample ticks that the two sides have acted on since the latest baud tick
\* that they acted on; a tick that is shown at this edge is yet to be acted on.
Elapsed == IF baud.baud_tick THEN OVERSAMPLE - 1
           ELSE IF baud.oversample_tick THEN baud.count - 1 ELSE baud.count

RxInv ==
  /\ RxTypeOK
  /\ rx.data_bit_index < rx.data_bits /\ rx.stop_bit_index < rx.stop_bits
  /\ Sampling => rx.sample_count <= Last
  /\ rx.state = "PARITY" => parity_is_enabled(rx.parity_mode)

\* The bit of the frame that each side is at, the start bit being 0.
RxParityBits == IF parity_is_enabled(rx.parity_mode) THEN 1 ELSE 0
TxPos == CASE tx.state = "START"  -> 0
           [] tx.state = "DATA"   -> 1 + tx.bit_index
           [] tx.state = "PARITY" -> 1 + tx.data_bits
           [] tx.state = "STOP"   -> 1 + tx.data_bits + ParityBits + tx.stop_bit_index
RxPos == CASE rx.state = "START"  -> 0
           [] rx.state = "DATA"   -> 1 + rx.data_bit_index
           [] rx.state = "PARITY" -> 1 + rx.data_bits
           [] rx.state = "STOP"   -> 1 + rx.data_bits + RxParityBits + rx.stop_bit_index

Half == OVERSAMPLE \div 2

\* The receiver samples bit RxPos between Half - 1 and Half + 3 ticks after its beginning.
Aligned ==
  IF rx.state = "START" THEN TxPos = 0 /\ Elapsed - rx.sample_count \in 0 .. 4
  ELSE \/ TxPos = RxPos - 1 /\ Elapsed - (Half + rx.sample_count) \in 0 .. 4
       \/ TxPos = RxPos /\ Elapsed + OVERSAMPLE - (Half + rx.sample_count) \in 0 .. 4

\* The level of the present bit has come so far through the synchroniser.
Settled == /\ Elapsed >= 1 => sync[1] = tx.line
           /\ Elapsed >= 2 => sync[2] = tx.line
           /\ Elapsed >= 3 => sync[3] = tx.line

SameFormat == /\ rx.data_bits = tx.data_bits /\ rx.stop_bits = tx.stop_bits
              /\ rx.parity_mode = tx.parity_mode

\* The data bits that have been sampled.
Got == CASE rx.state = "START" -> 0
         [] rx.state = "DATA"  -> rx.data_bit_index
         [] OTHER              -> rx.data_bits

LastStop == tx.state = "STOP" /\ tx.stop_bit_index = tx.stop_bits - 1
High == sync = << 1, 1, 1 >>
Sent == Masked(tx.data, tx.data_bits)

Rests ==
  /\ rx.state = "IDLE" /\ High /\ (tx.state = "IDLE" \/ LastStop)
  /\ rx.start_armed \/ rx.char_valid
  /\ rx.char_valid => rx.errors = NoErrors
  /\ rx.char_valid /\ tx.state = "IDLE" => Elapsed <= 1
  /\ flight = IF rx.char_valid THEN << rx.data >> ELSE << >>

Begun ==
  /\ rx.state = "IDLE" /\ rx.start_armed /\ ~rx.char_valid /\ tx.state = "START"
  /\ cfg.rx_enable
  /\ decode_data_bits(cfg.data_bits) = tx.data_bits /\ decode_stop_bits(cfg.stop_bits) = tx.stop_bits
  /\ cfg.parity_mode = tx.parity_mode
  /\ flight = << Sent >>
  /\ \/ sync = << 1, 1, 1 >> /\ Elapsed <= 0
     \/ sync = << 0, 1, 1 >> /\ Elapsed <= 1
     \/ sync = << 0, 0, 1 >> /\ Elapsed <= 2
     \/ sync = << 0, 0, 0 >> /\ Elapsed <= 3

Sampled ==
  /\ Sampling /\ tx.state # "IDLE" /\ SameFormat
  /\ rx.errors = NoErrors /\ ~rx.stop_low_seen /\ ~rx.char_valid
  /\ rx.state = "START" => rx.data_bit_index = 0
  /\ rx.state # "STOP" => rx.stop_bit_index = 0
  /\ flight = << Sent >> /\ rx.data = Masked(tx.data, Got)
  /\ Settled /\ Aligned

Ended ==
  /\ rx.state = "DONE" /\ High /\ (LastStop \/ (tx.state = "IDLE" /\ Elapsed = 0))
  /\ rx.errors = NoErrors /\ ~rx.char_valid /\ flight = << rx.data >>

LinkInv ==
  /\ BaudInv /\ TxInv /\ RxInv
  /\ ~cfg.enable => tx.state = "IDLE" /\ flight = << >>
  /\ Rests \/ Begun \/ Sampled \/ Ended

\* An edge of both sides and of the generator between them; a launch is at a baud tick.
LinkEdge(start, data) ==
  /\ Baud!BaudEdge(cfg.enable, inc)
  /\ TxEdge(cfg, baud.baud_tick, start, data)
  /\ SyncEdge(tx.line)
  /\ RxEdge(cfg, baud.oversample_tick)
  /\ flight' = IF start THEN Append(Received, Masked(data, decode_data_bits(cfg.data_bits)))
               ELSE Received
  /\ cfg' = cfg
  /\ start => /\ data \in Byte /\ cfg.enable /\ cfg.tx_enable /\ cfg.rx_enable
              /\ tx.state = "IDLE" /\ baud.baud_tick

\* Ticks are counted without a gap: a baud tick is acted on when OVERSAMPLE - 1 others
\* have been, and the count begins again.
LEMMA ElapsedStep ==
  ASSUME BaudInv, OVERSAMPLE >= 8, NEW enable \in BOOLEAN, NEW i \in Nat, Baud!BaudEdge(enable, i)
  PROVE  /\ BaudInv'
         /\ Elapsed \in 0 .. OVERSAMPLE - 1 /\ Elapsed' \in 0 .. OVERSAMPLE - 1
         /\ baud.baud_tick <=> baud.oversample_tick /\ Elapsed = OVERSAMPLE - 1
         /\ baud.baud_tick \/ ~enable => Elapsed' = 0
         /\ enable /\ baud.oversample_tick /\ ~baud.baud_tick => Elapsed' = Elapsed + 1
         /\ enable /\ ~baud.oversample_tick => Elapsed' = Elapsed
<1>1. /\ AccSize \in Nat \ {0} /\ OVERSAMPLE \in Nat \ {0}
      /\ baud.acc \in 0 .. AccSize - 1 /\ baud.count \in 0 .. OVERSAMPLE - 1
      /\ baud.oversample_tick \in BOOLEAN /\ baud.baud_tick \in BOOLEAN
      /\ (baud.baud_tick => baud.oversample_tick /\ baud.count = 0)
      /\ (baud.oversample_tick /\ ~baud.baud_tick => baud.count >= 1)
  BY LoopInputs DEF BaudInv, Baud!BaudTypeOK
<1>4. /\ Elapsed \in 0 .. OVERSAMPLE - 1
      /\ baud.baud_tick <=> baud.oversample_tick /\ Elapsed = OVERSAMPLE - 1
      /\ baud.baud_tick => Elapsed = OVERSAMPLE - 1
      /\ baud.oversample_tick /\ ~baud.baud_tick => Elapsed + 1 = baud.count
      /\ ~baud.oversample_tick => Elapsed = baud.count
  BY <1>1 DEF Elapsed
<1>2. CASE ~enable
  <2>1. baud' = [acc |-> 0, count |-> 0, oversample_tick |-> FALSE, baud_tick |-> FALSE]
    BY <1>2 DEF Baud!BaudEdge, Baud!BaudReset
  <2>2. BaudInv' /\ Elapsed' = 0
    BY <1>1, <2>1 DEF BaudInv, Baud!BaudTypeOK, Elapsed
  <2> QED BY <1>1, <1>2, <1>4, <2>2
<1>3. CASE enable
  <2> DEFINE carry == baud.acc + i >= AccSize
             last  == baud.count = OVERSAMPLE - 1
             acc   == (baud.acc + i) % AccSize
  <2>1. baud' = [acc   |-> acc,
                 count |-> CASE ~carry         -> baud.count
                             [] carry /\ last  -> 0
                             [] carry /\ ~last -> baud.count + 1,
                 oversample_tick |-> carry,
                 baud_tick       |-> carry /\ last]
    BY <1>3 DEF Baud!BaudEdge, Baud!Carry, Baud!OS_LAST
  <2>2. acc \in 0 .. AccSize - 1
    <3>1. baud.acc + i \in Nat
      BY <1>1
    <3> QED BY <1>1, <3>1
  <2> HIDE DEF carry, acc
  <2>3. CASE ~carry
    <3>1. baud' = [acc |-> acc, count |-> baud.count, oversample_tick |-> FALSE, baud_tick |-> FALSE]
      <4>1. carry = FALSE /\ (carry /\ last) = FALSE
        BY <2>3, <2>1
      <4> QED BY <2>1, <2>3, <4>1
    <3>2. BaudInv' /\ Elapsed' = baud.count
      BY <1>1, <2>2, <3>1 DEF BaudInv, Baud!BaudTypeOK, Elapsed
    <3> QED BY <1>1, <1>3, <1>4, <3>2
  <2>4. CASE carry /\ last
    <3>1. baud' = [acc |-> acc, count |-> 0, oversample_tick |-> TRUE, baud_tick |-> TRUE]
      BY <2>1, <2>4
    <3>2. BaudInv' /\ Elapsed' = OVERSAMPLE - 1
      BY <1>1, <2>2, <3>1 DEF BaudInv, Baud!BaudTypeOK, Elapsed
    <3> QED BY <1>1, <1>3, <1>4, <2>4, <3>2
  <2>5. CASE carry /\ ~last
    <3>1. baud' = [acc |-> acc, count |-> baud.count + 1, oversample_tick |-> TRUE, baud_tick |-> FALSE]
      BY <2>1, <2>5
    <3>2. BaudInv' /\ Elapsed' = baud.count
      BY <1>1, <2>2, <2>5, <3>1 DEF BaudInv, Baud!BaudTypeOK, Elapsed
    <3> QED BY <1>1, <1>3, <1>4, <2>5, <3>2
  <2> QED BY <2>3, <2>4, <2>5
<1> QED BY <1>2, <1>3

\* An edge within a frame: the transmitter goes to the next bit at a baud tick and keeps
\* the frame's data and format.
LEMMA TxMoves ==
  ASSUME TxInv, tx.state # "IDLE", NEW tick \in BOOLEAN, NEW c, NEW start, NEW data,
         TxEdge(c, tick, start, data)
  PROVE  /\ tx'.data = tx.data /\ tx'.data_bits = tx.data_bits /\ tx'.stop_bits = tx.stop_bits
         /\ tx'.parity_mode = tx.parity_mode
         /\ ~tick => /\ tx'.state = tx.state /\ tx'.bit_index = tx.bit_index
                     /\ tx'.stop_bit_index = tx.stop_bit_index /\ tx'.line = tx.line
         /\ tick /\ LastStop => tx'.state = "IDLE"
         /\ tick /\ ~LastStop => tx'.state # "IDLE" /\ TxPos' = TxPos + 1
<1>1. /\ tx.state \in {"START", "DATA", "PARITY", "STOP"} /\ TxTypeOK
      /\ tx.bit_index \in 0 .. tx.data_bits - 1 /\ tx.data_bits \in 5 .. 8
      /\ tx.stop_bits \in 1 .. 2 /\ tx.stop_bit_index \in 0 .. tx.stop_bits - 1
      /\ (tx.state = "PARITY" => parity_is_enabled(tx.parity_mode))
      /\ (tx.state = "STOP" => tx.line = 1)
  BY DEF TxInv, TxTypeOK, LevelNow
<1>2. TxHold(tick) \/ TxStart(tick) \/ TxData(tick) \/ TxDataEnds(tick) \/ TxParity(tick) \/ TxStop(tick)
  BY DEF TxEdge, TxIdle, TxLaunch
<1>3. CASE TxHold(tick)
  <2> DEFINE l == IF tx.state = "STOP" THEN 1 ELSE tx.line
  <2>1. tx' = TxWith(tx.state, tx.bit_index, tx.stop_bit_index, l, FALSE)
    BY <1>1, <1>3, TxHoldForm
  <2>2. l = tx.line /\ ~tick
    BY <1>1, <1>3 DEF TxHold
  <2> HIDE DEF l
  <2> QED BY <2>1, <2>2 DEF TxWith
<1>4. CASE TxStart(tick)
  <2>1. tx' = TxWith("DATA", 0, tx.stop_bit_index, tx.data[0], FALSE)
    BY <1>1, <1>4, TxStartForm
  <2> QED BY <1>4, <2>1 DEF TxWith, TxStart, TxPos, LastStop
<1>5. CASE TxData(tick)
  <2>1. tx' = TxWith("DATA", tx.bit_index + 1, tx.stop_bit_index, tx.data[tx.bit_index + 1], FALSE)
    BY <1>1, <1>5, TxDataForm
  <2> QED BY <1>1, <1>5, <2>1 DEF TxWith, TxData, TxPos, LastStop
<1>6. CASE TxDataEnds(tick)
  <2>1. tx.state = "DATA" /\ tick /\ tx.bit_index = tx.data_bits - 1
    BY <1>6 DEF TxDataEnds
  <2>2. CASE parity_is_enabled(tx.parity_mode)
    <3>1. tx' = TxWith("PARITY", 0, tx.stop_bit_index, tx.parity_bit, FALSE)
      BY <1>1, <1>6, <2>2, TxDataEndsForm
    <3> QED BY <1>1, <2>1, <3>1 DEF TxWith, TxPos, LastStop
  <2>3. CASE ~parity_is_enabled(tx.parity_mode)
    <3>1. tx' = TxWith("STOP", 0, 0, 1, FALSE)
      BY <1>1, <1>6, <2>3, TxDataEndsForm
    <3> QED BY <1>1, <2>1, <2>3, <3>1 DEF TxWith, TxPos, LastStop, ParityBits
  <2> QED BY <2>2, <2>3
<1>7. CASE TxParity(tick)
  <2>1. tx' = TxWith("STOP", tx.bit_index, 0, 1, FALSE)
    BY <1>1, <1>7, TxParityForm
  <2>2. tx.state = "PARITY" /\ tick
    BY <1>7 DEF TxParity
  <2> QED BY <1>1, <2>1, <2>2 DEF TxWith, TxPos, LastStop, ParityBits
<1>8. CASE TxStop(tick)
  <2>1. tx.state = "STOP" /\ tick
    BY <1>8 DEF TxStop
  <2>2. CASE LastStop
    <3>1. tx' = TxWith("IDLE", tx.bit_index, tx.stop_bit_index, 1, TRUE)
      BY <1>1, <1>8, <2>2, TxStopForm DEF LastStop
    <3> QED BY <2>1, <2>2, <3>1 DEF TxWith
  <2>3. CASE ~LastStop
    <3>1. tx' = TxWith("STOP", tx.bit_index, tx.stop_bit_index + 1, 1, FALSE)
      BY <1>1, <1>8, <2>1, <2>3, TxStopForm DEF LastStop
    <3> QED BY <1>1, <2>1, <2>3, <3>1 DEF TxWith, TxPos, ParityBits
  <2> QED BY <2>2, <2>3
<1> QED BY <1>2, <1>3, <1>4, <1>5, <1>6, <1>7, <1>8

-----------------------------------------------------------------------------
(* The receiver by itself.                                                  *)

\* The receiver's registers with another state, counts, data and errors; the format and
\* the start detector as they are, the pulses over.
RxWith(state, count, b, s, data, zero, low, errors) ==
  [state |-> state, sample_count |-> count, data_bit_index |-> b, stop_bit_index |-> s,
   data_bits |-> rx.data_bits, stop_bits |-> rx.stop_bits, parity_mode |-> rx.parity_mode,
   data |-> data, all_data_zero |-> zero, stop_low_seen |-> low, errors |-> errors,
   start_armed |-> rx.start_armed, char_valid |-> FALSE, events |-> NoErrors]

LEMMA RxRanges ==
  ASSUME RxInv
  PROVE  /\ rx.state \in {"IDLE", "START", "DATA", "PARITY", "STOP", "DONE"}
         /\ rx.sample_count \in 0 .. OVERSAMPLE - 1
         /\ rx.data_bit_index \in 0 .. rx.data_bits - 1 /\ rx.stop_bit_index \in 0 .. rx.stop_bits - 1
         /\ rx.data_bits \in 5 .. 8 /\ rx.stop_bits \in 1 .. 2 /\ rx.parity_mode \in Codes
         /\ rx.data \in Byte /\ rx.all_data_zero \in BOOLEAN /\ rx.stop_low_seen \in BOOLEAN
         /\ rx.errors \in Errors /\ rx.start_armed \in BOOLEAN /\ rx.char_valid \in BOOLEAN
         /\ rx.events \in Errors /\ NoErrors \in Errors
         /\ sync = << sync[1], sync[2], sync[3] >>
         /\ sync[1] \in Bit /\ sync[2] \in Bit /\ sync[3] \in Bit
         /\ BIT_LAST = OVERSAMPLE - 1 /\ HALF_LAST \in 0 .. OVERSAMPLE - 1
         /\ OVERSAMPLE \in Nat /\ OVERSAMPLE - 1 \in Nat
<1>1. OVERSAMPLE \in Nat /\ OVERSAMPLE - 1 \in Nat
  BY LoopInputs
<1>2. HALF_LAST \in 0 .. OVERSAMPLE - 1
  BY <1>1 DEF HALF_LAST
<1>3. RxTypeOK
  BY DEF RxInv
<1>4. sync \in Bit \X Bit \X Bit
  BY <1>3 DEF RxTypeOK
<1>5. rx.data_bit_index < rx.data_bits /\ rx.stop_bit_index < rx.stop_bits
  BY DEF RxInv
<1>6. NoErrors \in Errors
  BY DEF NoErrors, Errors
<1> QED BY <1>1, <1>2, <1>3, <1>4, <1>5, <1>6 DEF RxTypeOK, BIT_LAST

LEMMA RxTypes ==
  ASSUME RxInv, OVERSAMPLE >= 8
  PROVE  /\ rx.state \in {"IDLE", "START", "DATA", "PARITY", "STOP", "DONE"}
         /\ rx.sample_count \in 0 .. OVERSAMPLE - 1
         /\ rx.data_bit_index \in 0 .. rx.data_bits - 1 /\ rx.stop_bit_index \in 0 .. rx.stop_bits - 1
         /\ rx.data_bits \in 5 .. 8 /\ rx.stop_bits \in 1 .. 2 /\ rx.parity_mode \in Codes
         /\ rx.data \in Byte /\ rx.all_data_zero \in BOOLEAN /\ rx.stop_low_seen \in BOOLEAN
         /\ rx.errors \in Errors /\ rx.start_armed \in BOOLEAN /\ rx.char_valid \in BOOLEAN
         /\ rx.events \in Errors /\ NoErrors \in Errors
         /\ sync = << sync[1], sync[2], sync[3] >>
         /\ sync[1] \in Bit /\ sync[2] \in Bit /\ sync[3] \in Bit
         /\ BIT_LAST = OVERSAMPLE - 1 /\ HALF_LAST = Half - 1 /\ Half \in 4 .. OVERSAMPLE - 4
         /\ OVERSAMPLE \in Nat /\ OVERSAMPLE - 1 \in Nat
<1>1. OVERSAMPLE \in Nat /\ OVERSAMPLE - 1 \in Nat
  BY LoopInputs
<1>2. HALF_LAST = Half - 1 /\ Half \in 4 .. OVERSAMPLE - 4
  BY <1>1 DEF HALF_LAST, Half
<1> QED BY <1>1, <1>2, RxRanges

LEMMA RxWaitForm ==
  ASSUME RxTypeOK, NEW t \in BOOLEAN, RxWait(t)
  PROVE  rx' = RxWith(rx.state, IF t THEN rx.sample_count + 1 ELSE rx.sample_count,
                      rx.data_bit_index, rx.stop_bit_index, rx.data, rx.all_data_zero,
                      rx.stop_low_seen, rx.errors)
BY DEF RxTypeOK, RxWait, Quiet, RxWith

LEMMA RxStartForm ==
  ASSUME RxTypeOK, NEW t \in BOOLEAN, RxStart(t)
  PROVE  rx' = RxWith(IF rx_sync = 0 THEN "DATA" ELSE "IDLE", 0,
                      rx.data_bit_index, rx.stop_bit_index, rx.data, rx.all_data_zero,
                      rx.stop_low_seen, rx.errors)
BY DEF RxTypeOK, RxStart, Quiet, RxWith

LEMMA RxDataForm ==
  ASSUME RxTypeOK, NEW t \in BOOLEAN, RxData(t)
  PROVE  rx' = RxWith(IF rx.data_bit_index # rx.data_bits - 1 THEN "DATA"
                      ELSE IF parity_is_enabled(rx.parity_mode) THEN "PARITY" ELSE "STOP",
                      0, IF rx.data_bit_index = rx.data_bits - 1 THEN 0 ELSE rx.data_bit_index + 1,
                      rx.stop_bit_index, [rx.data EXCEPT ![rx.data_bit_index] = rx_sync],
                      rx.all_data_zero /\ rx_sync = 0, rx.stop_low_seen, rx.errors)
<1>1. rx.data_bit_index % 8 = rx.data_bit_index
  BY DEF RxTypeOK
<1> DEFINE last == rx.data_bit_index = rx.data_bits - 1
           next == CASE ~last -> "DATA"
                     [] last /\ parity_is_enabled(rx.parity_mode)  -> "PARITY"
                     [] last /\ ~parity_is_enabled(rx.parity_mode) -> "STOP"
           z == rx.all_data_zero /\ rx_sync = 0
           d == [rx.data EXCEPT ![rx.data_bit_index] = rx_sync]
           b == IF last THEN 0 ELSE rx.data_bit_index + 1
<1>2. rx' = [Quiet EXCEPT !.sample_count = 0, !.data = d, !.all_data_zero = z,
                          !.data_bit_index = b, !.state = next]
  BY <1>1 DEF RxData, RxTypeOK, Quiet
<1>3. next = IF ~last THEN "DATA"
             ELSE IF parity_is_enabled(rx.parity_mode) THEN "PARITY" ELSE "STOP"
  OBVIOUS
<1> HIDE DEF next, z, d, b
<1>4. rx' = RxWith(next, 0, b, rx.stop_bit_index, d, z, rx.stop_low_seen, rx.errors)
  BY <1>2 DEF RxTypeOK, Quiet, RxWith
<1> QED BY <1>3, <1>4 DEF z, d, b

LEMMA RxParityForm ==
  ASSUME RxTypeOK, NEW t \in BOOLEAN, RxParity(t)
  PROVE  rx' = RxWith("STOP", 0, rx.data_bit_index, rx.stop_bit_index, rx.data, rx.all_data_zero,
                      rx.stop_low_seen,
                      [rx.errors EXCEPT !.parity_error =
                         calc_parity_error(rx.data, rx.parity_mode, rx_sync)])
<1> DEFINE e == calc_parity_error(rx.data, rx.parity_mode, rx_sync)
           errs == [rx.errors EXCEPT !.parity_error = e]
<1>1. rx' = [Quiet EXCEPT !.sample_count = 0, !.state = "STOP", !.errors = errs]
  BY DEF RxParity, RxTypeOK, Quiet
<1> HIDE DEF errs
<1>2. rx' = RxWith("STOP", 0, rx.data_bit_index, rx.stop_bit_index, rx.data, rx.all_data_zero,
                   rx.stop_low_seen, errs)
  BY <1>1 DEF RxTypeOK, Quiet, RxWith
<1> QED BY <1>2 DEF errs

LEMMA ErrorsExcept ==
  ASSUME NEW e \in Errors, NEW f \in BOOLEAN, NEW b \in BOOLEAN
  PROVE  [e EXCEPT !.frame_error = f, !.break_detect = b]
           = [frame_error |-> f, parity_error |-> e.parity_error, break_detect |-> b]
<1> DEFINE d == [e EXCEPT !.frame_error = f]
<1>1. [e EXCEPT !.frame_error = f, !.break_detect = b] = [d EXCEPT !.break_detect = b]
  OBVIOUS
<1>2. d \in Errors /\ d.frame_error = f /\ d.parity_error = e.parity_error
  BY DEF Errors
<1> HIDE DEF d
<1>3. [d EXCEPT !.break_detect = b] = [frame_error |-> d.frame_error, parity_error |-> d.parity_error, break_detect |-> b]
  BY <1>2 DEF Errors
<1> QED BY <1>1, <1>2, <1>3

LEMMA RxStopForm ==
  ASSUME RxTypeOK, NEW t \in BOOLEAN, RxStop(t)
  PROVE  LET last  == rx.stop_bit_index = rx.stop_bits - 1
             frame == rx.errors.frame_error \/ rx_sync = 0
             low   == rx.stop_low_seen \/ rx_sync = 0
         IN rx' = RxWith(IF last THEN "DONE" ELSE "STOP", 0, rx.data_bit_index,
                         IF last THEN 0 ELSE rx.stop_bit_index + 1, rx.data, rx.all_data_zero, low,
                         [frame_error |-> frame, parity_error |-> rx.errors.parity_error,
                          break_detect |-> IF last THEN frame /\ rx.all_data_zero /\ low
                                           ELSE rx.errors.break_detect])
<1> DEFINE last  == rx.stop_bit_index = rx.stop_bits - 1
           frame == rx.errors.frame_error \/ rx_sync = 0
           low   == rx.stop_low_seen \/ rx_sync = 0
           brk   == IF last THEN frame /\ rx.all_data_zero /\ low ELSE rx.errors.break_detect
           errs  == [frame_error |-> frame, parity_error |-> rx.errors.parity_error, break_detect |-> brk]
           s     == IF last THEN 0 ELSE rx.stop_bit_index + 1
           state == IF last THEN "DONE" ELSE "STOP"
<1>1. rx.errors \in Errors
  BY DEF RxTypeOK
<1>2. errs = [rx.errors EXCEPT !.frame_error = frame, !.break_detect = brk]
  <2>1. frame \in BOOLEAN /\ brk \in BOOLEAN
    <3>1. /\ rx.errors.frame_error \in BOOLEAN /\ rx.errors.break_detect \in BOOLEAN
          /\ rx.all_data_zero \in BOOLEAN /\ rx.stop_low_seen \in BOOLEAN
      BY DEF RxTypeOK, Errors
    <3>2. frame \in BOOLEAN /\ low \in BOOLEAN
      BY <3>1
    <3> HIDE DEF frame, low
    <3> QED BY <3>1, <3>2
  <2> HIDE DEF frame, brk
  <2> QED BY <1>1, <2>1, ErrorsExcept
<1>3. rx' = [Quiet EXCEPT !.sample_count = 0, !.errors = errs, !.stop_low_seen = low,
                          !.stop_bit_index = s, !.state = state]
  <2>1. rx' = [Quiet EXCEPT !.sample_count = 0, !.errors.frame_error = frame, !.stop_low_seen = low,
                            !.errors.break_detect = brk, !.stop_bit_index = s, !.state = state]
    BY DEF RxStop, RxTypeOK, Quiet
  <2> HIDE DEF frame, low, brk, s, state
  <2> QED BY <1>1, <1>2, <2>1 DEF RxTypeOK, Quiet, Errors
<1> HIDE DEF frame, low, brk, errs, s, state
<1>4. rx' = RxWith(state, 0, rx.data_bit_index, s, rx.data, rx.all_data_zero, low, errs)
  BY <1>3 DEF RxTypeOK, Quiet, RxWith
<1> QED BY <1>4 DEF frame, low, brk, errs, s, state

LEMMA RxWithInv ==
  ASSUME RxInv,
         NEW state \in {"IDLE", "START", "DATA", "PARITY", "STOP", "DONE"},
         NEW count \in 0 .. OVERSAMPLE - 1, NEW b \in 0 .. 7, NEW s \in 0 .. 1, NEW data \in Byte,
         NEW zero \in BOOLEAN, NEW low \in BOOLEAN, NEW errors \in Errors,
         rx' = RxWith(state, count, b, s, data, zero, low, errors),
         sync' \in Bit \X Bit \X Bit,
         b < rx.data_bits, s < rx.stop_bits,
         state = "START" => count <= HALF_LAST,
         state = "PARITY" => parity_is_enabled(rx.parity_mode)
  PROVE  RxInv'
<1>1. RxTypeOK' 
  BY RxRanges DEF RxTypeOK, RxWith, BIT_LAST
<1>2. /\ rx'.state = state /\ rx'.sample_count = count /\ rx'.data_bit_index = b
      /\ rx'.stop_bit_index = s /\ rx'.data_bits = rx.data_bits /\ rx'.stop_bits = rx.stop_bits
      /\ rx'.parity_mode = rx.parity_mode
  BY DEF RxWith
<1>3. (Sampling => rx.sample_count <= Last)'
  BY <1>2, RxRanges DEF Last, BIT_LAST, HALF_LAST
<1> QED BY <1>1, <1>2, <1>3 DEF RxInv
\* Every edge keeps the registers within the format.
LEMMA RxStep ==
  ASSUME RxInv, NEW c \in Config, NEW t \in BOOLEAN, NEW i \in Bit,
         RxEdge(c, t), SyncEdge(i)
  PROVE  RxInv'
<1> DEFINE b == rx.data_bit_index
           s == rx.stop_bit_index
<1>1. /\ RxTypeOK /\ b \in 0 .. 7 /\ s \in 0 .. 1 /\ b < rx.data_bits /\ s < rx.stop_bits
      /\ 0 \in 0 .. 7 /\ 0 \in 0 .. 1 /\ 0 < rx.data_bits /\ 0 < rx.stop_bits
      /\ 0 \in 0 .. OVERSAMPLE - 1 /\ 0 <= HALF_LAST
      /\ rx_sync \in Bit /\ (rx_sync = 0) \in BOOLEAN
      /\ rx.state \in {"IDLE", "START", "DATA", "PARITY", "STOP", "DONE"}
      /\ rx.data \in Byte /\ rx.all_data_zero \in BOOLEAN /\ rx.errors \in Errors
      /\ rx.stop_low_seen \in BOOLEAN
      /\ "STOP" \in {"IDLE", "START", "DATA", "PARITY", "STOP", "DONE"}
  BY RxRanges DEF RxInv, rx_sync
<1>2. sync' \in Bit \X Bit \X Bit
  BY RxRanges DEF SyncEdge
<1>3. CASE RxIdle(c)
  <2> DEFINE armed == (rx_sync = 1)
  <2>1. rx' = [Fresh EXCEPT !.start_armed = armed]
    BY <1>3 DEF RxIdle
  <2>2. armed \in BOOLEAN /\ rx.state = "IDLE"
    BY <1>3 DEF RxIdle
  <2> HIDE DEF armed
  <2>3. rx' = [state |-> "IDLE", sample_count |-> 0, data_bit_index |-> 0, stop_bit_index |-> 0,
               data_bits |-> rx.data_bits, stop_bits |-> rx.stop_bits, parity_mode |-> rx.parity_mode,
               data |-> rx.data, all_data_zero |-> rx.all_data_zero, stop_low_seen |-> FALSE,
               errors |-> NoErrors, start_armed |-> armed, char_valid |-> FALSE, events |-> NoErrors]
    BY <1>1, <2>1, <2>2 DEF Fresh, Quiet, RxTypeOK
  <2>4. RxTypeOK'
    BY <1>1, <1>2, <2>2, <2>3, RxRanges DEF RxTypeOK, BIT_LAST
  <2> QED BY <1>1, <2>3, <2>4 DEF RxInv, Sampling
<1>4. CASE RxDetect(c)
  <2> DEFINE n == decode_data_bits(c.data_bits)
             m == decode_stop_bits(c.stop_bits)
  <2>1. /\ n \in 5 .. 8 /\ m \in 1 .. 2 /\ c.parity_mode \in Codes /\ Zero \in Byte
    BY DEF decode_data_bits, decode_stop_bits, Config, Codes, Zero, Byte, Bit
  <2> HIDE DEF n, m
  <2>2. rx' = [Fresh EXCEPT !.state = "START", !.start_armed = FALSE, !.data_bits = n, !.stop_bits = m,
                            !.parity_mode = c.parity_mode, !.data = Zero, !.all_data_zero = TRUE]
    BY <1>4 DEF RxDetect, n, m
  <2>3. rx' = [state |-> "START", sample_count |-> 0, data_bit_index |-> 0, stop_bit_index |-> 0,
               data_bits |-> n, stop_bits |-> m, parity_mode |-> c.parity_mode,
               data |-> Zero, all_data_zero |-> TRUE, stop_low_seen |-> FALSE,
               errors |-> NoErrors, start_armed |-> FALSE, char_valid |-> FALSE, events |-> NoErrors]
    BY <1>1, <2>2 DEF Fresh, Quiet, RxTypeOK
  <2>4. RxTypeOK'
    BY <1>1, <1>2, <2>1, <2>3, RxRanges DEF RxTypeOK, BIT_LAST
  <2>5. (Sampling => rx.sample_count <= Last)'
    BY <1>1, <2>3, RxRanges DEF Last, HALF_LAST
  <2> QED BY <2>1, <2>3, <2>4, <2>5 DEF RxInv
<1>5. CASE RxWait(t)
  <2> DEFINE k == IF t THEN rx.sample_count + 1 ELSE rx.sample_count
  <2>1. rx' = RxWith(rx.state, k, b, s, rx.data, rx.all_data_zero, rx.stop_low_seen, rx.errors)
    BY <1>1, <1>5, RxWaitForm
  <2>2. Sampling /\ rx.sample_count <= Last /\ (t => rx.sample_count # Last)
    BY <1>5 DEF RxWait, RxInv, Due
  <2>3. k \in 0 .. OVERSAMPLE - 1 /\ (rx.state = "START" => k <= HALF_LAST)
    BY <2>2, RxRanges DEF Last
  <2>4. rx.state = "PARITY" => parity_is_enabled(rx.parity_mode)
    BY DEF RxInv
  <2> HIDE DEF k
  <2> QED BY <1>1, <1>2, <2>1, <2>3, <2>4, RxWithInv
<1>6. CASE RxStart(t)
  <2> DEFINE next == IF rx_sync = 0 THEN "DATA" ELSE "IDLE"
  <2>1. rx' = RxWith(next, 0, b, s, rx.data, rx.all_data_zero, rx.stop_low_seen, rx.errors)
    BY <1>1, <1>6, RxStartForm
  <2>2. next \in {"IDLE", "START", "DATA", "PARITY", "STOP", "DONE"} /\ next # "START" /\ next # "PARITY"
    OBVIOUS
  <2> HIDE DEF next
  <2> QED BY <1>1, <1>2, <2>1, <2>2, RxWithInv
<1>7. CASE RxData(t)
  <2> DEFINE next == IF b # rx.data_bits - 1 THEN "DATA"
                     ELSE IF parity_is_enabled(rx.parity_mode) THEN "PARITY" ELSE "STOP"
             nb == IF b = rx.data_bits - 1 THEN 0 ELSE b + 1
             d == [rx.data EXCEPT ![b] = rx_sync]
             z == rx.all_data_zero /\ rx_sync = 0
  <2>1. rx' = RxWith(next, 0, nb, s, d, z, rx.stop_low_seen, rx.errors)
    BY <1>1, <1>7, RxDataForm
  <2>2. /\ next \in {"IDLE", "START", "DATA", "PARITY", "STOP", "DONE"} /\ next # "START"
        /\ (next = "PARITY" => parity_is_enabled(rx.parity_mode))
    OBVIOUS
  <2>3. nb \in 0 .. 7 /\ nb < rx.data_bits
    BY <1>1, RxRanges
  <2>4. d \in Byte
    BY <1>1, RxRanges DEF Byte
  <2>5. z \in BOOLEAN
    BY RxRanges
  <2> HIDE DEF next, nb, d, z
  <2> QED BY <1>1, <1>2, <2>1, <2>2, <2>3, <2>4, <2>5, RxWithInv
<1>8. CASE RxParity(t)
  <2> DEFINE e == calc_parity_error(rx.data, rx.parity_mode, rx_sync)
             errs == [rx.errors EXCEPT !.parity_error = e]
  <2>1. rx' = RxWith("STOP", 0, b, s, rx.data, rx.all_data_zero, rx.stop_low_seen, errs)
    BY <1>1, <1>8, RxParityForm
  <2>2. e \in BOOLEAN
    BY DEF calc_parity_error
  <2>3. errs \in Errors
    <3> HIDE DEF e
    <3> QED BY <2>2, RxRanges DEF Errors
  <2> HIDE DEF errs
  <2> QED BY <1>1, <1>2, <2>1, <2>3, RxWithInv
<1>9. CASE RxStop(t)
  <2> DEFINE last  == s = rx.stop_bits - 1
             frame == rx.errors.frame_error \/ rx_sync = 0
             low   == rx.stop_low_seen \/ rx_sync = 0
             brk   == IF last THEN frame /\ rx.all_data_zero /\ low ELSE rx.errors.break_detect
             errs  == [frame_error |-> frame, parity_error |-> rx.errors.parity_error, break_detect |-> brk]
             ns    == IF last THEN 0 ELSE s + 1
             next  == IF last THEN "DONE" ELSE "STOP"
  <2>1. rx' = RxWith(next, 0, b, ns, rx.data, rx.all_data_zero, low, errs)
    BY <1>1, <1>9, RxStopForm
  <2>2. /\ next \in {"IDLE", "START", "DATA", "PARITY", "STOP", "DONE"} /\ next # "START" /\ next # "PARITY"
    OBVIOUS
  <2>3. ns \in 0 .. 1 /\ ns < rx.stop_bits
    BY <1>1, RxRanges
  <2>4. /\ rx.errors.frame_error \in BOOLEAN /\ rx.errors.parity_error \in BOOLEAN
        /\ rx.errors.break_detect \in BOOLEAN /\ rx.stop_low_seen \in BOOLEAN
        /\ rx.all_data_zero \in BOOLEAN
    BY RxRanges DEF Errors
  <2>5. low \in BOOLEAN /\ frame \in BOOLEAN
    BY <2>4
  <2>6. brk \in BOOLEAN
    <3> HIDE DEF frame, low
    <3> QED BY <2>4, <2>5
  <2>7. errs \in Errors
    <3> HIDE DEF frame, brk
    <3> QED BY <2>4, <2>5, <2>6 DEF Errors
  <2> HIDE DEF next, ns, errs, low
  <2> QED BY <1>1, <1>2, <2>1, <2>2, <2>3, <2>5, <2>7, RxWithInv
<1>10. CASE RxDone
  <2>1. rx' = [state |-> "IDLE", sample_count |-> rx.sample_count, data_bit_index |-> b, stop_bit_index |-> s,
               data_bits |-> rx.data_bits, stop_bits |-> rx.stop_bits, parity_mode |-> rx.parity_mode,
               data |-> rx.data, all_data_zero |-> rx.all_data_zero, stop_low_seen |-> rx.stop_low_seen,
               errors |-> rx.errors, start_armed |-> rx.start_armed, char_valid |-> TRUE, events |-> rx.errors]
    BY <1>1, <1>10 DEF RxDone, RxTypeOK
  <2>2. RxTypeOK'
    BY <1>1, <1>2, <2>1, RxRanges DEF RxTypeOK, BIT_LAST
  <2> QED BY <1>1, <2>1, <2>2 DEF RxInv, Sampling
<1> QED BY <1>3, <1>4, <1>5, <1>6, <1>7, <1>8, <1>9, <1>10 DEF RxEdge

-----------------------------------------------------------------------------
(* Both sides, phase by phase.                                              *)

\* What an edge between frames makes of the transmitter.
LEMMA TxBetween ==
  ASSUME TxInv, tx.state = "IDLE", NEW c \in Config, NEW tick, NEW start \in BOOLEAN, NEW data,
         start => c.enable /\ c.tx_enable, TxEdge(c, tick, start, data)
  PROVE  /\ ~start => tx'.state = "IDLE"
         /\ start => /\ tx'.state = "START" /\ tx'.data = data
                     /\ tx'.data_bits = decode_data_bits(c.data_bits)
                     /\ tx'.stop_bits = decode_stop_bits(c.stop_bits)
                     /\ tx'.parity_mode = c.parity_mode
<1>1. TxIdle(c, start) \/ TxLaunch(c, start, data)
  BY DEF TxEdge, TxHold, TxStart, TxData, TxDataEnds, TxParity, TxStop
<1>2. CASE TxIdle(c, start)
  <2>1. tx' = TxWith("IDLE", 0, 0, 1, FALSE)
    BY <1>2, TxIdleForm DEF TxInv
  <2>2. ~start
    BY <1>2 DEF TxIdle, Starts
  <2> QED BY <2>1, <2>2 DEF TxWith
<1>3. CASE TxLaunch(c, start, data)
  <2>1. start
    BY <1>3 DEF TxLaunch, Starts
  <2> QED BY <1>3, <2>1 DEF TxLaunch
<1> QED BY <1>1, <1>2, <1>3

\* A high line arms the receiver that waits for a frame.
LEMMA RxArms ==
  ASSUME RxTypeOK, rx.state = "IDLE", rx_sync = 1, \E c, t : RxEdge(c, t)
  PROVE  rx'.state = "IDLE" /\ rx'.start_armed /\ ~rx'.char_valid
<1>1. PICK c, t : RxEdge(c, t)
  OBVIOUS
<1>2. RxIdle(c)
  BY <1>1 DEF RxEdge, RxDetect, RxWait, RxStart, RxData, RxParity, RxStop, RxDone, Sampling
<1>3. rx' = [Fresh EXCEPT !.start_armed = TRUE]
  BY <1>2 DEF RxIdle
<1> QED BY <1>3 DEF Fresh, Quiet, RxTypeOK

\* A low line starts one that is armed, with the format of the moment.
LEMMA RxDetects ==
  ASSUME RxTypeOK, rx.state = "IDLE", rx_sync = 0, rx.start_armed,
         NEW c, c.enable, c.rx_enable, \E t : RxEdge(c, t)
  PROVE  /\ rx'.state = "START" /\ rx'.sample_count = 0
         /\ rx'.data_bit_index = 0 /\ rx'.stop_bit_index = 0
         /\ rx'.data_bits = decode_data_bits(c.data_bits)
         /\ rx'.stop_bits = decode_stop_bits(c.stop_bits) /\ rx'.parity_mode = c.parity_mode
         /\ rx'.data = Zero /\ rx'.errors = NoErrors
         /\ rx'.stop_low_seen = FALSE /\ rx'.char_valid = FALSE
<1> DEFINE n == decode_data_bits(c.data_bits)
           m == decode_stop_bits(c.stop_bits)
<1>1. RxDetect(c)
  BY DEF RxEdge, RxIdle, RxWait, RxStart, RxData, RxParity, RxStop, RxDone, Sampling
<1>2. rx' = [Fresh EXCEPT !.state = "START", !.start_armed = FALSE, !.data_bits = n, !.stop_bits = m,
                          !.parity_mode = c.parity_mode, !.data = Zero, !.all_data_zero = TRUE]
  BY <1>1 DEF RxDetect
<1> HIDE DEF n, m
<1>3. /\ rx'.state = "START" /\ rx'.sample_count = 0
      /\ rx'.data_bit_index = 0 /\ rx'.stop_bit_index = 0
      /\ rx'.data_bits = n /\ rx'.stop_bits = m /\ rx'.parity_mode = c.parity_mode
      /\ rx'.data = Zero /\ rx'.errors = NoErrors
      /\ rx'.stop_low_seen = FALSE /\ rx'.char_valid = FALSE
  BY <1>2 DEF Fresh, Quiet, RxTypeOK
<1> QED BY <1>3 DEF n, m

LEMMA LinkTypes ==
  ASSUME LinkInv, OVERSAMPLE >= 8, cfg \in Config, inc \in Nat, NEW start \in BOOLEAN, NEW data,
         LinkEdge(start, data)
  PROVE  /\ BaudInv' /\ TxInv' /\ RxInv' /\ sync' = << tx.line, sync[1], sync[2] >>
         /\ Elapsed \in 0 .. OVERSAMPLE - 1 /\ Elapsed' \in 0 .. OVERSAMPLE - 1
         /\ baud.baud_tick \in BOOLEAN /\ baud.oversample_tick \in BOOLEAN
         /\ baud.baud_tick <=> baud.oversample_tick /\ Elapsed = OVERSAMPLE - 1
         /\ baud.baud_tick \/ ~cfg.enable => Elapsed' = 0
         /\ cfg.enable /\ baud.oversample_tick /\ ~baud.baud_tick => Elapsed' = Elapsed + 1
         /\ cfg.enable /\ ~baud.oversample_tick => Elapsed' = Elapsed
<1>1. /\ baud.baud_tick \in BOOLEAN /\ baud.oversample_tick \in BOOLEAN
      /\ cfg.enable \in BOOLEAN /\ tx.line \in Bit
  BY DEF LinkInv, BaudInv, Baud!BaudTypeOK, Config, TxInv, TxTypeOK
<1>2. /\ Baud!BaudEdge(cfg.enable, inc) /\ TxEdge(cfg, baud.baud_tick, start, data)
      /\ SyncEdge(tx.line) /\ RxEdge(cfg, baud.oversample_tick) /\ (start => data \in Byte)
  BY DEF LinkEdge
<1>3. BaudInv /\ TxInv /\ RxInv
  BY DEF LinkInv
<1>4. TxInv'
  BY <1>1, <1>2, <1>3, TxStep
<1>5. RxInv'
  BY <1>1, <1>2, <1>3, RxStep
<1>6. sync' = << tx.line, sync[1], sync[2] >>
  BY <1>2 DEF SyncEdge
<1>7. /\ BaudInv'
      /\ Elapsed \in 0 .. OVERSAMPLE - 1 /\ Elapsed' \in 0 .. OVERSAMPLE - 1
      /\ baud.baud_tick <=> baud.oversample_tick /\ Elapsed = OVERSAMPLE - 1
      /\ baud.baud_tick \/ ~cfg.enable => Elapsed' = 0
      /\ cfg.enable /\ baud.oversample_tick /\ ~baud.baud_tick => Elapsed' = Elapsed + 1
      /\ cfg.enable /\ ~baud.oversample_tick => Elapsed' = Elapsed
  BY <1>1, <1>2, <1>3, ElapsedStep
<1> QED BY <1>1, <1>4, <1>5, <1>6, <1>7

LEMMA RestsStep ==
  ASSUME LinkInv, OVERSAMPLE >= 8, cfg \in Config, inc \in Nat, NEW start \in BOOLEAN, NEW data,
         LinkEdge(start, data), Rests
  PROVE  Rests' \/ Begun'
<1>1. /\ baud.baud_tick <=> baud.oversample_tick /\ Elapsed = OVERSAMPLE - 1
      /\ baud.baud_tick => Elapsed' = 0
      /\ sync' = << tx.line, sync[1], sync[2] >> /\ OVERSAMPLE \in Nat
      /\ baud.baud_tick \in BOOLEAN
  BY LinkTypes, LoopInputs
<1>2. /\ TxInv /\ RxTypeOK /\ TxEdge(cfg, baud.baud_tick, start, data) /\ RxEdge(cfg, baud.oversample_tick)
      /\ (start => /\ data \in Byte /\ cfg.enable /\ cfg.tx_enable /\ cfg.rx_enable
                   /\ tx.state = "IDLE" /\ baud.baud_tick)
      /\ cfg' = cfg
  BY DEF LinkInv, RxInv, LinkEdge
<1>3. /\ rx.state = "IDLE" /\ sync = << 1, 1, 1 >> /\ (tx.state = "IDLE" \/ LastStop)
      /\ (rx.char_valid /\ tx.state = "IDLE" => Elapsed <= 1)
  BY DEF Rests, High
<1>4. tx.line = 1
  BY <1>2, <1>3 DEF TxInv, LevelNow, LastStop
<1>5. sync' = << 1, 1, 1 >> /\ rx_sync = 1
  BY <1>1, <1>3, <1>4 DEF rx_sync
<1>6. rx'.state = "IDLE" /\ rx'.start_armed /\ ~rx'.char_valid
  BY <1>2, <1>3, <1>5, RxArms
<1>7. Received = << >>
  BY DEF Received, Rests
<1>8. CASE start
  <2>1. /\ tx'.state = "START" /\ tx'.data = data
        /\ tx'.data_bits = decode_data_bits(cfg.data_bits)
        /\ tx'.stop_bits = decode_stop_bits(cfg.stop_bits)
        /\ tx'.parity_mode = cfg.parity_mode
    BY <1>2, <1>8, TxBetween
  <2>2. flight' = << Masked(data, decode_data_bits(cfg.data_bits)) >>
    BY <1>7, <1>8 DEF LinkEdge
  <2>3. flight' = << Sent' >>
    BY <2>1, <2>2 DEF Sent
  <2>4. Elapsed' = 0
    BY <1>1, <1>2, <1>8
  <2> QED BY <1>2, <1>5, <1>6, <1>8, <2>1, <2>3, <2>4 DEF Begun
<1>9. CASE ~start
  <2>1. flight' = << >>
    BY <1>7, <1>9 DEF LinkEdge
  <2>2. CASE tx.state = "IDLE"
    <3>1. tx'.state = "IDLE"
      BY <1>2, <1>9, <2>2, TxBetween
    <3> QED BY <1>5, <1>6, <2>1, <3>1 DEF Rests, High
  <2>3. CASE LastStop
    <3>1. tx.state # "IDLE"
      BY <2>3 DEF LastStop
    <3>2. tx'.state = "IDLE" \/ LastStop'
      BY <1>1, <1>2, <2>3, <3>1, TxMoves DEF LastStop
    <3> QED BY <1>5, <1>6, <2>1, <3>2 DEF Rests, High
  <2> QED BY <1>3, <2>2, <2>3
<1> QED BY <1>8, <1>9

LEMMA MaskedNone == ASSUME NEW data \in Byte PROVE Masked(data, 0) = Zero
BY DEF Masked, Zero, Byte

LEMMA BegunStep ==
  ASSUME LinkInv, OVERSAMPLE >= 8, cfg \in Config, inc \in Nat, NEW start \in BOOLEAN, NEW data,
         LinkEdge(start, data), Begun
  PROVE  Begun' \/ Sampled'
<1>1. /\ baud.baud_tick <=> baud.oversample_tick /\ Elapsed = OVERSAMPLE - 1
      /\ sync' = << tx.line, sync[1], sync[2] >> /\ OVERSAMPLE \in Nat
      /\ Elapsed \in 0 .. OVERSAMPLE - 1 /\ Elapsed' \in 0 .. OVERSAMPLE - 1
      /\ baud.baud_tick \in BOOLEAN
      /\ cfg.enable /\ baud.oversample_tick /\ ~baud.baud_tick => Elapsed' = Elapsed + 1
      /\ cfg.enable /\ ~baud.oversample_tick => Elapsed' = Elapsed
  BY LinkTypes, LoopInputs
<1>2. /\ TxInv /\ RxTypeOK /\ TxEdge(cfg, baud.baud_tick, start, data) /\ RxEdge(cfg, baud.oversample_tick)
      /\ (start => tx.state = "IDLE") /\ cfg' = cfg /\ tx.state = "START" /\ rx.state = "IDLE"
      /\ cfg.enable /\ cfg.rx_enable /\ rx.start_armed /\ flight = << Sent >> /\ Elapsed <= 3
  BY <1>1 DEF LinkInv, RxInv, LinkEdge, Begun
<1>3. ~baud.baud_tick /\ Elapsed' \in Elapsed .. Elapsed + 1
  BY <1>1, <1>2
<1>4. tx'.state = "START" /\ tx'.data = tx.data /\ tx'.data_bits = tx.data_bits
      /\ tx'.stop_bits = tx.stop_bits /\ tx'.parity_mode = tx.parity_mode /\ tx'.line = tx.line
  BY <1>1, <1>2, <1>3, TxMoves
<1>5. tx.line = 0
  BY <1>2 DEF TxInv, LevelNow
<1>6. ~start /\ flight' = flight /\ Sent' = Sent
  BY <1>2, <1>4 DEF LinkEdge, Received, Begun, Sent
<1>7. CASE rx_sync = 1
  <2>1. rx'.state = "IDLE" /\ rx'.start_armed /\ ~rx'.char_valid
    BY <1>2, <1>7, RxArms
  <2>2. \/ sync' = << 0, 1, 1 >> /\ Elapsed' <= 1
        \/ sync' = << 0, 0, 1 >> /\ Elapsed' <= 2
        \/ sync' = << 0, 0, 0 >> /\ Elapsed' <= 3
    BY <1>1, <1>3, <1>5, <1>7 DEF Begun, rx_sync
  <2> QED BY <1>2, <1>4, <1>6, <2>1, <2>2 DEF Begun
<1>8. CASE rx_sync = 0
  <2>1. /\ rx'.state = "START" /\ rx'.sample_count = 0
        /\ rx'.data_bit_index = 0 /\ rx'.stop_bit_index = 0
        /\ rx'.data_bits = decode_data_bits(cfg.data_bits)
        /\ rx'.stop_bits = decode_stop_bits(cfg.stop_bits) /\ rx'.parity_mode = cfg.parity_mode
        /\ rx'.data = Zero /\ rx'.errors = NoErrors
        /\ rx'.stop_low_seen = FALSE /\ rx'.char_valid = FALSE
    BY <1>2, <1>8, RxDetects
  <2>2. sync = << 0, 0, 0 >>
    BY <1>8 DEF Begun, rx_sync
  <2>3. Settled'
    BY <1>1, <1>4, <1>5, <2>2 DEF Settled
  <2>4. SameFormat'
    BY <1>4, <2>1 DEF SameFormat, Begun
  <2>5. Aligned'
    BY <1>1, <1>2, <1>3, <1>4, <2>1 DEF Aligned, TxPos
  <2>6. (rx.data = Masked(tx.data, Got))'
    <3>1. Got' = 0 /\ tx.data \in Byte
      BY <1>2, <2>1 DEF Got, TxInv, TxTypeOK
    <3> QED BY <1>4, <2>1, <3>1, MaskedNone
  <2> QED BY <1>2, <1>4, <1>6, <2>1, <2>3, <2>4, <2>5, <2>6 DEF Sampled, Sampling
<1>9. rx_sync \in {0, 1}
  BY DEF Begun, rx_sync
<1> QED BY <1>7, <1>8, <1>9

LEMMA EndedStep ==
  ASSUME LinkInv, OVERSAMPLE >= 8, cfg \in Config, inc \in Nat, NEW start \in BOOLEAN, NEW data,
         LinkEdge(start, data), Ended
  PROVE  Rests'
<1>1. /\ baud.baud_tick <=> baud.oversample_tick /\ Elapsed = OVERSAMPLE - 1
      /\ sync' = << tx.line, sync[1], sync[2] >> /\ OVERSAMPLE \in Nat
      /\ Elapsed \in 0 .. OVERSAMPLE - 1 /\ Elapsed' \in 0 .. OVERSAMPLE - 1
      /\ baud.baud_tick \in BOOLEAN /\ cfg.enable \in BOOLEAN
      /\ (baud.baud_tick \/ ~cfg.enable => Elapsed' = 0)
      /\ cfg.enable /\ baud.oversample_tick /\ ~baud.baud_tick => Elapsed' = Elapsed + 1
      /\ cfg.enable /\ ~baud.oversample_tick => Elapsed' = Elapsed
  BY LinkTypes, LoopInputs DEF Config
<1>2. /\ TxInv /\ RxTypeOK /\ TxEdge(cfg, baud.baud_tick, start, data) /\ RxEdge(cfg, baud.oversample_tick)
      /\ (start => tx.state = "IDLE" /\ baud.baud_tick)
      /\ rx.state = "DONE" /\ sync = << 1, 1, 1 >> /\ (LastStop \/ (tx.state = "IDLE" /\ Elapsed = 0))
      /\ rx.errors = NoErrors /\ ~rx.char_valid /\ flight = << rx.data >>
  BY DEF LinkInv, RxInv, LinkEdge, Ended, High
<1>3. ~start /\ flight' = << rx.data >>
  BY <1>1, <1>2 DEF LastStop, LinkEdge, Received
<1>4. rx'.state = "IDLE" /\ rx'.char_valid = TRUE /\ rx'.errors = NoErrors /\ rx'.data = rx.data
  <2>1. RxDone
    BY <1>2 DEF RxEdge, RxIdle, RxDetect, RxWait, RxStart, RxData, RxParity, RxStop, Sampling
  <2> QED BY <1>2, <2>1 DEF RxDone, RxTypeOK
<1>5. High'
  <2>1. tx.line = 1
    BY <1>2 DEF TxInv, LevelNow, LastStop
  <2> QED BY <1>1, <1>2, <2>1 DEF High
<1>6. CASE LastStop
  <2>1. tx.state # "IDLE"
    BY <1>6 DEF LastStop
  <2>2. \/ LastStop'
        \/ tx'.state = "IDLE" /\ Elapsed' = 0
    BY <1>1, <1>2, <1>6, <2>1, TxMoves DEF LastStop
  <2>3. LastStop' => tx'.state # "IDLE"
    BY DEF LastStop
  <2> QED BY <1>3, <1>4, <1>5, <2>2, <2>3 DEF Rests
<1>7. CASE tx.state = "IDLE" /\ Elapsed = 0
  <2>1. tx'.state = "IDLE"
    BY <1>2, <1>3, <1>7, TxBetween
  <2>2. Elapsed' <= 1
    BY <1>1, <1>7
  <2> QED BY <1>3, <1>4, <1>5, <2>1, <2>2 DEF Rests
<1> QED BY <1>2, <1>6, <1>7

\* Where the two sides are in a frame of one format.
LEMMA Positions ==
  ASSUME TxInv, RxInv, OVERSAMPLE >= 8, SameFormat, Sampling, tx.state # "IDLE"
  PROVE  /\ ParityBits \in 0 .. 1 /\ RxParityBits = ParityBits
         /\ TxPos \in 0 .. tx.data_bits + ParityBits + tx.stop_bits
         /\ RxPos \in 0 .. tx.data_bits + ParityBits + tx.stop_bits
         /\ LastStop <=> TxPos = tx.data_bits + ParityBits + tx.stop_bits
         /\ RxPos = tx.data_bits + ParityBits + tx.stop_bits
              <=> rx.state = "STOP" /\ rx.stop_bit_index = rx.stop_bits - 1
         /\ RxPos = 0 <=> rx.state = "START"
         /\ TxPos = RxPos => /\ rx.state = tx.state
                             /\ tx.state = "DATA" => rx.data_bit_index = tx.bit_index
<1>1. /\ tx.state \in {"START", "DATA", "PARITY", "STOP"}
      /\ tx.bit_index \in 0 .. tx.data_bits - 1 /\ tx.data_bits \in 5 .. 8
      /\ tx.stop_bits \in 1 .. 2 /\ tx.stop_bit_index \in 0 .. tx.stop_bits - 1
      /\ (tx.state = "PARITY" => ParityBits = 1)
  BY DEF TxInv, TxTypeOK, ParityBits
<1>2. /\ rx.state \in {"START", "DATA", "PARITY", "STOP"}
      /\ rx.data_bit_index \in 0 .. tx.data_bits - 1 /\ rx.stop_bit_index \in 0 .. tx.stop_bits - 1
      /\ rx.data_bits = tx.data_bits /\ rx.stop_bits = tx.stop_bits
      /\ RxParityBits = ParityBits /\ ParityBits \in 0 .. 1
      /\ (rx.state = "PARITY" => ParityBits = 1)
  BY RxTypes DEF Sampling, SameFormat, RxParityBits, ParityBits, RxInv
<1>3. /\ tx.state = "START"  => TxPos = 0
      /\ tx.state = "DATA"   => TxPos = 1 + tx.bit_index
      /\ tx.state = "PARITY" => TxPos = 1 + tx.data_bits
      /\ tx.state = "STOP"   => TxPos = 1 + tx.data_bits + ParityBits + tx.stop_bit_index
  BY DEF TxPos
<1>4. /\ rx.state = "START"  => RxPos = 0
      /\ rx.state = "DATA"   => RxPos = 1 + rx.data_bit_index
      /\ rx.state = "PARITY" => RxPos = 1 + tx.data_bits
      /\ rx.state = "STOP"   => RxPos = 1 + tx.data_bits + ParityBits + rx.stop_bit_index
  BY <1>2 DEF RxPos
<1>5. LastStop <=> TxPos = tx.data_bits + ParityBits + tx.stop_bits
  BY <1>1, <1>2, <1>3 DEF LastStop
<1>6. RxPos = tx.data_bits + ParityBits + tx.stop_bits
              <=> rx.state = "STOP" /\ rx.stop_bit_index = rx.stop_bits - 1
  BY <1>1, <1>2, <1>4
<1>7. TxPos \in 0 .. tx.data_bits + ParityBits + tx.stop_bits
  BY <1>1, <1>2, <1>3
<1>8. /\ RxPos \in 0 .. tx.data_bits + ParityBits + tx.stop_bits
      /\ RxPos = 0 <=> rx.state = "START"
  BY <1>1, <1>2, <1>4
<1>9. TxPos = RxPos => /\ rx.state = tx.state
                       /\ tx.state = "DATA" => rx.data_bit_index = tx.bit_index
  BY <1>1, <1>2, <1>3, <1>4
<1> QED BY <1>2, <1>5, <1>6, <1>7, <1>8, <1>9

\* The facts of an edge within a frame that both sides are in.
LEMMA SampledEdge ==
  ASSUME LinkInv, OVERSAMPLE >= 8, cfg \in Config, inc \in Nat, NEW start \in BOOLEAN, NEW data,
         LinkEdge(start, data), Sampled
  PROVE  /\ TxInv /\ RxInv /\ RxTypeOK /\ tx.state # "IDLE" /\ Sampling /\ SameFormat
         /\ RxEdge(cfg, baud.oversample_tick)
         /\ tx.data_bits \in 5 .. 8 /\ tx.stop_bits \in 1 .. 2
         /\ baud.baud_tick \in BOOLEAN /\ baud.oversample_tick \in BOOLEAN
         /\ baud.baud_tick <=> baud.oversample_tick /\ Elapsed = OVERSAMPLE - 1
         /\ Elapsed \in 0 .. OVERSAMPLE - 1 /\ Elapsed' \in 0 .. OVERSAMPLE - 1
         /\ baud.baud_tick => Elapsed' = 0
         /\ baud.oversample_tick /\ ~baud.baud_tick => Elapsed' = Elapsed + 1
         /\ ~baud.oversample_tick => Elapsed' = Elapsed
         /\ tx'.data = tx.data /\ tx'.data_bits = tx.data_bits /\ tx'.stop_bits = tx.stop_bits
         /\ tx'.parity_mode = tx.parity_mode /\ ParityBits' = ParityBits /\ Sent' = Sent
         /\ ~baud.baud_tick => tx'.state # "IDLE" /\ TxPos' = TxPos /\ (LastStop <=> LastStop')
         /\ baud.baud_tick /\ LastStop => tx'.state = "IDLE"
         /\ baud.baud_tick /\ ~LastStop => tx'.state # "IDLE" /\ TxPos' = TxPos + 1
         /\ flight' = flight /\ Settled'
<1>1. /\ baud.baud_tick <=> baud.oversample_tick /\ Elapsed = OVERSAMPLE - 1
      /\ sync' = << tx.line, sync[1], sync[2] >> /\ OVERSAMPLE \in Nat
      /\ Elapsed \in 0 .. OVERSAMPLE - 1 /\ Elapsed' \in 0 .. OVERSAMPLE - 1
      /\ baud.baud_tick \in BOOLEAN /\ baud.oversample_tick \in BOOLEAN
      /\ (baud.baud_tick => Elapsed' = 0)
      /\ cfg.enable /\ baud.oversample_tick /\ ~baud.baud_tick => Elapsed' = Elapsed + 1
      /\ cfg.enable /\ ~baud.oversample_tick => Elapsed' = Elapsed
  BY LinkTypes, LoopInputs
<1>2. /\ TxInv /\ RxInv /\ RxTypeOK /\ tx.state # "IDLE" /\ Sampling /\ SameFormat /\ cfg.enable
      /\ TxEdge(cfg, baud.baud_tick, start, data) /\ RxEdge(cfg, baud.oversample_tick)
      /\ (start => tx.state = "IDLE") /\ ~rx.char_valid
      /\ tx.data_bits \in 5 .. 8 /\ tx.stop_bits \in 1 .. 2
  BY DEF LinkInv, LinkEdge, Sampled, TxInv, TxTypeOK, RxInv
<1>3. /\ tx'.data = tx.data /\ tx'.data_bits = tx.data_bits /\ tx'.stop_bits = tx.stop_bits
      /\ tx'.parity_mode = tx.parity_mode
      /\ ~baud.baud_tick => /\ tx'.state = tx.state /\ tx'.bit_index = tx.bit_index
                            /\ tx'.stop_bit_index = tx.stop_bit_index /\ tx'.line = tx.line
      /\ baud.baud_tick /\ LastStop => tx'.state = "IDLE"
      /\ baud.baud_tick /\ ~LastStop => tx'.state # "IDLE" /\ TxPos' = TxPos + 1
  BY <1>1, <1>2, TxMoves
<1>4. ParityBits' = ParityBits /\ Sent' = Sent
  BY <1>3 DEF ParityBits, Sent
<1>5. ~baud.baud_tick => tx'.state # "IDLE" /\ TxPos' = TxPos /\ (LastStop <=> LastStop')
  BY <1>2, <1>3, <1>4 DEF TxPos, LastStop
<1>6. flight' = flight
  BY <1>2 DEF LinkEdge, Received
<1>7. Settled'
  <2>1. CASE baud.baud_tick
    BY <1>1, <2>1 DEF Settled
  <2>2. CASE ~baud.baud_tick
    <3>1. tx'.line = tx.line /\ Elapsed' <= Elapsed + 1
      BY <1>1, <1>2, <1>3, <2>2
    <3>2. /\ Elapsed >= 1 => sync[1] = tx.line
          /\ Elapsed >= 2 => sync[2] = tx.line
      BY DEF Sampled, Settled
    <3>3. sync'[1] = tx.line /\ sync'[2] = sync[1] /\ sync'[3] = sync[2]
      BY <1>1
    <3> QED BY <1>1, <3>1, <3>2, <3>3 DEF Settled
  <2> QED BY <2>1, <2>2
<1> QED BY <1>1, <1>2, <1>3, <1>4, <1>5, <1>6, <1>7

LEMMA SameShift ==
  ASSUME NEW e \in Nat, NEW c \in Nat, NEW f \in Nat, NEW k \in Nat, NEW h \in Nat, NEW o \in Nat,
         f - k = e - c
  PROVE  /\ e - (h + c) \in 0 .. 4 => f - (h + k) \in 0 .. 4
         /\ e + o - (h + c) \in 0 .. 4 => f + o - (h + k) \in 0 .. 4
OBVIOUS

\* Between two samples.
LEMMA WaitStep ==
  ASSUME LinkInv, OVERSAMPLE >= 8, cfg \in Config, inc \in Nat, NEW start \in BOOLEAN, NEW data,
         LinkEdge(start, data), Sampled, RxWait(baud.oversample_tick)
  PROVE  Sampled'
<1> DEFINE k == IF baud.oversample_tick THEN rx.sample_count + 1 ELSE rx.sample_count
<1>1. rx' = RxWith(rx.state, k, rx.data_bit_index, rx.stop_bit_index, rx.data, rx.all_data_zero,
                   rx.stop_low_seen, rx.errors)
  BY SampledEdge, RxWaitForm
<1>2. /\ rx'.state = rx.state /\ rx'.sample_count = k /\ rx'.data_bit_index = rx.data_bit_index
      /\ rx'.stop_bit_index = rx.stop_bit_index /\ rx'.data = rx.data /\ rx'.errors = rx.errors
      /\ rx'.stop_low_seen = rx.stop_low_seen /\ rx'.char_valid = FALSE
      /\ rx'.data_bits = rx.data_bits /\ rx'.stop_bits = rx.stop_bits
      /\ rx'.parity_mode = rx.parity_mode
  BY <1>1 DEF RxWith
<1>3. rx.sample_count <= Last /\ (baud.oversample_tick => rx.sample_count # Last)
  BY SampledEdge DEF RxWait, Due, RxInv
<1>4. RxPos' = RxPos /\ Got' = Got /\ Sampling'
  BY <1>2, SampledEdge DEF RxPos, Got, RxParityBits, Sampling
<1>5. Aligned' /\ tx'.state # "IDLE"
  <2> DEFINE o == OVERSAMPLE
             h == Half
             c == rx.sample_count
             e == Elapsed
             L == tx.data_bits + ParityBits + tx.stop_bits
  <2>1. /\ o \in Nat /\ o >= 8 /\ h \in 4 .. o - 4 /\ c \in 0 .. o - 1 /\ e \in 0 .. o - 1
        /\ BIT_LAST = o - 1 /\ HALF_LAST = h - 1
    BY RxTypes, SampledEdge
  <2>2. /\ TxPos \in 0 .. L /\ RxPos \in 0 .. L /\ L \in Nat
        /\ LastStop <=> TxPos = L
    <3>1. ParityBits \in 0 .. 1 /\ tx.data_bits \in 5 .. 8 /\ tx.stop_bits \in 1 .. 2
      BY Positions, SampledEdge
    <3> QED BY <3>1, Positions, SampledEdge
  <2>3. CASE rx.state = "START"
    <3>1. TxPos = 0 /\ e - c \in 0 .. 4 /\ c <= h - 1 /\ (baud.oversample_tick => c < h - 1)
      BY <1>3, <2>1, <2>3 DEF Sampled, Aligned, Last
    <3>2. ~baud.baud_tick
      BY <2>1, <3>1, SampledEdge
    <3>3. Elapsed' - k \in 0 .. 4 /\ TxPos' = 0 /\ tx'.state # "IDLE"
      BY <2>1, <3>1, <3>2, SampledEdge
    <3> QED BY <1>2, <2>3, <3>3 DEF Aligned
  <2>4. CASE rx.state # "START"
    <3>1. \/ TxPos = RxPos - 1 /\ e - (h + c) \in 0 .. 4
          \/ TxPos = RxPos /\ e + o - (h + c) \in 0 .. 4
      BY <2>4 DEF Sampled, Aligned
    <3>2. c <= o - 1 /\ (baud.oversample_tick => c < o - 1)
      BY <1>3, <2>1, <2>4 DEF Last
    <3>3. CASE baud.baud_tick
      <4>1. e = o - 1 /\ Elapsed' = 0 /\ k = c + 1
        BY <3>3, SampledEdge
      <4>2. TxPos = RxPos - 1 /\ e - (h + c) \in 0 .. 4
        BY <2>1, <3>1, <3>2, <3>3, <4>1, SampledEdge
      <4>3. ~LastStop
        BY <2>2, <4>2
      <4>4. TxPos' = TxPos + 1 /\ tx'.state # "IDLE"
        BY <3>3, <4>3, SampledEdge
      <4>5. TxPos' = RxPos' /\ Elapsed' + OVERSAMPLE - (Half + rx'.sample_count) \in 0 .. 4
        <5>1. TxPos' = RxPos'
          BY <1>4, <2>2, <4>2, <4>4
        <5>2. 0 + o - (h + (c + 1)) \in 0 .. 4
          BY <2>1, <4>1, <4>2
        <5> QED BY <1>2, <4>1, <5>1, <5>2
      <4> QED BY <1>2, <2>4, <4>4, <4>5 DEF Aligned
    <3>4. CASE ~baud.baud_tick
      <4>1. TxPos' = TxPos /\ tx'.state # "IDLE" /\ Elapsed' - k = e - c /\ Elapsed' \in Nat /\ k \in Nat
        BY <2>1, <3>4, SampledEdge
      <4>2. \/ TxPos' = RxPos' - 1 /\ Elapsed' - (Half + rx'.sample_count) \in 0 .. 4
            \/ TxPos' = RxPos' /\ Elapsed' + OVERSAMPLE - (Half + rx'.sample_count) \in 0 .. 4
        <5>1. rx'.sample_count = k /\ RxPos' = RxPos
          BY <1>2, <1>4
        <5>2. /\ e - (h + c) \in 0 .. 4 => Elapsed' - (h + k) \in 0 .. 4
              /\ e + o - (h + c) \in 0 .. 4 => Elapsed' + o - (h + k) \in 0 .. 4
          <6>1. e \in Nat /\ c \in Nat /\ h \in Nat /\ o \in Nat /\ Elapsed' \in Nat /\ k \in Nat
                /\ Elapsed' - k = e - c
            BY <2>1, <4>1
          <6> QED BY <6>1, SameShift
        <5> QED BY <3>1, <4>1, <5>1, <5>2 DEF o, h
      <4> QED BY <1>2, <2>4, <4>1, <4>2 DEF Aligned
    <3> QED BY <3>3, <3>4
  <2> QED BY <2>3, <2>4
<1>6. SameFormat'
  BY <1>2, SampledEdge DEF SameFormat
<1> QED BY <1>2, <1>4, <1>5, <1>6, SampledEdge DEF Sampled

\* A sample is of the bit that the transmitter is at, and of its settled level; a step
\* on to the next bit keeps the two sides aligned.
LEMMA SampleStep ==
  ASSUME LinkInv, OVERSAMPLE >= 8, cfg \in Config, inc \in Nat, NEW start \in BOOLEAN, NEW data,
         LinkEdge(start, data), Sampled, Due(baud.oversample_tick)
  PROVE  /\ rx.state = tx.state /\ rx_sync = tx.line
         /\ tx.state = "DATA" => rx.data_bit_index = tx.bit_index
         /\ (RxPos' = RxPos + 1 /\ rx'.sample_count = 0 /\ ~LastStop /\ rx'.state # "START"
               => Aligned' /\ tx'.state # "IDLE")
         /\ LastStop <=> rx.state = "STOP" /\ rx.stop_bit_index = rx.stop_bits - 1
         /\ LastStop => LastStop' \/ (tx'.state = "IDLE" /\ Elapsed' = 0)
         /\ tx.state = "STOP" => sync' = << 1, 1, 1 >>
<1>1. /\ OVERSAMPLE \in Nat /\ Half \in 4 .. OVERSAMPLE - 4 /\ rx.sample_count \in 0 .. OVERSAMPLE - 1
      /\ Elapsed \in 0 .. OVERSAMPLE - 1
      /\ BIT_LAST = OVERSAMPLE - 1 /\ HALF_LAST = Half - 1
  BY RxTypes, SampledEdge
<1>2. baud.oversample_tick /\ rx.sample_count = Last
  BY DEF Due
<1>3. /\ ParityBits \in 0 .. 1 /\ tx.data_bits \in 5 .. 8 /\ tx.stop_bits \in 1 .. 2
      /\ TxPos \in 0 .. tx.data_bits + ParityBits + tx.stop_bits
      /\ RxPos \in 0 .. tx.data_bits + ParityBits + tx.stop_bits
      /\ LastStop <=> TxPos = tx.data_bits + ParityBits + tx.stop_bits
      /\ RxPos = tx.data_bits + ParityBits + tx.stop_bits
              <=> rx.state = "STOP" /\ rx.stop_bit_index = rx.stop_bits - 1
      /\ RxPos = 0 <=> rx.state = "START"
      /\ TxPos = RxPos => /\ rx.state = tx.state
                          /\ tx.state = "DATA" => rx.data_bit_index = tx.bit_index
  BY Positions, SampledEdge
<1>4. TxPos = RxPos /\ Elapsed - (Half - 1) \in 0 .. 4
  <2>1. CASE rx.state = "START"
    BY <1>1, <1>2, <1>3, <2>1 DEF Sampled, Aligned, Last
  <2>2. CASE rx.state # "START"
    <3>1. rx.sample_count = OVERSAMPLE - 1
      BY <1>1, <1>2, <2>2 DEF Last
    <3>2. \/ TxPos = RxPos - 1 /\ Elapsed - (Half + rx.sample_count) \in 0 .. 4
          \/ TxPos = RxPos /\ Elapsed + OVERSAMPLE - (Half + rx.sample_count) \in 0 .. 4
      BY <2>2 DEF Sampled, Aligned
    <3>3. ~(Elapsed - (Half + rx.sample_count) \in 0 .. 4)
      BY <1>1, <3>1
    <3>4. TxPos = RxPos /\ Elapsed + OVERSAMPLE - (Half + rx.sample_count) \in 0 .. 4
      BY <3>2, <3>3
    <3>5. Elapsed - (Half - 1) \in 0 .. 4
      BY <1>1, <3>1, <3>4
    <3> QED BY <3>4, <3>5
  <2> QED BY <2>1, <2>2
<1>5. Elapsed >= 3
  BY <1>1, <1>4
<1>6. sync[1] = tx.line /\ sync[2] = tx.line /\ sync[3] = tx.line
  BY <1>1, <1>5 DEF Sampled, Settled
<1>7. ASSUME RxPos' = RxPos + 1, rx'.sample_count = 0, ~LastStop, rx'.state # "START"
      PROVE  Aligned' /\ tx'.state # "IDLE"
  <2>1. CASE baud.baud_tick
    <3>1. Elapsed = OVERSAMPLE - 1 /\ Elapsed' = 0 /\ TxPos' = TxPos + 1 /\ tx'.state # "IDLE"
      BY <1>7, <2>1, SampledEdge
    <3>2. TxPos' = RxPos' /\ 0 + OVERSAMPLE - (Half + 0) \in 0 .. 4
      BY <1>1, <1>3, <1>4, <1>7, <3>1
    <3> QED BY <1>7, <3>1, <3>2 DEF Aligned
  <2>2. CASE ~baud.baud_tick
    <3>1. Elapsed' = Elapsed + 1 /\ TxPos' = TxPos /\ tx'.state # "IDLE"
      BY <1>2, <2>2, SampledEdge
    <3>2. TxPos' = RxPos' - 1 /\ (Elapsed + 1) - (Half + 0) \in 0 .. 4
      BY <1>1, <1>3, <1>4, <1>7, <3>1
    <3> QED BY <1>7, <3>1, <3>2 DEF Aligned
  <2> QED BY <2>1, <2>2
<1>8. LastStop => LastStop' \/ (tx'.state = "IDLE" /\ Elapsed' = 0)
  BY SampledEdge
<1>9. tx.state = "STOP" => sync' = << 1, 1, 1 >>
  <2>1. tx.state = "STOP" => tx.line = 1
    BY SampledEdge DEF TxInv, LevelNow
  <2>2. sync' = << tx.line, sync[1], sync[2] >>
    BY LinkTypes
  <2> QED BY <1>6, <2>1, <2>2
<1> QED BY <1>3, <1>4, <1>6, <1>7, <1>8, <1>9 DEF rx_sync

\* The fields of RxWith.
LEMMA RxWithFields ==
  ASSUME NEW state, NEW count, NEW b, NEW s, NEW data, NEW zero, NEW low, NEW errors,
         rx' = RxWith(state, count, b, s, data, zero, low, errors)
  PROVE  /\ rx'.state = state /\ rx'.sample_count = count /\ rx'.data_bit_index = b
         /\ rx'.stop_bit_index = s /\ rx'.data = data /\ rx'.errors = errors
         /\ rx'.stop_low_seen = low /\ rx'.char_valid = FALSE
         /\ rx'.data_bits = rx.data_bits /\ rx'.stop_bits = rx.stop_bits
         /\ rx'.parity_mode = rx.parity_mode
BY DEF RxWith

\* The middle of the start bit.
LEMMA StartStep ==
  ASSUME LinkInv, OVERSAMPLE >= 8, cfg \in Config, inc \in Nat, NEW start \in BOOLEAN, NEW data,
         LinkEdge(start, data), Sampled, RxStart(baud.oversample_tick)
  PROVE  Sampled'
<1>1. rx.state = "START" /\ Due(baud.oversample_tick)
  BY DEF RxStart
<1>2. tx.state = "START" /\ rx_sync = tx.line /\ ~LastStop
  BY <1>1, SampleStep
<1>3. rx_sync = 0
  BY <1>2, SampledEdge DEF TxInv, LevelNow
<1>4. rx.data_bit_index = 0 /\ rx.stop_bit_index = 0 /\ rx.data = Masked(tx.data, Got)
  BY <1>1 DEF Sampled
<1>5. rx' = RxWith("DATA", 0, rx.data_bit_index, rx.stop_bit_index, rx.data, rx.all_data_zero,
                   rx.stop_low_seen, rx.errors)
  BY <1>3, SampledEdge, RxStartForm
<1>6. /\ rx'.state = "DATA" /\ rx'.sample_count = 0 /\ rx'.data_bit_index = 0
      /\ rx'.stop_bit_index = 0 /\ rx'.data = rx.data /\ rx'.errors = rx.errors
      /\ rx'.stop_low_seen = rx.stop_low_seen /\ rx'.char_valid = FALSE
      /\ rx'.data_bits = rx.data_bits /\ rx'.stop_bits = rx.stop_bits
      /\ rx'.parity_mode = rx.parity_mode
  BY <1>4, <1>5 DEF RxWith
<1>7. RxPos' = RxPos + 1
  BY <1>1, <1>6 DEF RxPos
<1>8. Aligned' /\ tx'.state # "IDLE"
  BY <1>1, <1>2, <1>6, <1>7, SampleStep
<1>9. SameFormat' /\ Sampling'
  BY <1>6, SampledEdge DEF SameFormat, Sampling
<1>10. Got' = Got
  BY <1>1, <1>6 DEF Got
<1> QED BY <1>6, <1>8, <1>9, <1>10, SampledEdge DEF Sampled

\* One more bit.
LEMMA MaskedNext ==
  ASSUME NEW data \in Byte, NEW k \in 0 .. 7
  PROVE  [Masked(data, k) EXCEPT ![k] = data[k]] = Masked(data, k + 1)
<1> DEFINE m == Masked(data, k)
           e == [m EXCEPT ![k] = data[k]]
<1>1. m = [i \in 0 .. 7 |-> IF i < k THEN data[i] ELSE 0]
  BY DEF Masked
<1>2. e = [i \in 0 .. 7 |-> IF i = k THEN data[k] ELSE m[i]]
  BY <1>1
<1>3. ASSUME NEW i \in 0 .. 7 PROVE e[i] = IF i < k + 1 THEN data[i] ELSE 0
  BY <1>1, <1>2
<1> HIDE DEF e
<1> QED BY <1>2, <1>3 DEF Masked, e

\* The middle of a data bit.
LEMMA DataStep ==
  ASSUME LinkInv, OVERSAMPLE >= 8, cfg \in Config, inc \in Nat, NEW start \in BOOLEAN, NEW data,
         LinkEdge(start, data), Sampled, RxData(baud.oversample_tick)
  PROVE  Sampled'
<1> DEFINE b    == rx.data_bit_index
           last == b = rx.data_bits - 1
           next == IF b # rx.data_bits - 1 THEN "DATA"
                   ELSE IF parity_is_enabled(rx.parity_mode) THEN "PARITY" ELSE "STOP"
           nb   == IF b = rx.data_bits - 1 THEN 0 ELSE b + 1
           d    == [rx.data EXCEPT ![b] = rx_sync]
           z    == rx.all_data_zero /\ rx_sync = 0
<1>1. rx.state = "DATA" /\ Due(baud.oversample_tick)
  BY DEF RxData
<1>2. tx.state = "DATA" /\ rx_sync = tx.line /\ ~LastStop /\ b = tx.bit_index
  BY <1>1, SampleStep
<1>3. rx_sync = tx.data[b]
  BY <1>2, SampledEdge DEF TxInv, LevelNow
<1>4. rx.stop_bit_index = 0 /\ rx.data = Masked(tx.data, b)
  BY <1>1 DEF Sampled, Got
<1>5. b \in 0 .. rx.data_bits - 1 /\ rx.data_bits \in 5 .. 8 /\ rx.data_bits = tx.data_bits
      /\ rx.stop_bits \in 1 .. 2
  BY RxTypes, SampledEdge DEF SameFormat
<1>6. d = Masked(tx.data, b + 1)
  <2>1. b \in 0 .. 7 /\ tx.data \in Byte
    BY <1>5, SampledEdge DEF TxInv, TxTypeOK
  <2> QED BY <1>3, <1>4, <2>1, MaskedNext
<1>7. rx' = RxWith(next, 0, nb, rx.stop_bit_index, d, z, rx.stop_low_seen, rx.errors)
  BY SampledEdge, RxDataForm
<1> HIDE DEF next, nb, d, z
<1>8. /\ rx'.state = next /\ rx'.sample_count = 0 /\ rx'.data_bit_index = nb
      /\ rx'.stop_bit_index = 0 /\ rx'.data = d /\ rx'.errors = rx.errors
      /\ rx'.stop_low_seen = rx.stop_low_seen /\ rx'.char_valid = FALSE
      /\ rx'.data_bits = rx.data_bits /\ rx'.stop_bits = rx.stop_bits
      /\ rx'.parity_mode = rx.parity_mode
  BY <1>4, <1>7 DEF RxWith
<1>9. RxPos' = RxPos + 1 /\ rx'.state # "START" /\ Sampling' /\ (Got' = b + 1)
  <2>1. CASE ~last
    <3>1. next = "DATA" /\ nb = b + 1
      BY <2>1 DEF next, nb
    <3> QED BY <1>1, <1>5, <1>8, <3>1 DEF RxPos, Sampling, Got
  <2>2. CASE last /\ parity_is_enabled(rx.parity_mode)
    <3>1. next = "PARITY"
      BY <2>2 DEF next
    <3> QED BY <1>1, <1>5, <1>8, <2>2, <3>1 DEF RxPos, Sampling, Got
  <2>3. CASE last /\ ~parity_is_enabled(rx.parity_mode)
    <3>1. next = "STOP"
      BY <2>3 DEF next
    <3> QED BY <1>1, <1>5, <1>8, <2>3, <3>1 DEF RxPos, RxParityBits, Sampling, Got
  <2> QED BY <2>1, <2>2, <2>3
<1>10. Aligned' /\ tx'.state # "IDLE"
  BY <1>1, <1>2, <1>8, <1>9, SampleStep
<1>11. SameFormat'
  BY <1>8, SampledEdge DEF SameFormat
<1>12. (rx.data = Masked(tx.data, Got))'
  BY <1>6, <1>8, <1>9, SampledEdge
<1> QED BY <1>8, <1>9, <1>10, <1>11, <1>12, SampledEdge DEF Sampled

\* The parity over what was received is the one over what was sent.
LEMMA MaskedParity ==
  ASSUME NEW data \in Byte, NEW n \in 5 .. 8, NEW mode \in Codes, parity_is_enabled(mode)
  PROVE  calc_parity_error(Masked(data, n), mode, calc_parity_bit(data, n, mode)) = FALSE
<1> DEFINE m == Masked(data, n)
<1>1. {i \in 0 .. 8 - 1 : m[i] = 1} = {i \in 0 .. n - 1 : data[i] = 1}
  BY DEF Masked
<1>2. OddOnes(m, 8) = OddOnes(data, n) /\ OddOnes(data, n) \in Bit
  <2>1. n \in 0 .. 8
    OBVIOUS
  <2> QED BY <1>1, <2>1, OddOnesIsBit DEF OddOnes
<1> HIDE DEF m
<1>3. mode = PARITY_EVEN \/ (mode = PARITY_ODD /\ mode # PARITY_EVEN)
  BY DEF parity_is_enabled, PARITY_EVEN, PARITY_ODD
<1>4. CASE mode = PARITY_EVEN
  BY <1>2, <1>4 DEF calc_parity_error, calc_parity_bit, PARITY_EVEN, PARITY_ODD, m
<1>5. CASE mode = PARITY_ODD /\ mode # PARITY_EVEN
  BY <1>2, <1>5 DEF calc_parity_error, calc_parity_bit, PARITY_EVEN, PARITY_ODD, m, Bit
<1> QED BY <1>3, <1>4, <1>5

LEMMA ParityExcept ==
  ASSUME NEW e \in Errors, NEW f
  PROVE  [e EXCEPT !.parity_error = f]
           = [frame_error |-> e.frame_error, parity_error |-> f, break_detect |-> e.break_detect]
BY DEF Errors

\* The middle of the parity bit.
LEMMA ParityStep ==
  ASSUME LinkInv, OVERSAMPLE >= 8, cfg \in Config, inc \in Nat, NEW start \in BOOLEAN, NEW data,
         LinkEdge(start, data), Sampled, RxParity(baud.oversample_tick)
  PROVE  Sampled'
<1> DEFINE e == calc_parity_error(rx.data, rx.parity_mode, rx_sync)
           errs == [rx.errors EXCEPT !.parity_error = e]
<1>1. rx.state = "PARITY" /\ Due(baud.oversample_tick)
  BY DEF RxParity
<1>2. tx.state = "PARITY" /\ rx_sync = tx.line /\ ~LastStop
  BY <1>1, SampleStep
<1>3. /\ rx_sync = calc_parity_bit(tx.data, tx.data_bits, tx.parity_mode)
      /\ parity_is_enabled(tx.parity_mode) /\ tx.data \in Byte /\ tx.data_bits \in 5 .. 8
      /\ tx.parity_mode \in Codes
  BY <1>2, SampledEdge DEF TxInv, TxTypeOK, LevelNow
<1>4. /\ rx.stop_bit_index = 0 /\ rx.data = Masked(tx.data, tx.data_bits)
      /\ rx.parity_mode = tx.parity_mode /\ rx.errors = NoErrors /\ rx.data_bits = tx.data_bits
  BY <1>1 DEF Sampled, Got, SameFormat
<1>5. e = FALSE
  <2>1. calc_parity_error(Masked(tx.data, tx.data_bits), tx.parity_mode,
                          calc_parity_bit(tx.data, tx.data_bits, tx.parity_mode)) = FALSE
    BY <1>3, MaskedParity
  <2> QED BY <1>3, <1>4, <2>1
<1>6. errs = NoErrors
  <2>1. errs = [NoErrors EXCEPT !.parity_error = FALSE]
    BY <1>4, <1>5
  <2>2. NoErrors \in Errors
    BY DEF NoErrors, Errors
  <2>3. errs = [frame_error |-> NoErrors.frame_error, parity_error |-> FALSE,
                break_detect |-> NoErrors.break_detect]
    BY <2>1, <2>2, ParityExcept
  <2>4. NoErrors.frame_error = FALSE /\ NoErrors.break_detect = FALSE
    BY DEF NoErrors
  <2> QED BY <2>3, <2>4 DEF NoErrors
<1>7. rx' = RxWith("STOP", 0, rx.data_bit_index, rx.stop_bit_index, rx.data, rx.all_data_zero,
                   rx.stop_low_seen, errs)
  BY SampledEdge, RxParityForm
<1> HIDE DEF errs
<1>8. /\ rx'.state = "STOP" /\ rx'.sample_count = 0
      /\ rx'.stop_bit_index = 0 /\ rx'.data = rx.data /\ rx'.errors = NoErrors
      /\ rx'.stop_low_seen = rx.stop_low_seen /\ rx'.char_valid = FALSE
      /\ rx'.data_bits = rx.data_bits /\ rx'.stop_bits = rx.stop_bits
      /\ rx'.parity_mode = rx.parity_mode
  BY <1>4, <1>6, <1>7 DEF RxWith
<1>9. RxPos' = RxPos + 1 /\ Got' = Got /\ Sampling'
  <2>1. rx.data_bits \in Nat /\ parity_is_enabled(rx.parity_mode)
    BY <1>3, <1>4
  <2> QED BY <1>1, <1>8, <2>1 DEF RxPos, RxParityBits, Got, Sampling
<1>10. Aligned' /\ tx'.state # "IDLE"
  BY <1>1, <1>2, <1>8, <1>9, SampleStep
<1>11. SameFormat'
  BY <1>8, SampledEdge DEF SameFormat
<1> QED BY <1>8, <1>9, <1>10, <1>11, SampledEdge DEF Sampled

\* The middle of a stop bit.
LEMMA StopStep ==
  ASSUME LinkInv, OVERSAMPLE >= 8, cfg \in Config, inc \in Nat, NEW start \in BOOLEAN, NEW data,
         LinkEdge(start, data), Sampled, RxStop(baud.oversample_tick)
  PROVE  Sampled' \/ Ended'
<1> DEFINE last  == rx.stop_bit_index = rx.stop_bits - 1
           frame == rx.errors.frame_error \/ rx_sync = 0
           low   == rx.stop_low_seen \/ rx_sync = 0
           brk   == IF last THEN frame /\ rx.all_data_zero /\ low ELSE rx.errors.break_detect
           errs  == [frame_error |-> frame, parity_error |-> rx.errors.parity_error, break_detect |-> brk]
           ns    == IF last THEN 0 ELSE rx.stop_bit_index + 1
           next  == IF last THEN "DONE" ELSE "STOP"
<1>1. rx.state = "STOP" /\ Due(baud.oversample_tick)
  BY DEF RxStop
<1>2. tx.state = "STOP" /\ rx_sync = tx.line /\ (LastStop <=> last)
  BY <1>1, SampleStep
<1>3. rx_sync = 1
  BY <1>2, SampledEdge DEF TxInv, LevelNow
<1>4. /\ rx.errors = NoErrors /\ ~rx.stop_low_seen /\ rx.data = Masked(tx.data, rx.data_bits)
      /\ rx.data_bits = tx.data_bits /\ flight = << Sent >>
  BY <1>1 DEF Sampled, Got, SameFormat
<1>5. frame = FALSE /\ low = FALSE /\ brk = FALSE
  BY <1>3, <1>4 DEF NoErrors
<1>6. errs = NoErrors
  <2>1. rx.errors.parity_error = FALSE
    BY <1>4 DEF NoErrors
  <2> HIDE DEF frame, brk
  <2> QED BY <1>5, <2>1 DEF NoErrors
<1>7. rx' = RxWith(next, 0, rx.data_bit_index, ns, rx.data, rx.all_data_zero, low, errs)
  BY SampledEdge, RxStopForm
<1> HIDE DEF errs, low, ns, next
<1>8. /\ rx'.state = next /\ rx'.sample_count = 0
      /\ rx'.stop_bit_index = ns /\ rx'.data = rx.data /\ rx'.errors = NoErrors
      /\ rx'.stop_low_seen = FALSE /\ rx'.char_valid = FALSE
      /\ rx'.data_bits = rx.data_bits /\ rx'.stop_bits = rx.stop_bits
      /\ rx'.parity_mode = rx.parity_mode
  BY <1>5, <1>6, <1>7 DEF RxWith
<1>9. CASE last
  <2>1. rx'.state = "DONE"
    BY <1>8, <1>9 DEF next
  <2>2. LastStop' \/ (tx'.state = "IDLE" /\ Elapsed' = 0)
    BY <1>1, <1>2, <1>9, SampleStep
  <2>3. High'
    BY <1>1, <1>2, SampleStep DEF High
  <2>4. flight' = << rx'.data >>
    BY <1>4, <1>8, SampledEdge DEF Sent
  <2> QED BY <1>8, <2>1, <2>2, <2>3, <2>4 DEF Ended
<1>10. CASE ~last
  <2>1. rx'.state = "STOP" /\ rx'.stop_bit_index = rx.stop_bit_index + 1
    BY <1>8, <1>10 DEF next, ns
  <2>2. RxPos' = RxPos + 1 /\ Got' = Got /\ Sampling'
    <3>1. rx.stop_bit_index \in Nat /\ rx.data_bits \in Nat
      BY RxTypes, SampledEdge
    <3> QED BY <1>1, <1>8, <2>1, <3>1 DEF RxPos, RxParityBits, Got, Sampling
  <2>3. Aligned' /\ tx'.state # "IDLE"
    BY <1>1, <1>2, <1>8, <1>10, <2>1, <2>2, SampleStep
  <2>4. SameFormat'
    BY <1>8, SampledEdge DEF SameFormat
  <2>5. (rx.data = Masked(tx.data, Got))'
    BY <1>1, <1>8, <2>1, SampledEdge DEF Sampled, Got
  <2> QED BY <1>8, <2>1, <2>2, <2>3, <2>4, <2>5, SampledEdge DEF Sampled
<1> QED BY <1>9, <1>10

LEMMA LinkInit ==
  ASSUME baud = Baud!BaudReset, tx = TxReset, sync = SyncReset, rx = RxReset, flight = << >>
  PROVE  LinkInv
<1>1. BaudInv
  BY LoopInputs DEF BaudInv, Baud!BaudTypeOK, Baud!BaudReset
<1>2. TxInv
  BY TxInit
<1>3. RxInv
  <2>1. Zero \in Byte /\ NoErrors \in Errors /\ BIT_LAST \in Nat
    BY LoopInputs DEF Zero, Byte, Bit, NoErrors, Errors, BIT_LAST
  <2>2. RxTypeOK
    BY <2>1 DEF RxTypeOK, RxReset, SyncReset, Codes, Bit
  <2> QED BY <2>2 DEF RxInv, RxReset, Sampling
<1>4. Rests
  BY DEF Rests, High, SyncReset, RxReset, TxReset
<1>5. tx.state = "IDLE"
  BY DEF TxReset
<1> QED BY <1>1, <1>2, <1>3, <1>4, <1>5 DEF LinkInv

\* The two sides stay in step, edge by edge.
LEMMA LinkStep ==
  ASSUME LinkInv, OVERSAMPLE >= 8, cfg \in Config, inc \in Nat, NEW start \in BOOLEAN, NEW data,
         LinkEdge(start, data)
  PROVE  LinkInv'
<1>1. BaudInv' /\ TxInv' /\ RxInv'
  BY LinkTypes
<1>2. (Rests \/ Begun \/ Sampled \/ Ended)'
  <2>1. CASE Rests
    BY <2>1, RestsStep
  <2>2. CASE Begun
    BY <2>2, BegunStep
  <2>3. CASE Sampled
    <3>1. Sampling /\ RxEdge(cfg, baud.oversample_tick)
      BY <2>3 DEF Sampled, LinkEdge
    <3>2. \/ RxWait(baud.oversample_tick) \/ RxStart(baud.oversample_tick)
          \/ RxData(baud.oversample_tick) \/ RxParity(baud.oversample_tick)
          \/ RxStop(baud.oversample_tick)
      BY <3>1 DEF RxEdge, RxIdle, RxDetect, RxDone, Sampling
    <3> QED BY <2>3, <3>2, WaitStep, StartStep, DataStep, ParityStep, StopStep
  <2>4. CASE Ended
    BY <2>4, EndedStep
  <2> QED BY <2>1, <2>2, <2>3, <2>4 DEF LinkInv
<1>3. (~cfg.enable => tx.state = "IDLE" /\ flight = << >>)'
  <2> SUFFICES ASSUME ~cfg.enable PROVE tx'.state = "IDLE" /\ flight' = << >>
    BY DEF LinkEdge
  <2>1. tx.state = "IDLE" /\ flight = << >> /\ ~start
    BY DEF LinkInv, LinkEdge
  <2>2. ~rx.char_valid
    BY <2>1 DEF LinkInv, Rests, Begun, Sampled, Ended
  <2>3. flight' = << >>
    BY <2>1, <2>2 DEF LinkEdge, Received
  <2>4. tx'.state = "IDLE"
    <3>1. TxEdge(cfg, baud.baud_tick, start, data) /\ TxInv
      BY DEF LinkEdge, LinkInv
    <3> QED BY <2>1, <3>1, TxBetween
  <2> QED BY <2>3, <2>4
<1> QED BY <1>1, <1>2, <1>3 DEF LinkInv

\* What it is for: a character is handed over as it was sent, before another one begins.
LEMMA LinkKeeps ==
  ASSUME LinkInv
  PROVE  /\ Baud!BaudTypeOK /\ TxTypeOK /\ RxTypeOK
         /\ flight \in Seq(Byte) /\ Len(flight) <= 1
         /\ rx.char_valid => flight = << rx.data >> /\ rx.errors = NoErrors
<1>1. Baud!BaudTypeOK /\ TxTypeOK /\ RxTypeOK
  BY DEF LinkInv, BaudInv, TxInv, RxInv
<1>2. tx.data \in Byte /\ rx.data \in Byte
  BY <1>1 DEF TxTypeOK, RxTypeOK
<1>3. Sent \in Byte
  BY <1>2 DEF Sent, Masked, Byte, Bit
<1>4. flight = << >> \/ flight = << Sent >> \/ flight = << rx.data >>
  BY DEF LinkInv, Rests, Begun, Sampled, Ended
<1>5. rx.char_valid => flight = << rx.data >> /\ rx.errors = NoErrors
  BY DEF LinkInv, Rests, Begun, Sampled, Ended
<1>6. flight \in Seq(Byte) /\ Len(flight) <= 1
  <2>1. CASE flight = << >>
    BY <2>1
  <2>2. ASSUME NEW x \in Byte, flight = << x >> PROVE flight \in Seq(Byte) /\ Len(flight) <= 1
    BY <2>2
  <2> QED BY <1>2, <1>3, <1>4, <2>1, <2>2
<1> QED BY <1>1, <1>5, <1>6

LoopInv == /\ LinkInv
           /\ cfg \in Cfgs /\ inc \in Incs /\ io \in [tick : BOOLEAN, launch : BOOLEAN]

\* A clock edge of UartLoopback is one of the link.
LEMMA LoopClock ==
  ASSUME LoopInv, OVERSAMPLE >= 8, NEW offered \in BOOLEAN, NEW data \in Bytes, Clock(offered, data)
  PROVE  LoopInv'
<1> DEFINE start == tx_start(offered)
<1>1. cfg \in Config /\ inc \in Nat /\ data \in Byte
  BY LoopInputs DEF LoopInv
<1>2. start \in BOOLEAN /\ baud.baud_tick \in BOOLEAN
  BY DEF tx_start, LoopInv, LinkInv, BaudInv, Baud!BaudTypeOK
<1>3. LinkEdge(start, data)
  BY <1>1 DEF Clock, LinkEdge, tx_start, tx_ready_for_start
<1>4. io' = [tick |-> baud.baud_tick, launch |-> start] /\ UNCHANGED << cfg, inc >>
  BY DEF Clock
<1> HIDE DEF start
<1>5. LinkInv'
  BY <1>1, <1>2, <1>3, LinkStep DEF LoopInv
<1> QED BY <1>2, <1>4, <1>5 DEF LoopInv

\* A step that touches neither side nor the generator.
LEMMA LinkStutter ==
  ASSUME LinkInv, UNCHANGED << baud, tx, sync, rx, flight >>,
         ~cfg'.enable => tx.state = "IDLE" /\ flight = << >>,
         Begun => cfg' = cfg
  PROVE  LinkInv'
<1>1. BaudInv' /\ TxInv' /\ RxInv'
  BY DEF LinkInv, BaudInv, Baud!BaudTypeOK, TxInv, TxTypeOK, LevelNow, RxInv, RxTypeOK, Sampling, Last
<1>2. CASE Begun
  BY <1>1, <1>2 DEF LinkInv, Begun, Elapsed, Sent
<1>3. CASE Rests
  BY <1>1, <1>3 DEF LinkInv, Rests, High, LastStop, Elapsed
<1>4. CASE Sampled
  BY <1>1, <1>4 DEF LinkInv, Sampled, Sampling, SameFormat, Sent, Got, Settled, Aligned, Elapsed,
                    TxPos, RxPos, ParityBits, RxParityBits
<1>5. CASE Ended
  BY <1>1, <1>5 DEF LinkInv, Ended, High, LastStop, Elapsed
<1> QED BY <1>2, <1>3, <1>4, <1>5 DEF LinkInv

LEMMA LoopInvariance == ASSUME OVERSAMPLE >= 8 PROVE Spec => []LoopInv
<1>1. Init => LoopInv
  BY LinkInit DEF Init, LoopInv
<1>2. LoopInv /\ [Next]_vars => LoopInv'
  <2> SUFFICES ASSUME LoopInv, [Next]_vars PROVE LoopInv'
    OBVIOUS
  <2>1. CASE Clocks
    BY <2>1, LoopClock DEF Clocks
  <2>2. ASSUME NEW c \in Cfgs, Reconfigure(c) PROVE LoopInv'
    <3>1. ~Begun
      BY <2>2 DEF Reconfigure, Unseen, Begun
    <3>2. UNCHANGED << baud, tx, sync, rx, flight >> /\ cfg' = c /\ UNCHANGED << inc, io >>
      BY <2>2 DEF Reconfigure
    <3>3. ~cfg'.enable => tx.state = "IDLE" /\ flight = << >>
      <4>1. c.enable \in BOOLEAN /\ cfg.enable \in BOOLEAN
        BY LoopInputs DEF LoopInv, Config
      <4>2. CASE c.enable = cfg.enable
        BY <3>2, <4>2 DEF LoopInv, LinkInv
      <4>3. CASE c.enable # cfg.enable
        BY <2>2, <4>3 DEF Reconfigure
      <4> QED BY <4>2, <4>3
    <3>4. LinkInv'
      BY <3>1, <3>2, <3>3, LinkStutter DEF LoopInv
    <3> QED BY <3>2, <3>4 DEF LoopInv
  <2>3. ASSUME UNCHANGED << baud, tx, sync, rx, flight, cfg, io >>, inc' \in Incs PROVE LoopInv'
    <3>1. LinkInv'
      BY <2>3, LinkStutter DEF LoopInv, LinkInv
    <3> QED BY <2>3, <3>1 DEF LoopInv
  <2>4. CASE \E i \in Incs : SetRate(i)
    BY <2>3, <2>4 DEF SetRate
  <2>5. CASE UNCHANGED vars
    BY <2>3, <2>5 DEF vars, LoopInv
  <2> QED BY <2>1, <2>2, <2>4, <2>5 DEF Next
<1> QED BY <1>1, <1>2, PTL DEF Spec

\* uart_tx.sv:151-269 with uart_rx_sync.sv and uart_rx.sv:177-388 on one generator: a
\* character that is launched is handed over with its data and no error, and before
\* another one is launched, for every configuration and rate that they are changed to
\* while it is on the line.  Eight oversample ticks to a bit are the least: the sample
\* in the middle of the start bit has to come after the synchroniser's three edges.
THEOREM CharactersLoopBack == ASSUME OVERSAMPLE >= 8 PROVE Spec => []LoopsBack
<1>1. LoopInv /\ DriftInv => LoopsBack
  <2> SUFFICES ASSUME LoopInv, DriftInv PROVE LoopsBack
    OBVIOUS
  <2>1. /\ Baud!BaudTypeOK /\ TxTypeOK /\ RxTypeOK
        /\ flight \in Seq(Byte) /\ Len(flight) <= 1
        /\ rx.char_valid => flight = << rx.data >> /\ rx.errors = NoErrors
    BY LinkKeeps DEF LoopInv
  <2>2. TypeOK
    BY <2>1 DEF TypeOK, LoopInv, DriftInv
  <2> QED BY <2>1, <2>2 DEF LoopsBack
<1> QED BY <1>1, LoopInvariance, DriftInvariance, PTL
=============================================================================
