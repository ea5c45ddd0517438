-------------------------- MODULE UartRxLineProofs --------------------------
(***************************************************************************)
(* What the receiver makes of a line, for any number of ticks to a bit.    *)
(* The invariant follows one frame of the peer from its start bit to the   *)
(* last sample that is taken of it: the clocks of it that are over, what   *)
(* the synchroniser holds of it, the levels sampled so far, and what the   *)
(* baud generator has accumulated since its start was found.               *)
(***************************************************************************)
EXTENDS UartRxLine, SequenceTheorems, TLAPS

\* The receiver and the generator of UartLoopback, of which only what is proved of them by
\* themselves is used here.
Rcv == INSTANCE UartLoopbackProofs
         WITH inc <- Inc, Incs <- {Inc}, MaxFlight <- 0, tx <- 0, flight <- 0, since <- 0, io <- 0

LEMMA Assumptions == Rcv!LoopInputs
BY LineInputs DEF Rcv!LoopInputs, Rcv!Byte, Rcv!Bit, Rcv!Config, Rcv!Codes, Byte, Bit, Config, Codes

\* Both instances of the receiver are the same.
LEMMA SameFormats ==
  ASSUME NEW d, NEW n, NEW m, NEW b
  PROVE  /\ Rcv!Bit = Bit /\ Rcv!Byte = Byte /\ Rcv!Codes = Codes /\ Rcv!Config = Config
         /\ Rcv!Zero = Zero /\ Rcv!Masked(d, n) = Masked(d, n)
         /\ Rcv!decode_data_bits(n) = decode_data_bits(n)
         /\ Rcv!decode_stop_bits(n) = decode_stop_bits(n)
         /\ Rcv!parity_is_enabled(m) = parity_is_enabled(m)
         /\ Rcv!OddOnes(d, n) = OddOnes(d, n)
         /\ Rcv!calc_parity_bit(d, n, m) = calc_parity_bit(d, n, m)
         /\ Rcv!calc_parity_error(d, m, b) = calc_parity_error(d, m, b)
         /\ Rcv!GoodParity(d, n, m) = GoodParity(d, n, m)
<1>1. \A S : Rcv!Cardinality(S) = Cardinality(S)
  BY Zenon DEF Rcv!Cardinality, Cardinality
<1>2. \A x, k : Rcv!OddOnes(x, k) = OddOnes(x, k)
  BY <1>1 DEF Rcv!OddOnes, OddOnes
<1>3. Rcv!calc_parity_bit(d, n, m) = calc_parity_bit(d, n, m)
  BY <1>2, Zenon DEF Rcv!calc_parity_bit, calc_parity_bit, Rcv!PARITY_EVEN, Rcv!PARITY_ODD,
     PARITY_EVEN, PARITY_ODD
<1>4. Rcv!calc_parity_error(d, m, b) = calc_parity_error(d, m, b)
  BY <1>2, Zenon DEF Rcv!calc_parity_error, calc_parity_error, Rcv!PARITY_EVEN, Rcv!PARITY_ODD,
     PARITY_EVEN, PARITY_ODD
<1>5. Rcv!Bit = Bit /\ Rcv!Byte = Byte /\ Rcv!Codes = Codes /\ Rcv!Config = Config /\ Rcv!Zero = Zero
  BY DEF Rcv!Bit, Rcv!Byte, Rcv!Codes, Rcv!Config, Rcv!Zero, Bit, Byte, Codes, Config, Zero
<1>6. Rcv!GoodParity(d, n, m) = GoodParity(d, n, m)
  BY <1>1, <1>5, Zenon DEF Rcv!GoodParity, GoodParity, Rcv!PARITY_EVEN, PARITY_EVEN
<1>7. Rcv!Masked(d, n) = Masked(d, n)
  BY DEF Rcv!Masked, Masked
<1> QED
  BY <1>2, <1>3, <1>4, <1>5, <1>6, <1>7 DEF Rcv!decode_data_bits, decode_data_bits, Rcv!decode_stop_bits, decode_stop_bits,
     Rcv!parity_is_enabled, parity_is_enabled, Rcv!PARITY_EVEN, Rcv!PARITY_ODD,
     PARITY_EVEN, PARITY_ODD

LEMMA SameReceiver ==
  ASSUME NEW t
  PROVE  /\ Rcv!Sampling <=> Sampling
         /\ Rcv!Last = Last /\ Rcv!HALF_LAST = HALF_LAST /\ Rcv!BIT_LAST = BIT_LAST
         /\ Rcv!NoErrors = NoErrors /\ Rcv!Errors = Errors
         /\ Rcv!Quiet = Quiet /\ Rcv!Fresh = Fresh
         /\ Rcv!rx_sync = rx_sync
         /\ Rcv!RxTypeOK <=> RxTypeOK
         /\ Rcv!Due(t) <=> Due(t)
<1>1. Rcv!Sampling <=> Sampling BY DEF Rcv!Sampling, Sampling
<1>2. Rcv!Last = Last /\ Rcv!HALF_LAST = HALF_LAST /\ Rcv!BIT_LAST = BIT_LAST
  BY DEF Rcv!Last, Last, Rcv!HALF_LAST, Rcv!BIT_LAST, HALF_LAST, BIT_LAST
<1>3. Rcv!NoErrors = NoErrors /\ Rcv!Errors = Errors BY DEF Rcv!NoErrors, NoErrors, Rcv!Errors, Errors
<1>4. Rcv!Quiet = Quiet BY <1>3 DEF Rcv!Quiet, Quiet
<1>5. Rcv!Fresh = Fresh BY <1>3, <1>4 DEF Rcv!Fresh, Fresh
<1>6. Rcv!rx_sync = rx_sync BY DEF Rcv!rx_sync, rx_sync
<1>7. Rcv!Due(t) <=> Due(t) BY <1>2 DEF Rcv!Due, Due
<1>8. Rcv!RxTypeOK <=> RxTypeOK BY <1>2, <1>3, SameFormats DEF Rcv!RxTypeOK, RxTypeOK
<1> QED BY <1>1, <1>2, <1>3, <1>4, <1>5, <1>6, <1>7, <1>8

LEMMA SameRxEdge ==
  ASSUME NEW c, NEW t
  PROVE  /\ Rcv!RxEdge(c, t) <=> RxEdge(c, t)
         /\ Rcv!RxIdle(c) <=> RxIdle(c) 
         /\ Rcv!RxDetect(c) <=> RxDetect(c)
         /\ Rcv!RxWait(t) <=> RxWait(t)
         /\ Rcv!RxStart(t) <=> RxStart(t)
         /\ Rcv!RxData(t) <=> RxData(t)
         /\ Rcv!RxParity(t) <=> RxParity(t)
         /\ Rcv!RxStop(t) <=> RxStop(t)
         /\ Rcv!RxDone <=> RxDone
<1>1. Rcv!RxIdle(c) <=> RxIdle(c)
  BY SameFormats, SameReceiver DEF Rcv!RxIdle, RxIdle
<1>2. Rcv!RxDetect(c) <=> RxDetect(c)
  BY SameFormats, SameReceiver DEF Rcv!RxDetect, RxDetect
<1>3. Rcv!RxWait(t) <=> RxWait(t)
  BY SameFormats, SameReceiver DEF Rcv!RxWait, RxWait
<1>4. Rcv!RxStart(t) <=> RxStart(t)
  BY SameFormats, SameReceiver DEF Rcv!RxStart, RxStart
<1>5. Rcv!RxData(t) <=> RxData(t)
  BY SameFormats, SameReceiver DEF Rcv!RxData, RxData
<1>6. Rcv!calc_parity_error(rx.data, rx.parity_mode, Rcv!rx_sync)
        = calc_parity_error(rx.data, rx.parity_mode, rx_sync)
  BY SameFormats, SameReceiver
<1>7. Rcv!RxParity(t) <=> RxParity(t)
  BY <1>6, SameReceiver, Zenon DEF Rcv!RxParity, RxParity
<1>8. Rcv!RxStop(t) <=> RxStop(t)
  BY SameFormats, SameReceiver DEF Rcv!RxStop, RxStop
<1>9. Rcv!RxDone <=> RxDone
  BY SameFormats, SameReceiver DEF Rcv!RxDone, RxDone
<1> QED BY <1>1, <1>2, <1>3, <1>4, <1>5, <1>7, <1>8, <1>9 DEF Rcv!RxEdge, RxEdge

-----------------------------------------------------------------------------
(* What the receiver has made of the first k levels s of a frame.           *)

DataBits(c)   == decode_data_bits(c.data_bits)
ParityBits(c) == IF parity_is_enabled(c.parity_mode) THEN 1 ELSE 0
FrameBits(c)  == 1 + DataBits(c) + ParityBits(c) + StopsOf(c)

DataOf(s, c, k) == [i \in 0 .. 7 |-> IF i < DataBits(c) /\ i + 2 <= k THEN s[i + 2] ELSE 0]
BadParity(s, c, k) == /\ parity_is_enabled(c.parity_mode) /\ k >= DataBits(c) + 2
                      /\ calc_parity_error(DataOf(s, c, k), c.parity_mode, s[DataBits(c) + 2])
StopLow(s, c, k) == \E i \in DataBits(c) + ParityBits(c) + 2 .. k : s[i] = 0

RecordOf(s, c) ==
  LET n == FrameBits(c)
  IN [data |-> DataOf(s, c, n),
      errors |-> [frame_error |-> StopLow(s, c, n), parity_error |-> BadParity(s, c, n),
                  break_detect |-> StopLow(s, c, n) /\ DataOf(s, c, n) = Zero]]

StateAt(c, k) == IF k = 0 THEN "START"
                 ELSE IF k <= DataBits(c) THEN "DATA"
                 ELSE IF k = DataBits(c) + 1 /\ parity_is_enabled(c.parity_mode) THEN "PARITY"
                 ELSE "STOP"

BitAt(c, k)  == IF StateAt(c, k) = "DATA" THEN k - 1 ELSE 0
StopAt(c, k) == IF StateAt(c, k) = "STOP" THEN k - (1 + DataBits(c) + ParityBits(c)) ELSE 0
ErrorsAt(s, c, k) == [frame_error |-> StopLow(s, c, k), parity_error |-> BadParity(s, c, k),
                      break_detect |-> FALSE]

\* The registers after k samples and some ticks.
Reading(s, c, k, count) ==
  [state |-> StateAt(c, k), sample_count |-> count,
   data_bit_index |-> BitAt(c, k), stop_bit_index |-> StopAt(c, k),
   data_bits |-> DataBits(c), stop_bits |-> StopsOf(c), parity_mode |-> c.parity_mode,
   data |-> DataOf(s, c, k), all_data_zero |-> DataOf(s, c, k) = Zero,
   stop_low_seen |-> StopLow(s, c, k), errors |-> ErrorsAt(s, c, k),
   start_armed |-> FALSE, char_valid |-> FALSE, events |-> NoErrors]

\* The tick at which it samples.
LastOf(k) == IF k = 0 THEN HALF_LAST ELSE BIT_LAST

LEMMA FormatTypes ==
  ASSUME NEW c \in Config
  PROVE  /\ DataBits(c) \in 5 .. 8 /\ ParityBits(c) \in 0 .. 1 /\ StopsOf(c) \in 1 .. 2
         /\ parity_is_enabled(c.parity_mode) \in BOOLEAN
         /\ parity_is_enabled(c.parity_mode) <=> ParityBits(c) = 1
         /\ decode_stop_bits(c.stop_bits) = StopsOf(c) /\ c.parity_mode \in Codes
         /\ FrameBits(c) = 1 + DataBits(c) + ParityBits(c) + StopsOf(c) /\ FrameBits(c) \in 7 .. 12
         /\ c.enable \in BOOLEAN /\ c.rx_enable \in BOOLEAN
<1>1. c.data_bits \in 0 .. 3 /\ c.stop_bits \in 0 .. 3 /\ c.parity_mode \in Codes
      /\ c.enable \in BOOLEAN /\ c.rx_enable \in BOOLEAN
  BY DEF Config, Codes
<1>2. DataBits(c) \in 5 .. 8
  BY <1>1 DEF DataBits, decode_data_bits
<1>3. /\ ParityBits(c) \in 0 .. 1 /\ parity_is_enabled(c.parity_mode) \in BOOLEAN
      /\ parity_is_enabled(c.parity_mode) <=> ParityBits(c) = 1
  BY DEF ParityBits, parity_is_enabled
<1>4. StopsOf(c) \in 1 .. 2 /\ decode_stop_bits(c.stop_bits) = StopsOf(c)
  BY DEF StopsOf, decode_stop_bits
<1>5. FrameBits(c) \in 7 .. 12
  BY <1>2, <1>3, <1>4 DEF FrameBits
<1> QED BY <1>1, <1>2, <1>3, <1>4, <1>5 DEF FrameBits

\* The state and its counters.
LEMMA StateFacts ==
  ASSUME NEW c \in Config, NEW k \in 0 .. FrameBits(c) - 1
  PROVE  /\ StateAt(c, k) \in {"START", "DATA", "PARITY", "STOP"}
         /\ StateAt(c, k) = "START" <=> k = 0
         /\ StateAt(c, k) = "DATA" <=> k \in 1 .. DataBits(c)
         /\ StateAt(c, k) = "PARITY" <=> k = DataBits(c) + 1 /\ parity_is_enabled(c.parity_mode)
         /\ StateAt(c, k) = "STOP" <=> k >= DataBits(c) + ParityBits(c) + 1
BY FormatTypes DEF StateAt

LEMMA ReadingState ==
  ASSUME NEW c \in Config, NEW k \in 0 .. FrameBits(c) - 1, NEW s, NEW n, rx = Reading(s, c, k, n)
  PROVE  /\ rx.state = StateAt(c, k) /\ rx.sample_count = n /\ Sampling /\ Last = LastOf(k)
         /\ ~rx.start_armed /\ ~rx.char_valid
<1>1. rx.state = StateAt(c, k) /\ rx.sample_count = n /\ ~rx.start_armed /\ ~rx.char_valid
  BY DEF Reading
<1> QED BY <1>1, StateFacts DEF Sampling, Last, LastOf

\* A tick that is not the one of a sample is counted.
LEMMA ReadingWaits ==
  ASSUME NEW c \in Config, NEW k \in 0 .. FrameBits(c) - 1, NEW s, NEW n, rx = Reading(s, c, k, n),
         RxTypeOK, NEW d, NEW t \in BOOLEAN, RxEdge(d, t), ~(t /\ n = LastOf(k))
  PROVE  rx' = Reading(s, c, k, IF t THEN n + 1 ELSE n)
<1>1. Sampling /\ ~Due(t) /\ rx.state # "IDLE" /\ rx.state # "DONE"
  BY ReadingState, StateFacts DEF Due
<1>2. RxWait(t)
  BY <1>1 DEF RxEdge, RxIdle, RxDetect, RxStart, RxData, RxParity, RxStop, RxDone
<1> DEFINE m == IF t THEN n + 1 ELSE n
<1>3. rx' = Rcv!RxWith(rx.state, IF t THEN rx.sample_count + 1 ELSE rx.sample_count,
                       rx.data_bit_index, rx.stop_bit_index, rx.data, rx.all_data_zero,
                       rx.stop_low_seen, rx.errors)
  BY <1>2, SameReceiver, SameRxEdge, Rcv!RxWaitForm, Assumptions
<1>4. (IF t THEN rx.sample_count + 1 ELSE rx.sample_count) = m
  BY ReadingState
<1> HIDE DEF m
<1>5. rx' = Rcv!RxWith(rx.state, m, rx.data_bit_index, rx.stop_bit_index, rx.data, rx.all_data_zero,
                       rx.stop_low_seen, rx.errors)
  BY <1>3, <1>4
<1>6. rx' = Reading(s, c, k, m)
  BY <1>5, SameReceiver DEF Rcv!RxWith, Reading
<1> QED BY <1>6 DEF m

\* What one more level changes.
LEMMA DataMore ==
  ASSUME NEW c \in Config, NEW s, NEW k \in 0 .. FrameBits(c) - 1,
         k \in 1 .. DataBits(c)
  PROVE  /\ DataOf(s, c, k + 1) = [DataOf(s, c, k) EXCEPT ![k - 1] = s[k + 1]]
         /\ DataOf(s, c, k + 1) = Zero <=> DataOf(s, c, k) = Zero /\ s[k + 1] = 0
<1>1. DataBits(c) \in 5 .. 8 /\ k \in Nat
  BY FormatTypes
<1>2. DataOf(s, c, k + 1) = [DataOf(s, c, k) EXCEPT ![k - 1] = s[k + 1]]
  <2>1. k - 1 \in 0 .. 7 /\ k - 1 < DataBits(c)
    BY <1>1
  <2>2. [DataOf(s, c, k) EXCEPT ![k - 1] = s[k + 1]]
          = [i \in 0 .. 7 |-> IF i = k - 1 THEN s[k + 1] ELSE DataOf(s, c, k)[i]]
    BY <2>1 DEF DataOf
  <2>3. \A i \in 0 .. 7 : (IF i < DataBits(c) /\ i + 2 <= k + 1 THEN s[i + 2] ELSE 0)
                           = IF i = k - 1 THEN s[k + 1] ELSE DataOf(s, c, k)[i]
    <3> SUFFICES ASSUME NEW i \in 0 .. 7
                 PROVE  (IF i < DataBits(c) /\ i + 2 <= k + 1 THEN s[i + 2] ELSE 0)
                           = IF i = k - 1 THEN s[k + 1] ELSE DataOf(s, c, k)[i]
      OBVIOUS
    <3>1. DataOf(s, c, k)[i] = IF i < DataBits(c) /\ i + 2 <= k THEN s[i + 2] ELSE 0
      BY DEF DataOf
    <3>2. CASE i = k - 1
      <4>1. i + 2 = k + 1
        BY <1>1, <3>2
      <4> QED BY <1>1, <2>1, <3>2, <4>1
    <3>3. CASE i # k - 1
      BY <1>1, <3>1, <3>3
    <3> QED BY <3>2, <3>3
  <2> QED BY <2>2, <2>3 DEF DataOf
<1>3. DataOf(s, c, k)[k - 1] = 0 /\ k - 1 \in 0 .. 7
  BY <1>1 DEF DataOf
<1>4. DataOf(s, c, k + 1) = Zero <=> \A i \in 0 .. 7 : DataOf(s, c, k + 1)[i] = 0
  BY DEF DataOf, Zero
<1>5. DataOf(s, c, k) = Zero <=> \A i \in 0 .. 7 : DataOf(s, c, k)[i] = 0
  BY DEF DataOf, Zero
<1>6. \A i \in 0 .. 7 : DataOf(s, c, k + 1)[i] = IF i = k - 1 THEN s[k + 1] ELSE DataOf(s, c, k)[i]
  BY <1>1 DEF DataOf
<1> QED BY <1>2, <1>3, <1>4, <1>5, <1>6

LEMMA DataSame ==
  ASSUME NEW c \in Config, NEW s, NEW k \in Nat, k \notin 1 .. DataBits(c)
  PROVE  DataOf(s, c, k + 1) = DataOf(s, c, k)
<1>1. DataBits(c) \in 5 .. 8
  BY FormatTypes
<1>2. \A i \in 0 .. 7 : (IF i < DataBits(c) /\ i + 2 <= k + 1 THEN s[i + 2] ELSE 0)
                        = (IF i < DataBits(c) /\ i + 2 <= k THEN s[i + 2] ELSE 0)
  BY <1>1
<1> QED BY <1>2 DEF DataOf

LEMMA StopMore ==
  ASSUME NEW c \in Config, NEW s, NEW k \in 0 .. FrameBits(c) - 1
  PROVE  /\ k >= DataBits(c) + ParityBits(c) + 1 => (StopLow(s, c, k + 1) <=> StopLow(s, c, k) \/ s[k + 1] = 0)
         /\ k <= DataBits(c) + ParityBits(c) => ~StopLow(s, c, k + 1)
         /\ k <= DataBits(c) + ParityBits(c) + 1 => ~StopLow(s, c, k)
BY FormatTypes DEF StopLow

LEMMA ParityMore ==
  ASSUME NEW c \in Config, NEW s, NEW k \in 0 .. FrameBits(c) - 1
  PROVE  /\ k <= DataBits(c) => ~BadParity(s, c, k + 1)
         /\ k <= DataBits(c) + 1 => ~BadParity(s, c, k)
         /\ k = DataBits(c) + 1 /\ parity_is_enabled(c.parity_mode) =>
              BadParity(s, c, k + 1) = calc_parity_error(DataOf(s, c, k), c.parity_mode, s[k + 1])
         /\ k >= DataBits(c) + ParityBits(c) + 1 => BadParity(s, c, k + 1) = BadParity(s, c, k)
<1>0. DataBits(c) \in 5 .. 8 /\ ParityBits(c) \in 0 .. 1 /\ k \in Nat
      /\ (parity_is_enabled(c.parity_mode) <=> ParityBits(c) = 1)
      /\ parity_is_enabled(c.parity_mode) \in BOOLEAN
  BY FormatTypes
<1>1. k <= DataBits(c) => ~BadParity(s, c, k + 1)
  BY <1>0 DEF BadParity
<1>2. k <= DataBits(c) + 1 => ~BadParity(s, c, k)
  BY <1>0 DEF BadParity
<1>3. ASSUME k = DataBits(c) + 1, parity_is_enabled(c.parity_mode)
      PROVE  BadParity(s, c, k + 1) = calc_parity_error(DataOf(s, c, k), c.parity_mode, s[k + 1])
  <2> DEFINE e == calc_parity_error(DataOf(s, c, k), c.parity_mode, s[k + 1])
  <2>1. DataOf(s, c, k + 1) = DataOf(s, c, k) /\ k + 1 = DataBits(c) + 2 /\ k + 1 >= DataBits(c) + 2
    <3>1. k \notin 1 .. DataBits(c) /\ k + 1 = DataBits(c) + 2
      BY <1>0, <1>3
    <3>2. DataOf(s, c, k + 1) = DataOf(s, c, k)
      BY <1>0, <3>1, DataSame
    <3> QED BY <1>0, <3>1, <3>2
  <2>2. e \in BOOLEAN
    BY DEF calc_parity_error
  <2>3. BadParity(s, c, k + 1) <=> e
    BY <1>3, <2>1 DEF BadParity
  <2>4. BadParity(s, c, k + 1) \in BOOLEAN
    BY DEF BadParity
  <2> HIDE DEF e
  <2>5. BadParity(s, c, k + 1) = e
    BY <2>2, <2>3, <2>4
  <2> QED BY <2>5 DEF e
<1>4. ASSUME k >= DataBits(c) + ParityBits(c) + 1
      PROVE  BadParity(s, c, k + 1) = BadParity(s, c, k)
  <2>1. DataOf(s, c, k + 1) = DataOf(s, c, k)
    <3>1. k \notin 1 .. DataBits(c)
      BY <1>0, <1>4
    <3> QED BY <1>0, <3>1, DataSame
  <2>2. parity_is_enabled(c.parity_mode) => k >= DataBits(c) + 2 /\ k + 1 >= DataBits(c) + 2
    BY <1>0, <1>4
  <2>3. BadParity(s, c, k + 1) <=> BadParity(s, c, k)
    BY <2>1, <2>2 DEF BadParity
  <2>4. BadParity(s, c, k + 1) \in BOOLEAN /\ BadParity(s, c, k) \in BOOLEAN
    BY DEF BadParity
  <2> QED BY <2>3, <2>4
<1> QED BY <1>1, <1>2, <1>3, <1>4

\* A sample is taken: the state has an action of its own.
LEMMA SampleAction ==
  ASSUME NEW c \in Config, NEW k \in 0 .. FrameBits(c) - 1, NEW s, rx = Reading(s, c, k, LastOf(k)),
         NEW d, RxEdge(d, TRUE)
  PROVE  /\ k = 0 => RxStart(TRUE)
         /\ k \in 1 .. DataBits(c) => RxData(TRUE)
         /\ k = DataBits(c) + 1 /\ parity_is_enabled(c.parity_mode) => RxParity(TRUE)
         /\ k >= DataBits(c) + ParityBits(c) + 1 => RxStop(TRUE)
<1>1. rx.state = StateAt(c, k) /\ Due(TRUE) /\ rx.state # "IDLE" /\ rx.state # "DONE"
  BY ReadingState, StateFacts DEF Due
<1>2. \/ RxStart(TRUE) \/ RxData(TRUE) \/ RxParity(TRUE) \/ RxStop(TRUE)
  BY <1>1 DEF RxEdge, RxIdle, RxDetect, RxWait, RxDone
<1> QED BY <1>1, <1>2, StateFacts DEF RxStart, RxData, RxParity, RxStop

LEMMA StartSample ==
  ASSUME NEW c \in Config, NEW s, rx = Reading(s, c, 0, HALF_LAST), RxTypeOK,
         NEW d, RxEdge(d, TRUE)
  PROVE  /\ rx_sync = 0 => rx' = Reading(s, c, 1, 0)
         /\ rx_sync # 0 => /\ rx'.state = "IDLE" /\ ~rx'.start_armed /\ ~rx'.char_valid
                           /\ rx'.events = NoErrors
<1>0. 0 \in 0 .. FrameBits(c) - 1 /\ 1 \in 0 .. FrameBits(c) - 1 /\ 1 \in 1 .. DataBits(c)
      /\ DataBits(c) \in 5 .. 8 /\ ParityBits(c) \in 0 .. 1
  BY FormatTypes
<1>1. RxStart(TRUE)
  BY <1>0, SampleAction DEF LastOf
<1> DEFINE next == IF rx_sync = 0 THEN "DATA" ELSE "IDLE"
<1>2. rx' = Rcv!RxWith(next, 0, rx.data_bit_index, rx.stop_bit_index, rx.data, rx.all_data_zero,
                       rx.stop_low_seen, rx.errors)
  BY <1>1, SameReceiver, SameRxEdge, Rcv!RxStartForm, Assumptions
<1>3. DataOf(s, c, 0) = DataOf(s, c, 1)
  BY <1>0, DataSame
<1>4. ~StopLow(s, c, 0) /\ ~StopLow(s, c, 1) /\ ~BadParity(s, c, 0) /\ ~BadParity(s, c, 1)
  BY <1>0, StopMore, ParityMore
<1>5. StateAt(c, 0) = "START" /\ StateAt(c, 1) = "DATA"
  BY <1>0, StateFacts
<1> HIDE DEF next
<1>6. ASSUME rx_sync = 0 PROVE rx' = Reading(s, c, 1, 0)
  <2>1. next = "DATA"
    BY <1>6 DEF next
  <2>2. /\ rx.data_bit_index = 0 /\ rx.stop_bit_index = 0 /\ rx.data = DataOf(s, c, 0)
        /\ rx.all_data_zero = (DataOf(s, c, 0) = Zero)
        /\ rx.stop_low_seen = StopLow(s, c, 0)
        /\ rx.errors = ErrorsAt(s, c, 0)
        /\ rx.data_bits = DataBits(c) /\ rx.stop_bits = StopsOf(c) /\ rx.parity_mode = c.parity_mode
        /\ rx.start_armed = FALSE
    BY <1>5 DEF Reading, BitAt, StopAt
  <2>3. StopLow(s, c, 0) = FALSE /\ StopLow(s, c, 1) = FALSE /\ BadParity(s, c, 0) = FALSE /\ BadParity(s, c, 1) = FALSE
    BY <1>4 DEF StopLow, BadParity
  <2>4. BitAt(c, 1) = 0 /\ StopAt(c, 1) = 0 /\ ErrorsAt(s, c, 0) = ErrorsAt(s, c, 1)
    <3>1. BitAt(c, 1) = 0 /\ StopAt(c, 1) = 0
      BY <1>5 DEF BitAt, StopAt
    <3>2. ErrorsAt(s, c, 0) = ErrorsAt(s, c, 1)
      BY <2>3 DEF ErrorsAt
    <3> QED BY <3>1, <3>2
  <2> DEFINE z == DataOf(s, c, 1) = Zero
  <2>5. rx.all_data_zero = z
    BY <1>3, <2>2
  <2> HIDE DEF z
  <2>6. rx' = [state |-> "DATA", sample_count |-> 0, data_bit_index |-> 0, stop_bit_index |-> 0,
               data_bits |-> DataBits(c), stop_bits |-> StopsOf(c), parity_mode |-> c.parity_mode,
               data |-> DataOf(s, c, 1), all_data_zero |-> z, stop_low_seen |-> FALSE,
               errors |-> ErrorsAt(s, c, 1),
               start_armed |-> FALSE, char_valid |-> FALSE, events |-> NoErrors]
    BY <1>2, <1>3, <2>1, <2>2, <2>3, <2>4, <2>5, SameReceiver DEF Rcv!RxWith
  <2> QED BY <1>5, <2>3, <2>4, <2>6 DEF Reading, z
<1>7. ASSUME rx_sync # 0
      PROVE  rx'.state = "IDLE" /\ ~rx'.start_armed /\ ~rx'.char_valid /\ rx'.events = NoErrors
  <2>1. next = "IDLE" /\ rx.start_armed = FALSE
    BY <1>7 DEF next, Reading
  <2> QED BY <1>2, <2>1, SameReceiver DEF Rcv!RxWith
<1> QED BY <1>6, <1>7

LEMMA ReadingNext ==
  ASSUME NEW c \in Config, NEW k, NEW s, NEW n, rx = Reading(s, c, k, n), NEW zero \in BOOLEAN,
         rx' = Rcv!RxWith(StateAt(c, k + 1), 0, BitAt(c, k + 1), StopAt(c, k + 1), DataOf(s, c, k + 1),
                          zero, StopLow(s, c, k + 1), ErrorsAt(s, c, k + 1)),
         zero <=> DataOf(s, c, k + 1) = Zero
  PROVE  rx' = Reading(s, c, k + 1, 0)
<1> DEFINE z == DataOf(s, c, k + 1) = Zero
<1>1. zero = z
  OBVIOUS
<1>2. rx.data_bits = DataBits(c) /\ rx.stop_bits = StopsOf(c) /\ rx.parity_mode = c.parity_mode
      /\ rx.start_armed = FALSE
  BY DEF Reading
<1>3. Reading(s, c, k + 1, 0) =
        [state |-> StateAt(c, k + 1), sample_count |-> 0, data_bit_index |-> BitAt(c, k + 1),
         stop_bit_index |-> StopAt(c, k + 1),
         data_bits |-> rx.data_bits, stop_bits |-> rx.stop_bits, parity_mode |-> rx.parity_mode,
         data |-> DataOf(s, c, k + 1), all_data_zero |-> z, stop_low_seen |-> StopLow(s, c, k + 1),
         errors |-> ErrorsAt(s, c, k + 1),
         start_armed |-> rx.start_armed, char_valid |-> FALSE, events |-> NoErrors]
  BY <1>2 DEF Reading
<1> HIDE DEF z
<1> QED BY <1>1, <1>3, SameReceiver DEF Rcv!RxWith

LEMMA DataSample ==
  ASSUME NEW c \in Config, NEW k \in 1 .. DataBits(c), NEW s, rx = Reading(s, c, k, BIT_LAST), RxTypeOK,
         NEW d, RxEdge(d, TRUE), rx_sync = s[k + 1]
  PROVE  rx' = Reading(s, c, k + 1, 0)
<1>0. /\ k \in 0 .. FrameBits(c) - 1 /\ k + 1 \in 0 .. FrameBits(c) - 1
      /\ DataBits(c) \in 5 .. 8 /\ ParityBits(c) \in 0 .. 1 /\ LastOf(k) = BIT_LAST /\ k \in Nat
      /\ (parity_is_enabled(c.parity_mode) <=> ParityBits(c) = 1)
  BY FormatTypes DEF LastOf
<1>1. RxData(TRUE)
  BY <1>0, SampleAction
<1>2. /\ DataOf(s, c, k + 1) = [DataOf(s, c, k) EXCEPT ![k - 1] = s[k + 1]]
      /\ DataOf(s, c, k + 1) = Zero <=> DataOf(s, c, k) = Zero /\ s[k + 1] = 0
  BY <1>0, DataMore
<1> DEFINE next == IF rx.data_bit_index # rx.data_bits - 1 THEN "DATA"
                   ELSE IF Rcv!parity_is_enabled(rx.parity_mode) THEN "PARITY" ELSE "STOP"
           b == IF rx.data_bit_index = rx.data_bits - 1 THEN 0 ELSE rx.data_bit_index + 1
           data == [rx.data EXCEPT ![rx.data_bit_index] = rx_sync]
           zero == rx.all_data_zero /\ rx_sync = 0
<1>3. rx' = Rcv!RxWith(next, 0, b, rx.stop_bit_index, data, zero, rx.stop_low_seen, rx.errors)
  BY <1>1, SameReceiver, SameRxEdge, Rcv!RxDataForm, Assumptions
<1>4. StateAt(c, k) = "DATA"
  BY <1>0, StateFacts
<1>5. /\ rx.data_bit_index = k - 1 /\ rx.stop_bit_index = 0 /\ rx.data = DataOf(s, c, k)
      /\ rx.all_data_zero = (DataOf(s, c, k) = Zero)
      /\ rx.stop_low_seen = StopLow(s, c, k)
      /\ rx.errors = ErrorsAt(s, c, k)
      /\ rx.data_bits = DataBits(c) /\ rx.parity_mode = c.parity_mode
  BY <1>4 DEF Reading, BitAt, StopAt
<1>6. data = DataOf(s, c, k + 1)
  BY <1>2, <1>5
<1>7. zero \in BOOLEAN /\ (zero <=> DataOf(s, c, k + 1) = Zero)
  BY <1>2, <1>5
<1>8. /\ StopLow(s, c, k) = FALSE /\ StopLow(s, c, k + 1) = FALSE
      /\ BadParity(s, c, k) = FALSE /\ BadParity(s, c, k + 1) = FALSE
  BY <1>0, StopMore, ParityMore DEF StopLow, BadParity
<1>9. b = BitAt(c, k + 1)
  BY <1>0, <1>5, StateFacts DEF BitAt
<1>10. next = StateAt(c, k + 1)
  <2>1. Rcv!parity_is_enabled(rx.parity_mode) <=> ParityBits(c) = 1
    BY <1>0, <1>5, SameFormats
  <2>2. next = IF k # DataBits(c) THEN "DATA" ELSE IF ParityBits(c) = 1 THEN "PARITY" ELSE "STOP"
    BY <1>0, <1>5, <2>1
  <2> HIDE DEF next
  <2> QED BY <1>0, <2>2, StateFacts
<1>11. rx.stop_bit_index = StopAt(c, k + 1)
  BY <1>0, <1>5, StateFacts DEF StopAt
<1>12. rx.errors = ErrorsAt(s, c, k + 1) /\ rx.stop_low_seen = StopLow(s, c, k + 1)
  BY <1>5, <1>8 DEF ErrorsAt
<1> HIDE DEF next, b, data, zero
<1>13. rx' = Rcv!RxWith(StateAt(c, k + 1), 0, BitAt(c, k + 1), StopAt(c, k + 1), DataOf(s, c, k + 1),
                        zero, StopLow(s, c, k + 1), ErrorsAt(s, c, k + 1))
  BY <1>3, <1>6, <1>9, <1>10, <1>11, <1>12
<1> QED BY <1>7, <1>13, ReadingNext

LEMMA ParitySample ==
  ASSUME NEW c \in Config, NEW s, RxTypeOK, parity_is_enabled(c.parity_mode),
         NEW k, k = DataBits(c) + 1, rx = Reading(s, c, k, BIT_LAST),
         NEW d, RxEdge(d, TRUE), rx_sync = s[k + 1]
  PROVE  rx' = Reading(s, c, k + 1, 0)
<1>0. /\ k \in 0 .. FrameBits(c) - 1 /\ k + 1 \in 0 .. FrameBits(c) - 1
      /\ DataBits(c) \in 5 .. 8 /\ ParityBits(c) = 1 /\ LastOf(k) = BIT_LAST /\ k \in Nat
      /\ k \notin 1 .. DataBits(c)
  BY FormatTypes DEF LastOf
<1>1. RxParity(TRUE)
  BY <1>0, SampleAction
<1> DEFINE e == Rcv!calc_parity_error(rx.data, rx.parity_mode, Rcv!rx_sync)
           errors == [rx.errors EXCEPT !.parity_error = e]
<1>2. rx' = Rcv!RxWith("STOP", 0, rx.data_bit_index, rx.stop_bit_index, rx.data, rx.all_data_zero,
                       rx.stop_low_seen, errors)
  BY <1>1, SameReceiver, SameRxEdge, Rcv!RxParityForm, Assumptions
<1>3. StateAt(c, k) = "PARITY" /\ StateAt(c, k + 1) = "STOP"
  BY <1>0, StateFacts
<1>4. /\ rx.data_bit_index = 0 /\ rx.stop_bit_index = 0 /\ rx.data = DataOf(s, c, k)
      /\ rx.all_data_zero = (DataOf(s, c, k) = Zero)
      /\ rx.stop_low_seen = StopLow(s, c, k)
      /\ rx.errors = ErrorsAt(s, c, k)
      /\ rx.data_bits = DataBits(c) /\ rx.parity_mode = c.parity_mode
  BY <1>3 DEF Reading, BitAt, StopAt
<1>5. DataOf(s, c, k + 1) = DataOf(s, c, k)
  BY <1>0, DataSame
<1>6. e = BadParity(s, c, k + 1)
  <2>1. e = calc_parity_error(DataOf(s, c, k), c.parity_mode, s[k + 1])
    BY <1>4, SameFormats, SameReceiver
  <2> HIDE DEF e
  <2> QED BY <1>0, <2>1, ParityMore
<1>7. StopLow(s, c, k) = FALSE /\ StopLow(s, c, k + 1) = FALSE
  BY <1>0, StopMore DEF StopLow
<1> HIDE DEF e
<1>8. errors = ErrorsAt(s, c, k + 1)
  <2> DEFINE bad == BadParity(s, c, k)
             low == StopLow(s, c, k)
  <2>1. rx.errors = [frame_error |-> low, parity_error |-> bad, break_detect |-> FALSE]
    BY <1>4 DEF ErrorsAt
  <2> HIDE DEF bad, low
  <2>2. errors = [frame_error |-> low, parity_error |-> e, break_detect |-> FALSE]
    <3>1. rx.errors \in Rcv!Errors
      BY SameReceiver DEF RxTypeOK
    <3>2. errors = [frame_error |-> rx.errors.frame_error, parity_error |-> e,
                    break_detect |-> rx.errors.break_detect]
      BY <3>1, Rcv!ParityExcept, Assumptions
    <3> HIDE DEF errors
    <3> QED BY <2>1, <3>2
  <2> HIDE DEF errors
  <2> QED BY <1>6, <1>7, <2>2 DEF ErrorsAt, low
<1>9. rx.all_data_zero \in BOOLEAN /\ (rx.all_data_zero <=> DataOf(s, c, k + 1) = Zero)
  BY <1>4, <1>5
<1>10. BitAt(c, k + 1) = 0 /\ StopAt(c, k + 1) = 0
  BY <1>0, <1>3 DEF BitAt, StopAt
<1> HIDE DEF errors
<1>11. rx' = Rcv!RxWith(StateAt(c, k + 1), 0, BitAt(c, k + 1), StopAt(c, k + 1), DataOf(s, c, k + 1),
                        rx.all_data_zero, StopLow(s, c, k + 1), ErrorsAt(s, c, k + 1))
  BY <1>2, <1>3, <1>4, <1>5, <1>7, <1>8, <1>10
<1> QED BY <1>9, <1>11, ReadingNext

\* The last sample ends the character.
StopSampleFacts(s, c, k) ==
  IF k < FrameBits(c) - 1 THEN rx' = Reading(s, c, k + 1, 0)
  ELSE /\ rx'.state = "DONE" /\ ~rx'.start_armed /\ ~rx'.char_valid /\ rx'.events = NoErrors
       /\ Record' = RecordOf(s, c)

LEMMA StopSample ==
  ASSUME NEW c \in Config, NEW s, RxTypeOK,
         NEW k \in DataBits(c) + ParityBits(c) + 1 .. FrameBits(c) - 1, rx = Reading(s, c, k, BIT_LAST),
         NEW d, RxEdge(d, TRUE), rx_sync = s[k + 1]
  PROVE  StopSampleFacts(s, c, k)
<1>0. /\ k \in 0 .. FrameBits(c) - 1 /\ DataBits(c) \in 5 .. 8 /\ ParityBits(c) \in 0 .. 1
      /\ StopsOf(c) \in 1 .. 2 /\ FrameBits(c) = 1 + DataBits(c) + ParityBits(c) + StopsOf(c)
      /\ LastOf(k) = BIT_LAST /\ k \in Nat /\ k \notin 1 .. DataBits(c)
      /\ k >= DataBits(c) + ParityBits(c) + 1
  BY FormatTypes DEF LastOf
<1>1. RxStop(TRUE)
  BY <1>0, SampleAction
<1> DEFINE last   == rx.stop_bit_index = rx.stop_bits - 1
           frame  == rx.errors.frame_error \/ rx_sync = 0
           low    == rx.stop_low_seen \/ rx_sync = 0
           brk    == IF last THEN frame /\ rx.all_data_zero /\ low ELSE rx.errors.break_detect
           errors == [frame_error |-> frame, parity_error |-> rx.errors.parity_error, break_detect |-> brk]
           sb     == IF last THEN 0 ELSE rx.stop_bit_index + 1
           next   == IF last THEN "DONE" ELSE "STOP"
<1>2. rx' = Rcv!RxWith(next, 0, rx.data_bit_index, sb, rx.data, rx.all_data_zero, low, errors)
  BY <1>1, SameReceiver, SameRxEdge, Rcv!RxStopForm, Assumptions
<1>3. StateAt(c, k) = "STOP"
  BY <1>0, StateFacts
<1>4. /\ rx.data_bit_index = 0 /\ rx.stop_bit_index = k - (1 + DataBits(c) + ParityBits(c))
      /\ rx.data = DataOf(s, c, k) /\ rx.all_data_zero = (DataOf(s, c, k) = Zero)
      /\ rx.stop_low_seen = StopLow(s, c, k)
      /\ rx.errors = ErrorsAt(s, c, k)
      /\ rx.stop_bits = StopsOf(c) /\ rx.start_armed = FALSE
  BY <1>3 DEF Reading, BitAt, StopAt
<1>5. DataOf(s, c, k + 1) = DataOf(s, c, k) /\ BadParity(s, c, k + 1) = BadParity(s, c, k)
  BY <1>0, DataSame, ParityMore
<1>6. last <=> k = FrameBits(c) - 1
  BY <1>0, <1>4
<1>7. low = StopLow(s, c, k + 1) /\ frame = StopLow(s, c, k + 1)
  <2>1. StopLow(s, c, k + 1) <=> StopLow(s, c, k) \/ s[k + 1] = 0
    BY <1>0, StopMore
  <2>2. low <=> StopLow(s, c, k + 1)
    BY <1>4, <2>1
  <2>3. frame <=> StopLow(s, c, k + 1)
    BY <1>4, <2>1 DEF ErrorsAt
  <2>4. low \in BOOLEAN /\ frame \in BOOLEAN /\ StopLow(s, c, k + 1) \in BOOLEAN
    BY <1>4 DEF StopLow, ErrorsAt
  <2> HIDE DEF low, frame
  <2> QED BY <2>2, <2>3, <2>4
<1> HIDE DEF low, frame
<1>8. CASE k < FrameBits(c) - 1
  <2>1. ~last
    BY <1>0, <1>6, <1>8
  <2>2. next = "STOP" /\ sb = (k + 1) - (1 + DataBits(c) + ParityBits(c)) /\ brk = FALSE
    BY <1>0, <1>4, <2>1 DEF ErrorsAt
  <2>3. StateAt(c, k + 1) = "STOP" /\ BitAt(c, k + 1) = 0 /\ StopAt(c, k + 1) = sb
    BY <1>0, <1>8, <2>2, StateFacts DEF BitAt, StopAt
  <2> HIDE DEF next, brk, sb, last
  <2>4. rx.errors.parity_error = BadParity(s, c, k + 1)
    BY <1>4, <1>5 DEF ErrorsAt
  <2>5. errors = ErrorsAt(s, c, k + 1)
    BY <1>7, <2>2, <2>4 DEF ErrorsAt
  <2>6. rx.all_data_zero \in BOOLEAN /\ (rx.all_data_zero <=> DataOf(s, c, k + 1) = Zero)
    BY <1>4, <1>5
  <2> HIDE DEF errors
  <2>7. rx' = Rcv!RxWith(StateAt(c, k + 1), 0, BitAt(c, k + 1), StopAt(c, k + 1), DataOf(s, c, k + 1),
                         rx.all_data_zero, StopLow(s, c, k + 1), ErrorsAt(s, c, k + 1))
    BY <1>2, <1>4, <1>5, <1>7, <2>2, <2>3, <2>5
  <2>8. rx' = Reading(s, c, k + 1, 0)
    BY <2>6, <2>7, ReadingNext
  <2> QED BY <1>8, <2>8 DEF StopSampleFacts
<1>9. CASE ~(k < FrameBits(c) - 1)
  <2>1. last /\ k + 1 = FrameBits(c)
    BY <1>0, <1>6, <1>9
  <2> DEFINE brk2 == StopLow(s, c, FrameBits(c)) /\ DataOf(s, c, FrameBits(c)) = Zero
  <2>2. next = "DONE" /\ brk = brk2
    <3>1. brk <=> brk2
      BY <1>4, <1>5, <1>7, <2>1
    <3>2. brk \in BOOLEAN /\ brk2 \in BOOLEAN
      BY <1>4, <1>7, <2>1 DEF StopLow
    <3>3. next = "DONE"
      BY <2>1
    <3> HIDE DEF brk, brk2
    <3> QED BY <3>1, <3>2, <3>3
  <2> HIDE DEF next, brk, brk2, last
  <2>3. errors = [frame_error |-> StopLow(s, c, FrameBits(c)), parity_error |-> BadParity(s, c, FrameBits(c)),
                  break_detect |-> brk2]
    BY <1>4, <1>5, <1>7, <2>1, <2>2 DEF ErrorsAt
  <2> HIDE DEF errors, sb
  <2>4. /\ rx'.state = "DONE" /\ ~rx'.start_armed /\ ~rx'.char_valid /\ rx'.events = NoErrors
        /\ rx'.data = DataOf(s, c, FrameBits(c)) /\ rx'.errors = errors
    BY <1>2, <1>4, <1>5, <2>1, <2>2, SameReceiver DEF Rcv!RxWith
  <2>5. Record' = RecordOf(s, c)
    BY <2>3, <2>4 DEF Record, RecordOf, brk2
  <2> QED BY <1>9, <2>4, <2>5 DEF StopSampleFacts
<1> QED BY <1>8, <1>9

-----------------------------------------------------------------------------
(* Time: clocks of the line against ticks of the receiver.                  *)

\* Products of numbers keep their order.
LEMMA Times ==
  ASSUME NEW a \in Int, NEW b \in Int, NEW m \in Nat
  PROVE  /\ a <= b => a * m <= b * m
         /\ a * m < b * m => a < b
         /\ a * m \in Int /\ (a + 1) * m = a * m + m
<1>1. ASSUME a <= b PROVE a * m <= b * m
  <2>1. PICK d \in Nat : b = a + d
    <3>1. b - a \in Nat /\ b = a + (b - a)
      BY <1>1
    <3> QED BY <3>1
  <2>2. (a + d) * m = a * m + d * m /\ d * m \in Nat /\ a * m \in Int
    OBVIOUS
  <2> QED BY <2>1, <2>2
<1>2. ASSUME b <= a PROVE b * m <= a * m
  <2>1. PICK d \in Nat : a = b + d
    <3>1. a - b \in Nat /\ a = b + (a - b)
      BY <1>2
    <3> QED BY <3>1
  <2>2. (b + d) * m = b * m + d * m /\ d * m \in Nat /\ b * m \in Int
    OBVIOUS
  <2> QED BY <2>1, <2>2
<1>3. a * m \in Int /\ b * m \in Int /\ (a + 1) * m = a * m + m
  OBVIOUS
<1>4. ASSUME a * m < b * m PROVE a < b
  <2>1. CASE b <= a
    BY <1>2, <1>3, <1>4, <2>1
  <2> QED BY <2>1
<1> QED BY <1>1, <1>3, <1>4

Ticking == IF baud.oversample_tick THEN 1 ELSE 0

\* What the generator shows; the accumulator has just overflowed at a tick.
BaudInv == Baud!BaudTypeOK /\ (baud.oversample_tick => baud.acc < Inc)

LEMMA BaudMoves ==
  ASSUME BaudInv, NEW e, e = TRUE, Baud!BaudEdge(e, Inc)
  PROVE  BaudInv' /\ baud'.acc + Ticking' * AccSize = baud.acc + Inc
<1>1. /\ AccSize \in Nat \ {0} /\ OVERSAMPLE \in Nat \ {0} /\ Inc \in 1 .. AccSize - 1
      /\ baud.acc \in 0 .. AccSize - 1 /\ baud.count \in 0 .. OVERSAMPLE - 1
  BY LineInputs DEF BaudInv, Baud!BaudTypeOK
<1> DEFINE carry == baud.acc + Inc >= AccSize
           count == CASE ~carry                               -> baud.count
                      [] carry /\ baud.count = OVERSAMPLE - 1 -> 0
                      [] carry /\ baud.count # OVERSAMPLE - 1 -> baud.count + 1
           last  == carry /\ baud.count = OVERSAMPLE - 1
           acc   == (baud.acc + Inc) % AccSize
<1>2. baud' = [acc |-> acc, count |-> count, oversample_tick |-> carry, baud_tick |-> last]
  BY DEF Baud!BaudEdge, Baud!Carry, Baud!OS_LAST
<1>3. acc = IF carry THEN baud.acc + Inc - AccSize ELSE baud.acc + Inc
  <2>1. AccSize \in Nat \ {0} /\ baud.acc \in 0 .. AccSize - 1 /\ Inc \in 0 .. AccSize - 1
    BY <1>1
  <2> QED BY <2>1, Rcv!WrapOnce, Assumptions
<1>4. count \in 0 .. OVERSAMPLE - 1
  BY <1>1
<1>5. carry \in BOOLEAN /\ last \in BOOLEAN
  OBVIOUS
<1>6. acc \in 0 .. AccSize - 1 /\ (carry => acc < Inc)
  BY <1>1, <1>3
<1>7. acc + (IF carry THEN 1 ELSE 0) * AccSize = baud.acc + Inc
  BY <1>1, <1>3
<1> HIDE DEF carry, count, last, acc
<1>8. BaudInv'
  BY <1>2, <1>4, <1>5, <1>6 DEF BaudInv, Baud!BaudTypeOK
<1> QED BY <1>2, <1>7, <1>8 DEF Ticking

\* The ticks counted with k samples taken and n ticks since, and the samples' own.
TicksTo(k, n) == IF k = 0 THEN n ELSE HALF_LAST + 1 + (k - 1) * OVERSAMPLE + n
Nth(k)        == HALF_LAST + 1 + k * OVERSAMPLE

\* p clocks into a frame, three after the detection of its start, x has been accumulated.
Within(p, x) == (p - 3) * Inc <= x /\ x < (p - 3) * Inc + AccSize

LEMMA Positive ==
  /\ AccSize \in Nat \ {0} /\ Inc \in Nat \ {0} /\ Inc < AccSize /\ BitClks \in Nat \ {0}
  /\ OVERSAMPLE \in Nat \ {0} /\ HALF_LAST \in Nat /\ BIT_LAST = OVERSAMPLE - 1 /\ BIT_LAST \in Nat
  /\ HALF_LAST <= BIT_LAST
<1>1. AccSize \in Nat \ {0} /\ Inc \in Nat \ {0} /\ Inc < AccSize /\ BitClks \in Nat \ {0}
      /\ OVERSAMPLE \in Nat \ {0}
  BY LineInputs
<1> QED BY <1>1 DEF HALF_LAST, BIT_LAST

LEMMA TicksToNth ==
  ASSUME NEW k \in Nat
  PROVE  /\ Nth(k) \in Nat \ {0} /\ TicksTo(k, LastOf(k)) + 1 = Nth(k)
         /\ TicksTo(k + 1, 0) = Nth(k)
         /\ \A n \in 0 .. LastOf(k) : TicksTo(k, n) \in Nat /\ TicksTo(k, n + 1) = TicksTo(k, n) + 1
                                       /\ (n < LastOf(k) => TicksTo(k, n) + 1 < Nth(k))
<1>1. OVERSAMPLE \in Nat /\ HALF_LAST \in Nat /\ BIT_LAST = OVERSAMPLE - 1 /\ BIT_LAST \in Nat
  BY Positive
<1>2. k * OVERSAMPLE \in Nat /\ k + 1 - 1 = k /\ k + 1 # 0
  BY <1>1
<1>3. CASE k = 0
  BY <1>1, <1>2, <1>3 DEF Nth, TicksTo, LastOf
<1>4. CASE k # 0
  <2>1. k - 1 \in Nat /\ (k - 1) + 1 = k
    BY <1>4
  <2>2. ((k - 1) + 1) * OVERSAMPLE = (k - 1) * OVERSAMPLE + OVERSAMPLE /\ (k - 1) * OVERSAMPLE \in Nat
    BY <1>1, <2>1, Times
  <2> DEFINE x == (k - 1) * OVERSAMPLE
             y == k * OVERSAMPLE
  <2>3. y = x + OVERSAMPLE /\ x \in Nat
    BY <2>1, <2>2
  <2>4. /\ Nth(k) = HALF_LAST + 1 + y /\ TicksTo(k + 1, 0) = HALF_LAST + 1 + y + 0 /\ LastOf(k) = OVERSAMPLE - 1
        /\ \A n : TicksTo(k, n) = HALF_LAST + 1 + x + n
    BY <1>1, <1>2, <1>4 DEF Nth, TicksTo, LastOf
  <2> HIDE DEF x, y
  <2> QED BY <1>1, <2>3, <2>4
<1> QED BY <1>3, <1>4

LEMMA WithinMoves ==
  ASSUME NEW p \in Nat, NEW x \in Int, Within(p, x)
  PROVE  Within(p + 1, x + Inc)
<1>1. (p + 1 - 3) * Inc = (p - 3) * Inc + Inc /\ (p - 3) * Inc \in Int
  <2>1. p + 1 - 3 = (p - 3) + 1 /\ p - 3 \in Int /\ Inc \in Nat
    BY Positive
  <2> QED BY <2>1, Times
<1> QED BY <1>1, Positive DEF Within

\* What is accumulated in a clock is what the tick and the rest are.
LEMMA AccumulateMoves ==
  ASSUME NEW n \in Nat, NEW a \in Nat, NEW b \in Nat, NEW i \in 0 .. 1, b + i * AccSize = a + Inc
  PROVE  (n + i) * AccSize + b = n * AccSize + a + Inc
<1>1. AccSize \in Nat /\ Inc \in Nat
  BY Positive
<1>2. n * AccSize \in Nat /\ (n + i) * AccSize = n * AccSize + i * AccSize
  BY <1>1
<1>3. i * AccSize \in Nat
  BY <1>1
<1> QED BY <1>1, <1>2, <1>3

\* A sample is not too late...
LEMMA NotLate ==
  ASSUME NEW s \in Nat \ {0}, NEW e \in Nat, s * AccSize + 3 * Inc <= e * Inc,
         NEW n \in 0 .. s, NEW a \in 0 .. AccSize - 1, n = s => a < Inc,
         NEW p \in Nat, Within(p, n * AccSize + a)
  PROVE  p <= e /\ (p = e => n = s)
<1>1. AccSize \in Nat /\ Inc \in Nat \ {0} /\ p \in Int /\ e \in Int /\ p - 3 \in Int /\ p - 1 \in Int
  BY Positive
<1>2. s * AccSize \in Nat /\ n * AccSize \in Nat /\ e * Inc \in Nat
  BY <1>1
<1>3. (p - 3) * Inc + 3 * Inc = p * Inc /\ (p - 3) * Inc + 2 * Inc = (p - 1) * Inc
      /\ (p - 3) * Inc \in Int /\ p * Inc \in Int /\ (p - 1) * Inc \in Int
  BY <1>1
<1>4. (p - 3) * Inc <= n * AccSize + a
  BY DEF Within
<1>5. CASE n = s
  <2>1. (p - 3) * Inc < s * AccSize + Inc
    BY <1>1, <1>2, <1>3, <1>4, <1>5
  <2>2. (p - 1) * Inc < e * Inc
    BY <1>1, <1>2, <1>3, <2>1
  <2>3. p - 1 < e
    BY <1>1, <2>2, Times
  <2> QED BY <1>5, <2>3
<1>6. CASE n # s
  <2>1. n + 1 <= s /\ n + 1 \in Int
    BY <1>6
  <2>2. (n + 1) * AccSize <= s * AccSize /\ (n + 1) * AccSize = n * AccSize + AccSize
    BY <1>1, <2>1, Times
  <2>3. (p - 3) * Inc < s * AccSize
    BY <1>1, <1>2, <1>3, <1>4, <2>2
  <2>4. p * Inc < e * Inc
    BY <1>1, <1>2, <1>3, <2>3
  <2>5. p < e
    BY <1>1, <2>4, Times
  <2> QED BY <2>5
<1> QED BY <1>5, <1>6

\* ...nor too early.
LEMMA NotEarly ==
  ASSUME NEW s \in Nat \ {0}, NEW b \in Nat, b * Inc <= (s - 1) * AccSize + Inc,
         NEW a \in 0 .. AccSize - 1, NEW p \in Nat, Within(p, s * AccSize + a)
  PROVE  b <= p - 3
<1>1. AccSize \in Nat /\ Inc \in Nat \ {0} /\ p - 3 \in Int /\ p - 2 \in Int /\ s - 1 \in Int /\ b \in Int
  BY Positive
<1>2. (s - 1) * AccSize + AccSize = s * AccSize /\ s * AccSize \in Int /\ (s - 1) * AccSize \in Int
  BY <1>1
<1>3. (p - 3) * Inc + Inc = (p - 2) * Inc /\ (p - 3) * Inc \in Int /\ (p - 2) * Inc \in Int /\ b * Inc \in Int
  BY <1>1
<1>4. s * AccSize + a < (p - 3) * Inc + AccSize
  BY DEF Within
<1>5. (s - 1) * AccSize < (p - 3) * Inc
  BY <1>1, <1>2, <1>3, <1>4
<1>6. b * Inc < (p - 2) * Inc
  BY <1>1, <1>2, <1>3, <1>5
<1>7. b < p - 2
  BY <1>1, <1>6, Times
<1> QED BY <1>7

-----------------------------------------------------------------------------
(* What the peer drives.                                                    *)

Whole(f, c) ==
  /\ f.width = BitClks /\ f.levels \in Seq(Bit) /\ Len(f.levels) >= FrameBits(c) /\ f.levels[1] = 0
  /\ \A i, j \in FrameBits(c) .. Len(f.levels) : i < j => f.levels[i] <= f.levels[j]
  /\ f.record = RecordOf(f.levels, c) /\ f.record # NoRecord

Brief(f) ==
  /\ f.width \in Glitches /\ f.levels \in Seq(Bit) /\ Len(f.levels) = 1 + BitClks
  /\ f.levels[1] = 0 /\ \A i \in 2 .. Len(f.levels) : f.levels[i] = 1
  /\ f.record = NoRecord

LEMMA Join ==
  ASSUME NEW a \in Seq(Bit), NEW b \in Seq(Bit)
  PROVE  /\ a \o b \in Seq(Bit) /\ Len(a \o b) = Len(a) + Len(b)
         /\ \A i \in 1 .. Len(a) : (a \o b)[i] = a[i]
         /\ \A i \in 1 .. Len(b) : (a \o b)[Len(a) + i] = b[i]
OBVIOUS

LEMMA ParityIs ==
  ASSUME NEW d \in Byte, NEW c \in Config, parity_is_enabled(c.parity_mode)
  PROVE  /\ GoodParity(d, DataBits(c), c.parity_mode) \in Bit
         /\ \A p \in BOOLEAN :
              calc_parity_error(Masked(d, DataBits(c)), c.parity_mode,
                                IF p THEN 1 - GoodParity(d, DataBits(c), c.parity_mode)
                                ELSE GoodParity(d, DataBits(c), c.parity_mode)) = p
<1> DEFINE n == DataBits(c)
           mode == c.parity_mode
           g == GoodParity(d, n, mode)
           m == Masked(d, n)
           o == OddOnes(d, n)
<1>1. n \in 5 .. 8 /\ mode \in Codes /\ n \in 0 .. 8
  BY FormatTypes
<1>2. g = calc_parity_bit(d, n, mode)
  <2>1. Rcv!GoodParity(d, n, mode) = Rcv!calc_parity_bit(d, n, mode)
    <3>1. d \in Rcv!Byte /\ n \in 5 .. 8 /\ mode \in Rcv!Codes /\ Rcv!parity_is_enabled(mode)
      BY <1>1, SameFormats
    <3> HIDE DEF n, mode
    <3> QED BY <3>1, Rcv!ParityIsGood, Assumptions
  <2> QED BY <2>1, SameFormats
<1>3. o \in Bit
  <2>1. d \in Rcv!Byte
    BY SameFormats
  <2>2. Rcv!OddOnes(d, n) \in Rcv!Bit
    <3> HIDE DEF n
    <3> QED BY <1>1, <2>1, Rcv!OddOnesIsBit, Assumptions
  <2> QED BY <2>2, SameFormats
<1>4. OddOnes(m, 8) = o
  <2>1. {i \in 0 .. 8 - 1 : m[i] = 1} = {i \in 0 .. n - 1 : d[i] = 1}
    BY <1>1 DEF Masked
  <2> QED BY <2>1 DEF OddOnes
<1>5. mode = PARITY_EVEN \/ (mode = PARITY_ODD /\ mode # PARITY_EVEN)
  BY DEF parity_is_enabled, PARITY_EVEN, PARITY_ODD
<1> HIDE DEF n, mode, g, m, o
<1>6. g = (IF mode = PARITY_EVEN THEN o ELSE 1 - o) /\ g \in Bit
  <2>1. CASE mode = PARITY_EVEN
    BY <1>2, <1>3, <2>1 DEF calc_parity_bit, o, PARITY_EVEN, PARITY_ODD
  <2>2. CASE mode = PARITY_ODD /\ mode # PARITY_EVEN
    BY <1>2, <1>3, <2>2 DEF calc_parity_bit, o, Bit, PARITY_EVEN, PARITY_ODD
  <2> QED BY <1>5, <2>1, <2>2
<1>7. ASSUME NEW p \in BOOLEAN
      PROVE  calc_parity_error(m, mode, IF p THEN 1 - g ELSE g) = p
  <2> DEFINE b == IF p THEN 1 - g ELSE g
             e == calc_parity_error(m, mode, b)
  <2>1. e = IF mode = PARITY_EVEN THEN o # b ELSE o = b
    <3> HIDE DEF b
    <3>1. CASE mode = PARITY_EVEN
      BY <1>4, <3>1 DEF calc_parity_error, PARITY_EVEN, PARITY_ODD
    <3>2. CASE mode = PARITY_ODD /\ mode # PARITY_EVEN
      BY <1>4, <3>2 DEF calc_parity_error, PARITY_EVEN, PARITY_ODD
    <3> QED BY <1>5, <3>1, <3>2
  <2>2. e <=> p
    <3> HIDE DEF e
    <3>1. CASE mode = PARITY_EVEN
      BY <1>3, <1>6, <2>1, <3>1 DEF Bit
    <3>2. CASE mode # PARITY_EVEN
      BY <1>3, <1>6, <2>1, <3>2 DEF Bit
    <3> QED BY <3>1, <3>2
  <2>3. e \in BOOLEAN
    BY DEF calc_parity_error, PARITY_EVEN, PARITY_ODD
  <2> HIDE DEF e
  <2>4. e = p
    BY <2>2, <2>3
  <2> QED BY <2>4 DEF e
<1> QED BY <1>6, <1>7 DEF n, mode, g, m

\* A frame, level by level.
LEMMA FrameLevels ==
  ASSUME NEW d \in Byte, NEW c \in Config, NEW p \in BOOLEAN, NEW stops \in [1 .. StopsOf(c) -> Bit]
  PROVE  LET s == FrameWith(d, c, p, stops)
             n == DataBits(c)
             g == GoodParity(d, n, c.parity_mode)
         IN /\ s \in Seq(Bit) /\ Len(s) = FrameBits(c) /\ s[1] = 0
            /\ \A i \in 0 .. n - 1 : s[i + 2] = d[i]
            /\ parity_is_enabled(c.parity_mode) => s[n + 2] = IF p THEN 1 - g ELSE g
            /\ \A j \in 1 .. StopsOf(c) : s[n + ParityBits(c) + 1 + j] = stops[j]
<1> DEFINE n == DataBits(c)
           g == GoodParity(d, n, c.parity_mode)
           x == IF p THEN 1 - g ELSE g
           data == [i \in 1 .. n |-> d[i - 1]]
           par == IF parity_is_enabled(c.parity_mode) THEN << x >> ELSE << >>
           s == ((<< 0 >> \o data) \o par) \o stops
<1>1. /\ n \in 5 .. 8 /\ ParityBits(c) \in 0 .. 1 /\ StopsOf(c) \in 1 .. 2
      /\ (parity_is_enabled(c.parity_mode) <=> ParityBits(c) = 1)
      /\ FrameBits(c) = 1 + n + ParityBits(c) + StopsOf(c)
  BY FormatTypes
<1>2. FrameWith(d, c, p, stops) = s
  BY DEF FrameWith, DataBits, parity_is_enabled
<1>3. parity_is_enabled(c.parity_mode) => x \in Bit
  <2>1. parity_is_enabled(c.parity_mode) => g \in Bit
    BY ParityIs
  <2> HIDE DEF g
  <2> QED BY <2>1 DEF Bit
<1> HIDE DEF x, g
<1>4. << 0 >> \in Seq(Bit) /\ Len(<< 0 >>) = 1 /\ << 0 >>[1] = 0
  BY DEF Bit
<1>5. data \in Seq(Bit) /\ Len(data) = n /\ \A i \in 1 .. n : data[i] = d[i - 1]
  <2>1. \A i \in 1 .. n : d[i - 1] \in Bit
    BY <1>1 DEF Byte
  <2> QED BY <1>1, <2>1
<1>6. par \in Seq(Bit) /\ Len(par) = ParityBits(c) /\ (parity_is_enabled(c.parity_mode) => par[1] = x)
  BY <1>1, <1>3
<1>7. stops \in Seq(Bit) /\ Len(stops) = StopsOf(c)
  BY <1>1
<1> DEFINE a == << 0 >> \o data
           b == a \o par
<1> HIDE DEF data, par, n
<1>8. a \in Seq(Bit) /\ Len(a) = 1 + n /\ a[1] = 0 /\ \A i \in 1 .. n : a[1 + i] = d[i - 1]
  <2>1. a \in Seq(Bit) /\ Len(a) = Len(<< 0 >>) + Len(data) /\ (\A i \in 1 .. Len(<< 0 >>) : a[i] = << 0 >>[i])
        /\ \A i \in 1 .. Len(data) : a[Len(<< 0 >>) + i] = data[i]
    BY <1>4, <1>5, Join
  <2> HIDE DEF a
  <2> QED BY <1>1, <1>4, <1>5, <2>1
<1> HIDE DEF a
<1>9. b \in Seq(Bit) /\ Len(b) = 1 + n + ParityBits(c) /\ \A i \in 1 .. 1 + n : b[i] = a[i]
      /\ (parity_is_enabled(c.parity_mode) => b[n + 2] = x)
  <2>1. b \in Seq(Bit) /\ Len(b) = Len(a) + Len(par) /\ (\A i \in 1 .. Len(a) : b[i] = a[i])
        /\ \A i \in 1 .. Len(par) : b[Len(a) + i] = par[i]
    BY <1>6, <1>8, Join
  <2> HIDE DEF b
  <2>2. parity_is_enabled(c.parity_mode) => b[(1 + n) + 1] = par[1]
    BY <1>1, <1>6, <1>8, <2>1
  <2>3. (1 + n) + 1 = n + 2
    BY <1>1
  <2> QED BY <1>1, <1>6, <1>8, <2>1, <2>2, <2>3
<1> HIDE DEF b
<1>10. s \in Seq(Bit) /\ Len(s) = 1 + n + ParityBits(c) + StopsOf(c)
       /\ \A i \in 1 .. 1 + n + ParityBits(c) : s[i] = b[i]
       /\ \A j \in 1 .. StopsOf(c) : s[n + ParityBits(c) + 1 + j] = stops[j]
  <2>1. s = b \o stops
    BY DEF a, b
  <2>2. b \o stops \in Seq(Bit) /\ Len(b \o stops) = Len(b) + Len(stops)
        /\ \A i \in 1 .. Len(b) : (b \o stops)[i] = b[i]
        /\ \A j \in 1 .. Len(stops) : (b \o stops)[Len(b) + j] = stops[j]
    BY <1>7, <1>9, Join
  <2>3. 1 + n + ParityBits(c) = n + ParityBits(c) + 1
    BY <1>1
  <2> HIDE DEF s
  <2> QED BY <1>1, <1>7, <1>9, <2>1, <2>2, <2>3
<1> HIDE DEF s
<1>11. s[1] = 0
  BY <1>1, <1>8, <1>9, <1>10
<1>12. ASSUME NEW i \in 0 .. n - 1 PROVE s[i + 2] = d[i]
  <2>1. i + 1 \in 1 .. n /\ 1 + (i + 1) = i + 2 /\ (i + 1) - 1 = i /\ i + 2 \in 1 .. 1 + n
    BY <1>1
  <2>2. a[i + 2] = d[i]
    BY <1>8, <2>1
  <2>3. b[i + 2] = a[i + 2]
    BY <1>9, <2>1
  <2>4. s[i + 2] = b[i + 2]
    BY <1>1, <1>10, <2>1
  <2> QED BY <2>2, <2>3, <2>4
<1>13. parity_is_enabled(c.parity_mode) => s[n + 2] = x
  BY <1>1, <1>9, <1>10
<1> QED BY <1>1, <1>2, <1>10, <1>11, <1>12, <1>13 DEF n, x, g

LEMMA DataBitsOf ==
  ASSUME NEW c \in Config, NEW s \in Seq(Bit), Len(s) >= FrameBits(c)
  PROVE  /\ DataOf(s, c, FrameBits(c)) = [i \in 0 .. 7 |-> IF i < DataBits(c) THEN s[i + 2] ELSE 0]
         /\ DataOf(s, c, FrameBits(c)) \in Byte
<1>1. DataBits(c) \in 5 .. 8 /\ FrameBits(c) >= DataBits(c) + 2 /\ FrameBits(c) \in Nat
  BY FormatTypes
<1>2. \A i \in 0 .. 7 : i < DataBits(c) => i + 2 <= FrameBits(c)
  BY <1>1
<1>3. DataOf(s, c, FrameBits(c)) = [i \in 0 .. 7 |-> IF i < DataBits(c) THEN s[i + 2] ELSE 0]
  BY <1>2 DEF DataOf
<1>4. \A i \in 0 .. 7 : i < DataBits(c) => s[i + 2] \in Bit
  BY <1>1, <1>2
<1> QED BY <1>3, <1>4 DEF Byte, Bit

LEMMA RecordTypes ==
  ASSUME NEW c \in Config, NEW s \in Seq(Bit), Len(s) >= FrameBits(c)
  PROVE  RecordOf(s, c) \in [data : Byte, errors : Errors] /\ RecordOf(s, c) # NoRecord
<1>1. /\ StopLow(s, c, FrameBits(c)) \in BOOLEAN /\ BadParity(s, c, FrameBits(c)) \in BOOLEAN
      /\ (StopLow(s, c, FrameBits(c)) /\ DataOf(s, c, FrameBits(c)) = Zero) \in BOOLEAN
  BY DEF StopLow, BadParity
<1>2. RecordOf(s, c) \in [data : Byte, errors : Errors]
  BY <1>1, DataBitsOf DEF RecordOf, Errors
<1> QED BY <1>2, LineInputs

LEMMA FrameIsWhole ==
  ASSUME cfg \in Config, NEW f \in Frames, Bytes \subseteq Byte
  PROVE  Whole(f, cfg)
<1>1. PICK d \in Bytes, p \in Parities, stops \in StopLevels :
        f = [levels |-> FrameWith(d, cfg, p, stops), width |-> BitClks, record |-> Good(d, p, stops)]
  BY DEF Frames
<1> DEFINE n == DataBits(cfg)
           s == FrameWith(d, cfg, p, stops)
           g == GoodParity(d, n, cfg.parity_mode)
           e == parity_is_enabled(cfg.parity_mode)
<1>2. d \in Byte /\ p \in BOOLEAN /\ stops \in [1 .. StopsOf(cfg) -> Bit] /\ (~e => p = FALSE)
  BY <1>1 DEF Parities, StopLevels, parity_is_enabled
<1>3. /\ n \in 5 .. 8 /\ ParityBits(cfg) \in 0 .. 1 /\ StopsOf(cfg) \in 1 .. 2
      /\ (e <=> ParityBits(cfg) = 1) /\ FrameBits(cfg) = 1 + n + ParityBits(cfg) + StopsOf(cfg)
  BY FormatTypes
<1>4. /\ s \in Seq(Bit) /\ Len(s) = FrameBits(cfg) /\ s[1] = 0
      /\ \A i \in 0 .. n - 1 : s[i + 2] = d[i]
      /\ e => s[n + 2] = IF p THEN 1 - g ELSE g
      /\ \A j \in 1 .. StopsOf(cfg) : s[n + ParityBits(cfg) + 1 + j] = stops[j]
  BY <1>2, FrameLevels
<1>5. e => calc_parity_error(Masked(d, n), cfg.parity_mode, IF p THEN 1 - g ELSE g) = p
  BY <1>2, ParityIs
<1> HIDE DEF s, g
<1> DEFINE data == DataOf(s, cfg, FrameBits(cfg))
<1>6. data = Masked(d, n)
  <2>1. Len(s) >= FrameBits(cfg)
    BY <1>3, <1>4
  <2>2. data = [i \in 0 .. 7 |-> IF i < n THEN s[i + 2] ELSE 0]
    BY <1>4, <2>1, DataBitsOf
  <2> HIDE DEF data, n
  <2>3. \A i \in 0 .. 7 : (IF i < n THEN s[i + 2] ELSE 0) = IF i < n THEN d[i] ELSE 0
    BY <1>3, <1>4
  <2> QED BY <2>2, <2>3 DEF Masked
<1>7. StopLow(s, cfg, FrameBits(cfg)) = Low(stops)
  <2> DEFINE low == StopLow(s, cfg, FrameBits(cfg))
  <2>1. ASSUME low PROVE Low(stops)
    <3>1. PICK i \in n + ParityBits(cfg) + 2 .. FrameBits(cfg) : s[i] = 0
      BY <2>1 DEF StopLow
    <3> DEFINE j == i - (n + ParityBits(cfg) + 1)
    <3>2. j \in 1 .. StopsOf(cfg) /\ n + ParityBits(cfg) + 1 + j = i
      BY <1>3
    <3> HIDE DEF j
    <3>3. stops[j] = 0
      BY <1>4, <3>1, <3>2
    <3> QED BY <1>2, <3>2, <3>3 DEF Low
  <2>2. ASSUME Low(stops) PROVE low
    <3>1. PICK j \in 1 .. StopsOf(cfg) : stops[j] = 0
      BY <1>2, <2>2 DEF Low
    <3>2. s[n + ParityBits(cfg) + 1 + j] = 0
      BY <1>4, <3>1
    <3>3. n + ParityBits(cfg) + 1 + j \in n + ParityBits(cfg) + 2 .. FrameBits(cfg)
      BY <1>3
    <3> QED BY <3>2, <3>3 DEF StopLow
  <2>3. low \in BOOLEAN /\ Low(stops) \in BOOLEAN
    BY DEF StopLow, Low
  <2> HIDE DEF low
  <2>4. low = Low(stops)
    BY <2>1, <2>2, <2>3
  <2> QED BY <2>4 DEF low
<1>8. BadParity(s, cfg, FrameBits(cfg)) = p
  <2> DEFINE bad == BadParity(s, cfg, FrameBits(cfg))
  <2>1. bad <=> e /\ calc_parity_error(data, cfg.parity_mode, s[n + 2])
    BY <1>3 DEF BadParity
  <2>2. bad <=> p
    <3> HIDE DEF bad, e, data, n
    <3> QED BY <1>2, <1>4, <1>5, <1>6, <2>1
  <2>3. bad \in BOOLEAN
    BY DEF BadParity
  <2> HIDE DEF bad
  <2>4. bad = p
    BY <1>2, <2>2, <2>3
  <2> QED BY <2>4 DEF bad
<1>9. Good(d, p, stops) = RecordOf(s, cfg)
  <2> DEFINE brk == Low(stops) /\ Masked(d, n) = Zero
             low == Low(stops)
             m == Masked(d, n)
  <2>1. Good(d, p, stops) = [data |-> m, errors |-> [frame_error |-> low, parity_error |-> p, break_detect |-> brk]]
    BY DEF Good, DataBits
  <2>2. RecordOf(s, cfg) = [data |-> m, errors |-> [frame_error |-> low, parity_error |-> p, break_detect |-> brk]]
    BY <1>6, <1>7, <1>8 DEF RecordOf
  <2> QED BY <2>1, <2>2
<1>10. f.levels = s /\ f.width = BitClks /\ f.record = RecordOf(s, cfg)
  BY <1>1, <1>9 DEF s
<1>11. RecordOf(s, cfg) # NoRecord
  BY <1>3, <1>4, RecordTypes
<1>12. \A i, j \in FrameBits(cfg) .. Len(s) : i < j => s[i] <= s[j]
  BY <1>3, <1>4
<1>13. Len(s) >= FrameBits(cfg)
  BY <1>3, <1>4
<1> QED BY <1>4, <1>10, <1>11, <1>12, <1>13 DEF Whole

LEMMA NoOnes == OddOnes(Zero, 8) = 0
<1>1. {i \in 0 .. 8 - 1 : Zero[i] = 1} = {}
  BY DEF Zero
<1>2. Rcv!Cardinality({}) = 0
  BY Rcv!FS_EmptySet, Assumptions
<1>3. Cardinality({}) = Rcv!Cardinality({})
  BY Zenon DEF Rcv!Cardinality, Cardinality
<1> QED BY <1>1, <1>2, <1>3 DEF OddOnes

LEMMA FrameLength ==
  ASSUME NEW c \in Config
  PROVE  Len(Frame(Zero, c)) = FrameBits(c)
<1>1. Zero \in Byte /\ FALSE \in BOOLEAN /\ [s \in 1 .. StopsOf(c) |-> 1] \in [1 .. StopsOf(c) -> Bit]
  BY DEF Zero, Byte, Bit
<1> QED BY <1>1, FrameLevels DEF Frame

LEMMA BreakIsWhole ==
  ASSUME cfg \in Config, NEW f \in Breakage, Breaks \subseteq Nat
  PROVE  Whole(f, cfg)
<1> DEFINE m == FrameBits(cfg)
<1>1. PICK n \in Breaks : f = [levels |-> [i \in 1 .. m + n |-> 0] \o << 1 >>, width |-> BitClks, record |-> BreakRecord]
  BY FrameLength DEF Breakage
<1> DEFINE z == [i \in 1 .. m + n |-> 0]
           s == z \o << 1 >>
<1>2. /\ m \in 7 .. 12 /\ DataBits(cfg) \in 5 .. 8 /\ ParityBits(cfg) \in 0 .. 1 /\ StopsOf(cfg) \in 1 .. 2
      /\ m = 1 + DataBits(cfg) + ParityBits(cfg) + StopsOf(cfg) /\ n \in Nat
      /\ (parity_is_enabled(cfg.parity_mode) <=> ParityBits(cfg) = 1)
  BY FormatTypes
<1> HIDE DEF m
<1>3. z \in Seq(Bit) /\ Len(z) = m + n /\ << 1 >> \in Seq(Bit) /\ Len(<< 1 >>) = 1
  BY <1>2 DEF Bit
<1>4. /\ s \in Seq(Bit) /\ Len(s) = m + n + 1 /\ \A i \in 1 .. m + n : s[i] = 0
      /\ s[m + n + 1] = 1
  <2>1. s \in Seq(Bit) /\ Len(s) = Len(z) + Len(<< 1 >>) /\ (\A i \in 1 .. Len(z) : s[i] = z[i])
        /\ \A i \in 1 .. Len(<< 1 >>) : s[Len(z) + i] = << 1 >>[i]
    BY <1>3, Join
  <2> HIDE DEF s
  <2>2. Len(s) = m + n + 1
    BY <1>3, <2>1
  <2>3. s[m + n + 1] = 1
    <3>1. 1 \in 1 .. Len(<< 1 >>) /\ << 1 >>[1] = 1
      BY <1>3
    <3> QED BY <1>3, <2>1, <3>1
  <2>4. \A i \in 1 .. m + n : s[i] = 0
    <3> SUFFICES ASSUME NEW i \in 1 .. m + n PROVE s[i] = 0
      OBVIOUS
    <3>1. z[i] = 0 /\ i \in 1 .. Len(z)
      BY <1>3
    <3> QED BY <2>1, <3>1
  <2> QED BY <2>1, <2>2, <2>3, <2>4
<1> HIDE DEF s
<1>5. DataOf(s, cfg, m) = Zero
  <2>1. Len(s) >= FrameBits(cfg)
    BY <1>2, <1>4 DEF m
  <2>2. DataOf(s, cfg, m) = [i \in 0 .. 7 |-> IF i < DataBits(cfg) THEN s[i + 2] ELSE 0]
    BY <1>4, <2>1, DataBitsOf DEF m
  <2>3. \A i \in 0 .. 7 : i < DataBits(cfg) => i + 2 \in 1 .. m + n
    BY <1>2
  <2>4. \A i \in 0 .. 7 : (IF i < DataBits(cfg) THEN s[i + 2] ELSE 0) = 0
    BY <1>4, <2>3
  <2> QED BY <2>2, <2>4, Zenon DEF Zero
<1>6. StopLow(s, cfg, m) = TRUE
  <2>1. m \in DataBits(cfg) + ParityBits(cfg) + 2 .. m /\ m \in 1 .. m + n
    BY <1>2
  <2>2. s[m] = 0
    BY <1>4, <2>1
  <2> QED BY <2>1, <2>2 DEF StopLow
<1>7. BadParity(s, cfg, m) = (cfg.parity_mode = PARITY_ODD)
  <2> DEFINE bad == BadParity(s, cfg, m)
             odd == cfg.parity_mode = PARITY_ODD
  <2>1. bad <=> parity_is_enabled(cfg.parity_mode) /\ calc_parity_error(Zero, cfg.parity_mode, 0)
    <3>1. parity_is_enabled(cfg.parity_mode) => m >= DataBits(cfg) + 2 /\ s[DataBits(cfg) + 2] = 0
      <4>1. parity_is_enabled(cfg.parity_mode) => m >= DataBits(cfg) + 2 /\ DataBits(cfg) + 2 \in 1 .. m + n
        BY <1>2
      <4> QED BY <1>4, <4>1
    <3> QED BY <1>5, <3>1 DEF BadParity
  <2>2. parity_is_enabled(cfg.parity_mode) <=> cfg.parity_mode = PARITY_EVEN \/ odd
    BY DEF parity_is_enabled
  <2>3. CASE cfg.parity_mode = PARITY_EVEN
    <3>1. calc_parity_error(Zero, cfg.parity_mode, 0) = FALSE /\ odd = FALSE
      BY <2>3, NoOnes DEF calc_parity_error, PARITY_EVEN, PARITY_ODD
    <3>2. bad = FALSE
      BY <2>1, <3>1 DEF BadParity
    <3> QED BY <3>1, <3>2
  <2>4. CASE odd
    <3>1. calc_parity_error(Zero, cfg.parity_mode, 0) = TRUE
      BY <2>4, NoOnes DEF calc_parity_error, PARITY_EVEN, PARITY_ODD
    <3>2. bad = TRUE
      BY <2>1, <2>2, <2>4, <3>1 DEF BadParity
    <3> QED BY <2>4, <3>2
  <2>5. CASE ~(cfg.parity_mode = PARITY_EVEN) /\ ~odd
    <3>1. bad = FALSE
      BY <2>1, <2>2, <2>5 DEF BadParity
    <3> QED BY <2>5, <3>1
  <2> QED BY <2>3, <2>4, <2>5
<1>8. BreakRecord = RecordOf(s, cfg)
  <2> DEFINE odd == cfg.parity_mode = PARITY_ODD
  <2>1. (StopLow(s, cfg, m) /\ DataOf(s, cfg, m) = Zero) = TRUE
    BY <1>5, <1>6
  <2>2. BreakRecord = [data |-> Zero, errors |-> [frame_error |-> TRUE, parity_error |-> odd, break_detect |-> TRUE]]
    BY DEF BreakRecord
  <2>3. RecordOf(s, cfg) = [data |-> Zero, errors |-> [frame_error |-> TRUE, parity_error |-> odd, break_detect |-> TRUE]]
    BY <1>5, <1>6, <1>7, <2>1 DEF RecordOf, m
  <2> QED BY <2>2, <2>3
<1>9. f.levels = s /\ f.width = BitClks /\ f.record = RecordOf(s, cfg)
  BY <1>1, <1>8 DEF s
<1>10. Len(s) >= m /\ s[1] = 0
  BY <1>2, <1>4
<1>11. RecordOf(s, cfg) # NoRecord
  BY <1>4, <1>10, RecordTypes DEF m
<1>12. \A i, j \in m .. Len(s) : i < j => s[i] <= s[j]
  <2> SUFFICES ASSUME NEW i \in m .. Len(s), NEW j \in m .. Len(s), i < j PROVE s[i] <= s[j]
    OBVIOUS
  <2>1. i \in 1 .. m + n /\ (j \in 1 .. m + n \/ j = m + n + 1)
    BY <1>2, <1>4
  <2> QED BY <1>4, <2>1
<1> QED BY <1>4, <1>9, <1>10, <1>11, <1>12 DEF Whole, m

LEMMA NoiseIsBrief ==
  ASSUME NEW f \in Noise
  PROVE  Brief(f)
<1>1. PICK n \in Glitches : f = [levels |-> << 0 >> \o [i \in 1 .. BitClks |-> 1], width |-> n, record |-> NoRecord]
  BY DEF Noise
<1> DEFINE ones == [i \in 1 .. BitClks |-> 1]
           s == << 0 >> \o ones
<1>2. << 0 >> \in Seq(Bit) /\ Len(<< 0 >>) = 1 /\ << 0 >>[1] = 0 /\ BitClks \in Nat
  BY Positive DEF Bit
<1>3. ones \in Seq(Bit) /\ Len(ones) = BitClks /\ \A i \in 1 .. BitClks : ones[i] = 1
  BY <1>2 DEF Bit
<1> HIDE DEF ones
<1>4. /\ s \in Seq(Bit) /\ Len(s) = Len(<< 0 >>) + Len(ones)
      /\ \A i \in 1 .. Len(<< 0 >>) : s[i] = << 0 >>[i]
      /\ \A i \in 1 .. Len(ones) : s[Len(<< 0 >>) + i] = ones[i]
  BY <1>2, <1>3, Join
<1> HIDE DEF s
<1>5. s \in Seq(Bit) /\ Len(s) = 1 + BitClks /\ s[1] = 0
  BY <1>2, <1>3, <1>4
<1>6. ASSUME NEW i \in 2 .. Len(s) PROVE s[i] = 1
  <2>1. i - 1 \in 1 .. BitClks /\ 1 + (i - 1) = i
    BY <1>2, <1>5
  <2>2. s[1 + (i - 1)] = ones[i - 1]
    BY <1>2, <1>3, <1>4, <2>1
  <2> QED BY <1>3, <2>1, <2>2
<1>7. f.levels = s /\ f.width \in Glitches /\ f.record = NoRecord
  BY <1>1 DEF s, ones
<1> QED BY <1>5, <1>6, <1>7 DEF Brief

-----------------------------------------------------------------------------
(* Where on f the peer is, and what the synchroniser holds of it.           *)

\* The level of f after q clocks is b; the line is high after its end.
LevelIs(f, q, b) ==
  \/ \E k \in 1 .. Len(f.levels) :
       (k - 1) * f.width <= q /\ q < k * f.width /\ b = f.levels[k]
  \/ q >= Len(f.levels) * f.width /\ b = 1

\* p clocks of f are over, and r is still to be driven, its first level for n clocks already.
Driving(f, p, r, n) ==
  \/ \E j \in 0 .. Len(f.levels) - 1 :
       /\ p = j * f.width + n /\ n \in 0 .. f.width - 1
       /\ Len(r) = Len(f.levels) - j /\ \A i \in 1 .. Len(r) : r[i] = f.levels[j + i]
  \/ r = << >> /\ n = 0 /\ p >= Len(f.levels) * f.width

At(f, p) == width = f.width /\ Driving(f, p, rest, clk)

SyncAt(f, p) == \A i \in 1 .. 3 : i <= p => LevelIs(f, p - i, sync[i])

Driven(f) == f.width \in Nat \ {0} /\ f.levels \in Seq(Bit) /\ Len(f.levels) \in Nat \ {0}

RisesFrom(f, n) == \A i, j \in n .. Len(f.levels) : i < j => f.levels[i] <= f.levels[j]

LEMMA LevelBit ==
  ASSUME NEW f, Driven(f), NEW q, NEW b, LevelIs(f, q, b)
  PROVE  b \in Bit
<1>1. \A k \in 1 .. Len(f.levels) : f.levels[k] \in Bit
  BY DEF Driven
<1> QED BY <1>1 DEF LevelIs, Bit

\* Clocks of the k-th bit show its level.
LEMMA LevelIsOne ==
  ASSUME NEW f, Driven(f), NEW q \in Int, NEW b, LevelIs(f, q, b),
         NEW k \in 1 .. Len(f.levels), (k - 1) * f.width <= q, q < k * f.width
  PROVE  b = f.levels[k]
<1>1. f.width \in Nat /\ Len(f.levels) \in Nat /\ k \in Int
  BY DEF Driven
<1>2. k * f.width <= Len(f.levels) * f.width /\ Len(f.levels) * f.width \in Int /\ k * f.width \in Int
  BY <1>1, Times
<1>3. ~(q >= Len(f.levels) * f.width)
  BY <1>2
<1>4. PICK m \in 1 .. Len(f.levels) : (m - 1) * f.width <= q /\ q < m * f.width /\ b = f.levels[m]
  BY <1>3 DEF LevelIs
<1>5. /\ m - 1 \in Int /\ k - 1 \in Int /\ (m - 1) * f.width \in Int /\ (k - 1) * f.width \in Int
      /\ m * f.width \in Int /\ m \in Int
  BY <1>1, <1>4, Times
<1>6. m - 1 < k
  <2>1. (m - 1) * f.width < k * f.width
    BY <1>2, <1>4, <1>5
  <2> QED BY <1>1, <1>5, <2>1, Times
<1>7. k - 1 < m
  <2>1. (k - 1) * f.width < m * f.width
    BY <1>4, <1>5
  <2> QED BY <1>1, <1>5, <2>1, Times
<1>8. m = k
  BY <1>1, <1>5, <1>6, <1>7
<1> QED BY <1>4, <1>8

\* Once the bits only rise, so does the line.
LEMMA LevelRises ==
  ASSUME NEW f, Driven(f), NEW q \in Int, NEW r \in Int, q <= r,
         NEW b, NEW c, LevelIs(f, q, b), LevelIs(f, r, c),
         NEW n \in Nat \ {0}, RisesFrom(f, n), (n - 1) * f.width <= q
  PROVE  b <= c
<1>1. f.width \in Nat /\ Len(f.levels) \in Nat /\ n - 1 \in Int /\ b \in Bit /\ c \in Bit
  BY LevelBit DEF Driven
<1>2. CASE c = 1
  BY <1>1, <1>2 DEF Bit
<1>3. CASE c # 1
  <2>1. PICK m \in 1 .. Len(f.levels) : (m - 1) * f.width <= r /\ r < m * f.width /\ c = f.levels[m]
    BY <1>3 DEF LevelIs
  <2>2. m \in Int /\ m - 1 \in Int /\ m * f.width \in Int /\ Len(f.levels) * f.width \in Int
        /\ m * f.width <= Len(f.levels) * f.width
    <3>1. m \in Int /\ Len(f.levels) \in Int /\ m <= Len(f.levels)
      BY <1>1, <2>1
    <3>2. m * f.width \in Int /\ Len(f.levels) * f.width \in Int
      BY <1>1, <3>1, Times
    <3>3. m * f.width <= Len(f.levels) * f.width
      BY <1>1, <3>1, Times
    <3> QED BY <3>1, <3>2, <3>3
  <2>3. ~(q >= Len(f.levels) * f.width)
    BY <2>1, <2>2
  <2>4. PICK k \in 1 .. Len(f.levels) : (k - 1) * f.width <= q /\ q < k * f.width /\ b = f.levels[k]
    BY <2>3 DEF LevelIs
  <2>5. /\ k \in Int /\ k - 1 \in Int /\ k * f.width \in Int /\ (k - 1) * f.width \in Int
        /\ (n - 1) * f.width \in Int
    <3>1. k \in Int /\ k - 1 \in Int
      BY <1>1, <2>4
    <3>2. k * f.width \in Int /\ (k - 1) * f.width \in Int
      BY <1>1, <3>1, Times
    <3>3. (n - 1) * f.width \in Int
      BY <1>1, Times
    <3> QED BY <3>1, <3>2, <3>3
  <2>6. k - 1 < m
    <3>1. (k - 1) * f.width < m * f.width
      BY <2>1, <2>2, <2>4, <2>5
    <3> QED BY <1>1, <2>2, <2>5, <3>1, Times
  <2>7. n - 1 < k
    <3>1. (n - 1) * f.width < k * f.width
      BY <2>4, <2>5
    <3> QED BY <1>1, <2>5, <3>1, Times
  <2>8. k \in n .. Len(f.levels) /\ m \in n .. Len(f.levels) /\ (k < m \/ k = m)
    BY <2>1, <2>2, <2>4, <2>5, <2>6, <2>7
  <2>9. f.levels[k] <= f.levels[m]
    <3>1. CASE k < m
      BY <2>8, <3>1 DEF RisesFrom
    <3>2. CASE k = m
      BY <1>1, <2>1, <2>4, <3>2 DEF Bit
    <3> QED BY <2>8, <3>1, <3>2
  <2> QED BY <2>1, <2>4, <2>9
<1> QED BY <1>2, <1>3

\* The line shows the bit that the peer is at.
LEMMA DrivenLevel ==
  ASSUME NEW f, Driven(f), NEW p \in Nat, NEW r \in Seq(Bit), NEW n, Driving(f, p, r, n)
  PROVE  LevelIs(f, p, IF r = << >> THEN 1 ELSE Head(r))
<1>1. f.width \in Nat /\ Len(f.levels) \in Nat
  BY DEF Driven
<1>2. CASE r = << >> /\ n = 0 /\ p >= Len(f.levels) * f.width
  BY <1>2 DEF LevelIs
<1>3. CASE \E j \in 0 .. Len(f.levels) - 1 :
             /\ p = j * f.width + n /\ n \in 0 .. f.width - 1
             /\ Len(r) = Len(f.levels) - j /\ \A i \in 1 .. Len(r) : r[i] = f.levels[j + i]
  <2>1. PICK j \in 0 .. Len(f.levels) - 1 :
             /\ p = j * f.width + n /\ n \in 0 .. f.width - 1
             /\ Len(r) = Len(f.levels) - j /\ \A i \in 1 .. Len(r) : r[i] = f.levels[j + i]
    BY <1>3
  <2>2. r # << >> /\ Head(r) = f.levels[j + 1]
    BY <1>1, <2>1
  <2>3. (j + 1) * f.width = j * f.width + f.width /\ j * f.width \in Int /\ (j + 1) - 1 = j
        /\ j + 1 \in 1 .. Len(f.levels)
    <3>1. j \in Int /\ (j + 1) - 1 = j /\ j + 1 \in 1 .. Len(f.levels)
      BY <1>1, <2>1
    <3> QED BY <1>1, <3>1, Times
  <2>4. ((j + 1) - 1) * f.width <= p /\ p < (j + 1) * f.width
    <3> DEFINE y == (j + 1) * f.width
               z == j * f.width
    <3>1. p = z + n /\ n \in 0 .. f.width - 1 /\ y = z + f.width /\ z \in Int
      BY <2>1, <2>3
    <3>2. (j + 1) - 1 = j
      BY <2>3
    <3> HIDE DEF y, z
    <3>3. z <= p /\ p < y
      BY <1>1, <3>1
    <3> QED BY <3>2, <3>3 DEF y, z
  <2> QED BY <2>2, <2>3, <2>4 DEF LevelIs
<1> QED BY <1>2, <1>3 DEF Driving

\* What is left to be driven only rises once the bits do.
LEMMA RestRises ==
  ASSUME NEW f, Driven(f), NEW p \in Nat, NEW r \in Seq(Bit), NEW n, Driving(f, p, r, n),
         NEW m \in Nat \ {0}, RisesFrom(f, m), (m - 1) * f.width <= p,
         NEW a \in 1 .. Len(r), NEW b \in 1 .. Len(r), a < b
  PROVE  r[a] <= r[b]
<1>1. f.width \in Nat \ {0} /\ Len(f.levels) \in Nat /\ Len(r) \in Nat /\ r # << >>
  BY DEF Driven
<1>2. PICK j \in 0 .. Len(f.levels) - 1 :
             /\ p = j * f.width + n /\ n \in 0 .. f.width - 1
             /\ Len(r) = Len(f.levels) - j /\ \A i \in 1 .. Len(r) : r[i] = f.levels[j + i]
  BY <1>1 DEF Driving
<1>3. (j + 1) * f.width = j * f.width + f.width /\ j * f.width \in Int /\ (m - 1) * f.width \in Int
  <2>1. j \in Int /\ m - 1 \in Int /\ f.width \in Nat
    BY <1>1, <1>2
  <2> QED BY <2>1, Times
<1>4. m - 1 < j + 1
  <2> DEFINE x == (m - 1) * f.width
             y == (j + 1) * f.width
             z == j * f.width
  <2>1. p = z + n /\ n \in 0 .. f.width - 1 /\ y = z + f.width /\ z \in Int /\ x \in Int /\ x <= p
    BY <1>2, <1>3
  <2> HIDE DEF x, y, z
  <2>2. x < y
    BY <1>1, <2>1
  <2>3. m - 1 \in Int /\ j + 1 \in Int /\ f.width \in Nat
    BY <1>1, <1>2
  <2> QED BY <2>2, <2>3, Times DEF x, y
<1>5. j + a \in m .. Len(f.levels) /\ j + b \in m .. Len(f.levels) /\ j + a < j + b
  BY <1>1, <1>2, <1>4
<1>6. f.levels[j + a] <= f.levels[j + b]
  BY <1>5 DEF RisesFrom
<1> QED BY <1>2, <1>6

LEMMA LineLevel ==
  ASSUME NEW f, Driven(f), NEW p \in Nat, At(f, p), rest \in Seq(Bit)
  PROVE  LevelIs(f, p, line)
BY DrivenLevel DEF At, line

LEMMA SyncMoves ==
  ASSUME NEW f, Driven(f), NEW p \in Nat, At(f, p), SyncAt(f, p), rest \in Seq(Bit), SyncEdge(line)
  PROVE  SyncAt(f, p + 1)'
<1>1. LevelIs(f, p, line)
  BY LineLevel
<1>2. sync' = << line, sync[1], sync[2] >>
  BY DEF SyncEdge
<1>3. LevelIs(f, (p + 1) - 1, sync'[1])
  BY <1>1, <1>2
<1>4. 2 <= p + 1 => LevelIs(f, (p + 1) - 2, sync'[2])
  <2>1. 2 <= p + 1 => 1 <= p /\ (p + 1) - 2 = p - 1
    OBVIOUS
  <2> QED BY <1>2, <2>1 DEF SyncAt
<1>5. 3 <= p + 1 => LevelIs(f, (p + 1) - 3, sync'[3])
  <2>1. 3 <= p + 1 => 2 <= p /\ (p + 1) - 3 = p - 2
    OBVIOUS
  <2> QED BY <1>2, <2>1 DEF SyncAt
<1>6. \A i \in 1 .. 3 : i <= p + 1 => LevelIs(f, (p + 1) - i, sync'[i])
  BY <1>3, <1>4, <1>5
<1> QED BY <1>6 DEF SyncAt, LevelIs

-----------------------------------------------------------------------------
(* The peer's steps.                                                        *)

Records == [data : Byte, errors : Errors]

Own(f) == IF f.record = NoRecord THEN << >> ELSE << f.record >>

PeerTypeOK ==
  /\ rest \in Seq(Bit) /\ clk \in 0 .. width - 1 /\ width \in {BitClks} \cup Glitches
  /\ expected \in Seq(Records)

Peer == Rests \/ Begins \/ Drives

\* The peer has just begun g.
Starts(g) == At(g, 0)' /\ expected' = Unread \o Own(g)

LEMMA DrivenFacts ==
  ASSUME NEW c \in Config, NEW f, Whole(f, c) \/ Brief(f)
  PROVE  /\ Driven(f) /\ f.width \in {BitClks} \cup Glitches
         /\ f.record = NoRecord \/ f.record \in Records
         /\ Own(f) \in Seq(Records)
         /\ f.levels[1] = 0
<1>1. FrameBits(c) \in 7 .. 12 /\ BitClks \in Nat \ {0} /\ Glitches \subseteq Nat \ {0}
  BY FormatTypes, LineInputs
<1>2. Driven(f) /\ f.width \in {BitClks} \cup Glitches /\ f.levels[1] = 0
  <2>1. CASE Whole(f, c)
    BY <1>1, <2>1 DEF Whole, Driven
  <2>2. CASE Brief(f)
    <3>1. f.width \in Glitches /\ f.levels \in Seq(Bit) /\ Len(f.levels) = 1 + BitClks /\ f.levels[1] = 0
      BY <2>2 DEF Brief
    <3>2. 1 + BitClks \in Nat \ {0} /\ f.width \in Nat \ {0}
      BY <1>1, <3>1
    <3> QED BY <3>1, <3>2 DEF Driven
  <2> QED BY <2>1, <2>2
<1>3. f.record = NoRecord \/ f.record \in Records
  <2>1. CASE Whole(f, c)
    BY <2>1, RecordTypes DEF Whole, Records
  <2> QED BY <2>1 DEF Brief
<1>4. Own(f) \in Seq(Records)
  BY <1>3 DEF Own
<1> QED BY <1>2, <1>3, <1>4

LEMMA BeginsIs ==
  ASSUME cfg \in Config, Unread \in Seq(Records), NEW g \in Frames \cup Breakage \cup Noise, Begin(g)
  PROVE  (Whole(g, cfg) \/ Brief(g)) /\ Starts(g) /\ rest' \in Seq(Bit) /\ width' = g.width /\ clk' = 0
<1>1. Whole(g, cfg) \/ Brief(g)
  <2>1. Bytes \subseteq Byte /\ Breaks \subseteq Nat
    BY LineInputs
  <2>2. g \in Frames => Whole(g, cfg)
    BY <2>1, FrameIsWhole
  <2>3. g \in Breakage => Whole(g, cfg)
    BY <2>1, BreakIsWhole
  <2>4. g \in Noise => Brief(g)
    BY NoiseIsBrief
  <2> QED BY <2>2, <2>3, <2>4
<1>2. Driven(g)
  BY <1>1, DrivenFacts
<1>3. rest' = g.levels /\ width' = g.width /\ clk' = 0
  BY DEF Begin
<1>4. At(g, 0)'
  <2>1. /\ 0 \in 0 .. Len(g.levels) - 1 /\ 0 = 0 * g.width + 0 /\ 0 \in 0 .. g.width - 1
        /\ Len(g.levels) = Len(g.levels) - 0 /\ \A i \in 1 .. Len(g.levels) : g.levels[i] = g.levels[0 + i]
    BY <1>2 DEF Driven
  <2> QED BY <1>3, <2>1 DEF At, Driving
<1>5. expected' = Unread \o Own(g)
  BY DEF Begin, Own
<1> QED BY <1>1, <1>2, <1>3, <1>4, <1>5 DEF Starts, Driven

LEMMA PeerMoves ==
  ASSUME cfg \in Config, NEW f, Driven(f), NEW p \in Nat, At(f, p), rest \in Seq(Bit),
         Unread \in Seq(Records), Peer
  PROVE  \/ At(f, p + 1)' /\ expected' = Unread
         \/ /\ p + 1 >= Len(f.levels) * f.width /\ line = 1
            /\ \E g : (Whole(g, cfg) \/ Brief(g)) /\ Starts(g)
<1>1. f.width \in Nat \ {0} /\ Len(f.levels) \in Nat \ {0} /\ Len(rest) \in Nat /\ width = f.width
  BY DEF Driven, At
<1>2. CASE rest = << >> /\ clk = 0 /\ p >= Len(f.levels) * f.width
  <2>1. p + 1 >= Len(f.levels) * f.width
    BY <1>1, <1>2, Times
  <2>2. CASE Rests
    BY <1>1, <2>1, <2>2 DEF Rests, At, Driving
  <2>3. CASE Begins
    BY <2>1, <2>3, BeginsIs DEF Begins
  <2>4. ~Drives
    BY <1>2 DEF Drives
  <2> QED BY <2>2, <2>3, <2>4 DEF Peer
<1>3. CASE \E j \in 0 .. Len(f.levels) - 1 :
             /\ p = j * f.width + clk /\ clk \in 0 .. f.width - 1
             /\ Len(rest) = Len(f.levels) - j /\ \A i \in 1 .. Len(rest) : rest[i] = f.levels[j + i]
  <2>1. PICK j \in 0 .. Len(f.levels) - 1 :
             /\ p = j * f.width + clk /\ clk \in 0 .. f.width - 1
             /\ Len(rest) = Len(f.levels) - j /\ \A i \in 1 .. Len(rest) : rest[i] = f.levels[j + i]
    BY <1>3
  <2>2. rest # << >> /\ j \in Nat
    BY <1>1, <2>1
  <2>3. (j + 1) * f.width = j * f.width + f.width /\ j * f.width \in Int
    BY <1>1, <2>2, Times
  <2>4. Len(rest) <= 1 /\ clk = width - 1 => p + 1 >= Len(f.levels) * f.width
    <3> SUFFICES ASSUME Len(rest) <= 1, clk = width - 1 PROVE p + 1 >= Len(f.levels) * f.width
      OBVIOUS
    <3>1. j + 1 = Len(f.levels)
      BY <1>1, <2>1
    <3> DEFINE y == (j + 1) * f.width
               z == j * f.width
    <3>2. p = z + clk /\ clk = f.width - 1 /\ y = z + f.width /\ z \in Int
      BY <1>1, <2>1, <2>3
    <3>3. y = Len(f.levels) * f.width
      BY <3>1
    <3> DEFINE w == f.width
    <3>4. p = z + (w - 1) /\ y = z + w /\ w \in Int
      BY <1>1, <3>2
    <3> HIDE DEF y, z, w
    <3>5. p + 1 = y /\ y \in Int
      BY <3>2, <3>4
    <3> QED BY <3>3, <3>5
  <2>5. CASE Rests
    BY <1>1, <2>2, <2>4, <2>5 DEF Rests, At, Driving
  <2>6. CASE Begins
    BY <2>2, <2>4, <2>6, BeginsIs DEF Begins
  <2>7. CASE Drives
    <3>1. ~(Len(rest) = 1 /\ clk = width - 1) /\ expected' = Unread /\ width' = f.width
      BY <1>1, <2>7 DEF Drives
    <3>2. CASE clk = width - 1
      <4>1. rest' = Tail(rest) /\ clk' = 0
        BY <2>7, <3>2 DEF Drives
      <4>2. Len(rest) > 1 /\ j + 1 \in 0 .. Len(f.levels) - 1
        BY <1>1, <2>1, <3>1, <3>2
      <4>3. Len(rest') = Len(f.levels) - (j + 1) /\ \A i \in 1 .. Len(rest') : rest'[i] = rest[i + 1]
        BY <1>1, <2>1, <2>2, <4>1
      <4>4. \A i \in 1 .. Len(rest') : rest'[i] = f.levels[(j + 1) + i]
        <5> SUFFICES ASSUME NEW i \in 1 .. Len(rest') PROVE rest'[i] = f.levels[(j + 1) + i]
          OBVIOUS
        <5>1. i + 1 \in 1 .. Len(rest) /\ j + (i + 1) = (j + 1) + i
          BY <1>1, <2>1, <4>3
        <5> QED BY <2>1, <4>3, <5>1
      <4>5. p + 1 = (j + 1) * f.width + 0 /\ 0 \in 0 .. f.width - 1
        <5> DEFINE y == (j + 1) * f.width
                   z == j * f.width
        <5>1. p = z + (f.width - 1) /\ y = z + f.width /\ z \in Int
          BY <1>1, <2>1, <2>3, <3>2
        <5> HIDE DEF y, z
        <5>2. p + 1 = y + 0 /\ 0 \in 0 .. f.width - 1
          BY <1>1, <5>1
        <5> QED BY <5>2 DEF y
      <4> QED BY <3>1, <4>1, <4>2, <4>3, <4>4, <4>5 DEF At, Driving
    <3>3. CASE clk # width - 1
      <4>1. rest' = rest /\ clk' = clk + 1
        BY <2>7, <3>3 DEF Drives
      <4>2. p + 1 = j * f.width + clk' /\ clk' \in 0 .. f.width - 1
        <5>1. clk \in 0 .. f.width - 1 /\ clk # f.width - 1 /\ p = j * f.width + clk
          BY <1>1, <2>1, <3>3
        <5>2. clk + 1 \in 0 .. f.width - 1
          BY <1>1, <5>1
        <5>3. p + 1 = j * f.width + (clk + 1)
          BY <2>3, <5>1
        <5> QED BY <4>1, <5>2, <5>3
      <4> QED BY <2>1, <3>1, <4>1, <4>2 DEF At, Driving
    <3> QED BY <3>2, <3>3
  <2> QED BY <2>5, <2>6, <2>7 DEF Peer
<1> QED BY <1>2, <1>3 DEF At, Driving

\* Without a frame: what is driven stays what it is, or a frame begins.
LEMMA PeerTypes ==
  ASSUME cfg \in Config, PeerTypeOK, Unread \in Seq(Records), Peer
  PROVE  PeerTypeOK'
<1>1. BitClks \in Nat \ {0} /\ Glitches \subseteq Nat \ {0} /\ width \in Nat \ {0}
  BY LineInputs DEF PeerTypeOK
<1>2. CASE Rests
  BY <1>1, <1>2 DEF Rests, PeerTypeOK
<1>3. CASE Drives
  <2>1. Tail(rest) \in Seq(Bit)
    BY <1>3 DEF Drives, PeerTypeOK
  <2>2. rest' \in Seq(Bit) /\ width' = width /\ expected' = Unread
    BY <1>3, <2>1 DEF Drives, PeerTypeOK
  <2>3. clk' \in 0 .. width - 1
    BY <1>1, <1>3 DEF Drives, PeerTypeOK
  <2> QED BY <2>2, <2>3 DEF PeerTypeOK
<1>4. CASE Begins
  <2>1. PICK g \in Frames \cup Breakage \cup Noise : Begin(g)
    BY <1>4 DEF Begins
  <2>2. /\ Whole(g, cfg) \/ Brief(g)
        /\ rest' \in Seq(Bit) /\ width' = g.width /\ clk' = 0 /\ expected' = Unread \o Own(g)
    BY <2>1, BeginsIs DEF Starts
  <2>3. g.width \in {BitClks} \cup Glitches /\ Own(g) \in Seq(Records)
    BY <2>2, DrivenFacts
  <2>4. Unread \o Own(g) \in Seq(Records)
    <3> DEFINE o == Own(g)
               u == Unread
    <3> HIDE DEF o, u
    <3> QED BY <2>3 DEF o, u
  <2>5. width' \in {BitClks} \cup Glitches /\ clk' \in 0 .. width' - 1
    <3>1. g.width \in Nat \ {0}
      BY <1>1, <2>3
    <3>2. 0 \in 0 .. g.width - 1
      BY <3>1
    <3> QED BY <2>2, <2>3, <3>2
  <2> QED BY <2>2, <2>4, <2>5 DEF PeerTypeOK
<1> QED BY <1>2, <1>3, <1>4 DEF Peer

-----------------------------------------------------------------------------
(* The receiver between frames.                                             *)

\* The record that is not handed over yet.
Owed == IF rx.state = "DONE" \/ rx.char_valid THEN << Record >> ELSE << >>

Pulses ==
  /\ rx.events = IF rx.char_valid THEN rx.errors ELSE NoErrors
  /\ rx.char_valid => rx.state = "IDLE"

\* No start is armed at a low line.
Idle ==
  /\ rx.state \in {"IDLE", "DONE"}
  /\ rx.state = "DONE" => ~rx.start_armed /\ ~rx.char_valid
  /\ rx.start_armed => sync[3] = 1

LEMMA SyncFacts ==
  ASSUME NEW b, SyncEdge(b)
  PROVE  sync'[1] = b /\ sync'[2] = sync[1] /\ sync'[3] = sync[2]
BY DEF SyncEdge

LEMMA IdleRests ==
  ASSUME RxTypeOK, NEW c, RxIdle(c)
  PROVE  /\ rx'.state = "IDLE" /\ rx'.char_valid = FALSE /\ rx'.events = NoErrors
         /\ rx'.start_armed <=> rx_sync = 1
<1> DEFINE a == rx_sync = 1
<1>1. rx' = [Fresh EXCEPT !.start_armed = a] /\ rx.state = "IDLE"
  BY DEF RxIdle
<1> HIDE DEF a
<1>2. /\ rx'.state = "IDLE" /\ rx'.char_valid = FALSE /\ rx'.events = NoErrors
      /\ rx'.start_armed = a
  BY <1>1 DEF Fresh, Quiet, RxTypeOK
<1> QED BY <1>2 DEF a

LEMMA DoneHands ==
  ASSUME RxTypeOK, RxDone
  PROVE  /\ rx'.state = "IDLE" /\ rx'.char_valid = TRUE /\ rx'.events = rx.errors
         /\ rx'.errors = rx.errors /\ rx'.data = rx.data /\ rx'.start_armed = rx.start_armed
BY DEF RxDone, RxTypeOK

LEMMA IdleMoves ==
  ASSUME RxTypeOK, Pulses, Idle, sync[3] <= sync[2], NEW c, NEW t, RxEdge(c, t), NEW b, SyncEdge(b),
         NEW X \in Seq(Records), expected = Owed \o X
  PROVE  Pulses' /\ Idle' /\ rx'.state = "IDLE" /\ Unread = Owed' \o X
<1>1. sync[2] \in Bit /\ sync[3] \in Bit
  BY DEF RxTypeOK
<1>2. Record \in Records
  BY DEF RxTypeOK, Record, Records
<1>3. CASE rx.state = "DONE"
  <2>1. RxDone
    BY <1>3 DEF RxEdge, RxIdle, RxDetect, RxWait, RxStart, RxData, RxParity, RxStop, Sampling
  <2>2. /\ rx'.state = "IDLE" /\ rx'.char_valid = TRUE /\ rx'.events = rx.errors
        /\ rx'.errors = rx.errors /\ rx'.data = rx.data /\ rx'.start_armed = rx.start_armed
    BY <2>1, DoneHands
  <2>3. Owed = << Record >> /\ Owed' = << Record >>
    BY <1>3, <2>2 DEF Owed, Record
  <2>4. Unread = Owed' \o X
    BY <1>3, <2>3 DEF Unread, Idle
  <2> QED BY <1>3, <2>2, <2>4 DEF Pulses, Idle
<1>4. CASE rx.state = "IDLE"
  <2>1. RxIdle(c)
    <3>1. ~(rx_sync = 0 /\ rx.start_armed)
      BY <1>1 DEF Idle, rx_sync
    <3> QED BY <1>4, <3>1 DEF RxEdge, RxDetect, RxWait, RxStart, RxData, RxParity, RxStop, RxDone, Sampling
  <2>2. /\ rx'.state = "IDLE" /\ rx'.char_valid = FALSE /\ rx'.events = NoErrors
        /\ (rx'.start_armed <=> rx_sync = 1)
    BY <2>1, IdleRests
  <2>3. rx'.start_armed => sync'[3] = 1
    <3>1. sync'[3] = sync[2]
      BY SyncFacts
    <3> QED BY <1>1, <2>2, <3>1 DEF Bit, rx_sync
  <2>4. Owed' = << >>
    BY <2>2 DEF Owed
  <2>5. Unread = << >> \o X
    <3>1. CASE rx.char_valid
      <4>1. expected = << Record >> \o X
        BY <3>1 DEF Owed
      <4>2. Tail(expected) = X /\ << >> \o X = X
        <5> DEFINE r == Record
        <5> HIDE DEF r
        <5> QED BY <1>2, <4>1 DEF r
      <4> QED BY <3>1, <4>2 DEF Unread
    <3>2. CASE ~rx.char_valid
      BY <1>4, <3>2 DEF Unread, Owed
    <3> QED BY <3>1, <3>2
  <2> QED BY <2>2, <2>3, <2>4, <2>5 DEF Pulses, Idle
<1> QED BY <1>3, <1>4 DEF Idle

\* A start is found.
LEMMA DetectReads ==
  ASSUME NEW c \in Config, RxTypeOK, NEW s, RxDetect(c)
  PROVE  rx' = Reading(s, c, 0, 0)
<1>0. 0 \in 0 .. FrameBits(c) - 1 /\ DataBits(c) \in 5 .. 8 /\ ParityBits(c) \in 0 .. 1
      /\ decode_stop_bits(c.stop_bits) = StopsOf(c)
  BY FormatTypes
<1>1. StateAt(c, 0) = "START" /\ BitAt(c, 0) = 0 /\ StopAt(c, 0) = 0
  BY <1>0, StateFacts DEF BitAt, StopAt
<1>2. DataOf(s, c, 0) = Zero
  BY DEF DataOf, Zero
<1>3. StopLow(s, c, 0) = FALSE /\ BadParity(s, c, 0) = FALSE
  <2>1. ~StopLow(s, c, 0) /\ ~BadParity(s, c, 0)
    BY <1>0, StopMore, ParityMore
  <2> QED BY <2>1 DEF StopLow, BadParity
<1>4. ErrorsAt(s, c, 0) = NoErrors
  BY <1>3 DEF ErrorsAt, NoErrors
<1> DEFINE n == DataBits(c)
           m == StopsOf(c)
           mode == c.parity_mode
<1>5. rx' = [Fresh EXCEPT !.state = "START", !.start_armed = FALSE, !.data_bits = n, !.stop_bits = m,
                          !.parity_mode = mode, !.data = Zero, !.all_data_zero = TRUE]
  BY <1>0 DEF RxDetect, DataBits
<1> HIDE DEF n, m, mode
<1>6. rx' = [state |-> "START", sample_count |-> 0, data_bit_index |-> 0, stop_bit_index |-> 0,
             data_bits |-> n, stop_bits |-> m, parity_mode |-> mode, data |-> Zero,
             all_data_zero |-> TRUE, stop_low_seen |-> FALSE, errors |-> NoErrors,
             start_armed |-> FALSE, char_valid |-> FALSE, events |-> NoErrors]
  BY <1>5 DEF Fresh, Quiet, RxTypeOK
<1> DEFINE z == DataOf(s, c, 0) = Zero
<1>7. z = TRUE
  BY <1>2
<1> HIDE DEF z
<1>8. Reading(s, c, 0, 0) =
        [state |-> "START", sample_count |-> 0, data_bit_index |-> 0, stop_bit_index |-> 0,
         data_bits |-> n, stop_bits |-> m, parity_mode |-> mode, data |-> Zero,
         all_data_zero |-> z, stop_low_seen |-> FALSE, errors |-> NoErrors,
         start_armed |-> FALSE, char_valid |-> FALSE, events |-> NoErrors]
  BY <1>1, <1>2, <1>3, <1>4 DEF Reading, z, n, m, mode
<1> QED BY <1>6, <1>7, <1>8

-----------------------------------------------------------------------------
(* The edge of the last sample, when a frame begins at it.                  *)

Outcome ==
  LET low == rx.stop_low_seen \/ sync[3] = 0
  IN [data |-> rx.data,
      errors |-> [frame_error |-> low, parity_error |-> rx.errors.parity_error,
                  break_detect |-> low /\ rx.all_data_zero]]

Finishing ==
  /\ rx.state = "STOP" /\ rx.stop_bit_index = rx.stop_bits - 1
  /\ rx.sample_count = BIT_LAST /\ baud.oversample_tick
  /\ rx.errors.frame_error = rx.stop_low_seen /\ ~rx.start_armed /\ ~rx.char_valid

LEMMA Finishes ==
  ASSUME RxTypeOK, Finishing, NEW c, RxEdge(c, baud.oversample_tick), baud.oversample_tick = TRUE
  PROVE  /\ rx'.state = "DONE" /\ ~rx'.start_armed /\ ~rx'.char_valid /\ rx'.events = NoErrors
         /\ Record' = Outcome
<1>1. RxStop(TRUE)
  BY DEF Finishing, RxEdge, RxIdle, RxDetect, RxWait, RxStart, RxData, RxParity, RxDone, Due, Last
<1> DEFINE last   == rx.stop_bit_index = rx.stop_bits - 1
           frame  == rx.errors.frame_error \/ rx_sync = 0
           low    == rx.stop_low_seen \/ rx_sync = 0
           zero   == low /\ rx.all_data_zero
           brk    == IF last THEN frame /\ rx.all_data_zero /\ low ELSE rx.errors.break_detect
           errors == [frame_error |-> frame, parity_error |-> rx.errors.parity_error, break_detect |-> brk]
           sb     == IF last THEN 0 ELSE rx.stop_bit_index + 1
           next   == IF last THEN "DONE" ELSE "STOP"
<1>2. rx' = Rcv!RxWith(next, 0, rx.data_bit_index, sb, rx.data, rx.all_data_zero, low, errors)
  BY <1>1, SameReceiver, SameRxEdge, Rcv!RxStopForm, Assumptions
<1>3. rx.errors.frame_error = rx.stop_low_seen /\ rx.start_armed = FALSE /\ last
      /\ rx.all_data_zero \in BOOLEAN /\ rx.stop_low_seen \in BOOLEAN
  BY DEF Finishing, RxTypeOK
<1>4. frame = low
  BY <1>3
<1>5. brk = zero
  <2>1. brk <=> zero
    BY <1>3
  <2>2. brk \in BOOLEAN /\ zero \in BOOLEAN
    BY <1>3
  <2> HIDE DEF brk, zero
  <2> QED BY <2>1, <2>2
<1>6. next = "DONE"
  BY <1>3
<1>7. Outcome = [data |-> rx.data, errors |-> [frame_error |-> low, parity_error |-> rx.errors.parity_error,
                                               break_detect |-> zero]]
  BY DEF Outcome, rx_sync
<1> HIDE DEF next, brk, zero, frame, low, sb
<1>8. errors = [frame_error |-> low, parity_error |-> rx.errors.parity_error, break_detect |-> zero]
  BY <1>4, <1>5
<1> HIDE DEF errors
<1>9. /\ rx'.state = "DONE" /\ ~rx'.start_armed /\ ~rx'.char_valid /\ rx'.events = NoErrors
      /\ rx'.data = rx.data /\ rx'.errors = errors
  BY <1>2, <1>3, <1>6, SameReceiver DEF Rcv!RxWith
<1> QED BY <1>7, <1>8, <1>9 DEF Record

-----------------------------------------------------------------------------
(* The receiver within a frame.                                             *)

\* A glitch is sampled once; after its first bit it only rises.
Samples(f, c)  == IF f.record = NoRecord THEN 1 ELSE FrameBits(c)
FinalBit(f, c) == IF f.record = NoRecord THEN 2 ELSE FrameBits(c)

\* p clocks into f, k samples of it are taken, and n ticks since.
ReadingAt(f, c, p, k, n) ==
  /\ k \in 0 .. Samples(f, c) - 1 /\ n \in 0 .. LastOf(k) /\ p >= 4
  /\ rx = Reading(f.levels, c, k, n)
  /\ Within(p, (TicksTo(k, n) + Ticking) * AccSize + baud.acc)

LEMMA Tolerances ==
  ASSUME Tolerated, NEW c \in Cfgs, NEW k \in 0 .. FrameBits(c) - 1
  PROVE  /\ k * BitClks * Inc <= (Nth(k) - 1) * AccSize + Inc
         /\ Nth(k) * AccSize + 3 * Inc <= (k + 1) * BitClks * Inc
         /\ k * BitClks \in Nat /\ (k + 1) * BitClks = k * BitClks + BitClks
         /\ k \in Nat /\ c \in Config /\ FrameBits(c) \in 7 .. 12
<1>1. c \in Config
  BY LineInputs
<1>2. Len(Frame(Zero, c)) = FrameBits(c)
  BY <1>1, FrameLength
<1>3. k \in Nat /\ FrameBits(c) \in 7 .. 12
  BY <1>1, FormatTypes
<1>4. k * BitClks \in Nat /\ (k + 1) * BitClks = k * BitClks + BitClks
  BY <1>3, Positive, Times
<1>5. k * OVERSAMPLE \in Nat /\ HALF_LAST \in Nat
  BY <1>3, Positive
<1>6. Nth(k) - 1 = HALF_LAST + k * OVERSAMPLE /\ Nth(k) = HALF_LAST + 1 + k * OVERSAMPLE
  BY <1>5 DEF Nth
<1>7. /\ k * BitClks * Inc <= (HALF_LAST + k * OVERSAMPLE) * AccSize + Inc
      /\ (HALF_LAST + 1 + k * OVERSAMPLE) * AccSize + 3 * Inc <= (k + 1) * BitClks * Inc
  BY <1>2 DEF Tolerated
<1> QED BY <1>1, <1>3, <1>4, <1>6, <1>7

LEMMA BitIsLong ==
  ASSUME Tolerated, NEW c \in Cfgs
  PROVE  BitClks >= 5
<1>1. c \in Config
  BY LineInputs
<1>2. 0 \in 0 .. FrameBits(c) - 1
  BY <1>1, FormatTypes
<1>3. Nth(0) * AccSize + 3 * Inc <= (0 + 1) * BitClks * Inc
  BY <1>2, Tolerances
<1>4. AccSize \in Nat /\ Inc \in Nat /\ Inc < AccSize /\ BitClks \in Nat /\ Nth(0) \in Nat \ {0}
  BY Positive, TicksToNth
<1>5. 1 * AccSize <= Nth(0) * AccSize /\ Nth(0) * AccSize \in Int
  <2>1. 1 \in Int /\ Nth(0) \in Int /\ 1 <= Nth(0)
    BY <1>4
  <2> QED BY <1>4, <2>1, Times
<1>6. (0 + 1) * BitClks * Inc = BitClks * Inc /\ BitClks * Inc \in Int
  BY <1>4
<1>7. 4 * Inc < BitClks * Inc
  BY <1>3, <1>4, <1>5, <1>6
<1>8. 4 < BitClks
  BY <1>4, <1>7, Times
<1> QED BY <1>4, <1>8

\* The sample falls within its bit: i is 1 at a tick, and a is what the generator has accumulated.
LEMMA Window ==
  ASSUME Tolerated, NEW c \in Cfgs, NEW f, NEW p \in Nat,
         NEW k \in 0 .. Samples(f, c) - 1, NEW n \in 0 .. LastOf(k),
         NEW i \in 0 .. 1, NEW a \in 0 .. AccSize - 1, i = 1 => a < Inc,
         Within(p, (TicksTo(k, n) + i) * AccSize + a)
  PROVE  /\ p <= (k + 1) * BitClks
         /\ p = (k + 1) * BitClks => i = 1 /\ n = LastOf(k)
         /\ i = 1 /\ n = LastOf(k) => k * BitClks <= p - 3
<1>1. c \in Config /\ FrameBits(c) \in 7 .. 12
  BY LineInputs, FormatTypes
<1>2. k \in 0 .. FrameBits(c) - 1 /\ k \in Nat
  BY <1>1 DEF Samples
<1>3. LastOf(k) \in Nat /\ n \in Nat
  BY Positive DEF LastOf
<1>4. /\ Nth(k) \in Nat \ {0} /\ TicksTo(k, LastOf(k)) + 1 = Nth(k)
      /\ TicksTo(k, n) \in Nat /\ (n < LastOf(k) => TicksTo(k, n) + 1 < Nth(k))
  BY <1>2, <1>3, TicksToNth
<1> DEFINE m == TicksTo(k, n) + i
           s == Nth(k)
           b == k * BitClks
           e == (k + 1) * BitClks
<1>5. m \in 0 .. s /\ (m = s <=> i = 1 /\ n = LastOf(k))
  <2>1. CASE n = LastOf(k)
    BY <1>4, <2>1
  <2>2. CASE n # LastOf(k)
    <3>1. n < LastOf(k)
      BY <1>3, <2>2
    <3> QED BY <1>4, <2>2, <3>1
  <2> QED BY <2>1, <2>2
<1>6. b * Inc <= (s - 1) * AccSize + Inc /\ s * AccSize + 3 * Inc <= e * Inc /\ b \in Nat /\ e \in Nat
  BY <1>2, Tolerances, Positive
<1>7. s \in Nat \ {0} /\ (m = s => a < Inc) /\ Within(p, m * AccSize + a)
  BY <1>4, <1>5
<1> HIDE DEF m, s, b, e
<1>8. p <= e /\ (p = e => m = s)
  BY <1>5, <1>6, <1>7, NotLate
<1>9. m = s => b <= p - 3
  <2> SUFFICES ASSUME m = s PROVE b <= p - 3
    OBVIOUS
  <2>1. Within(p, s * AccSize + a)
    BY <1>7
  <2> QED BY <1>6, <1>7, <2>1, NotEarly
<1> QED BY <1>5, <1>8, <1>9 DEF b, e

\* A glitch is over at its only sample.
LEMMA GlitchWindow ==
  ASSUME GlitchesEnd, NEW c \in Cfgs, NEW f, Brief(f), BaudInv,
         NEW p \in Nat, NEW k, NEW n, ReadingAt(f, c, p, k, n), baud.oversample_tick, n = LastOf(k)
  PROVE  k = 0 /\ f.width <= p - 3
<1>1. k = 0
  BY DEF ReadingAt, Samples, Brief
<1>2. /\ Nth(0) \in Nat \ {0} /\ TicksTo(0, LastOf(0)) + 1 = Nth(0)
  BY TicksToNth
<1>3. Nth(0) - 1 = HALF_LAST
  BY Positive DEF Nth
<1>4. f.width \in Nat /\ f.width * Inc <= HALF_LAST * AccSize + Inc
  BY LineInputs DEF GlitchesEnd, Brief
<1>5. Within(p, Nth(0) * AccSize + baud.acc)
  BY <1>1, <1>2 DEF ReadingAt, Ticking
<1>6. baud.acc \in 0 .. AccSize - 1
  BY DEF BaudInv, Baud!BaudTypeOK
<1> DEFINE b == f.width
           s == Nth(0)
           a == baud.acc
<1>7. s \in Nat \ {0} /\ b \in Nat /\ b * Inc <= (s - 1) * AccSize + Inc
      /\ a \in 0 .. AccSize - 1 /\ Within(p, s * AccSize + a)
  BY <1>2, <1>3, <1>4, <1>5, <1>6
<1> HIDE DEF b, s, a
<1>8. b <= p - 3
  BY <1>7, NotEarly
<1> QED BY <1>1, <1>8 DEF b

LEMMA Accumulated ==
  ASSUME BaudInv, NEW e, e = TRUE, Baud!BaudEdge(e, Inc), NEW p \in Nat, NEW n \in Nat,
         Within(p, n * AccSize + baud.acc)
  PROVE  BaudInv' /\ Within(p + 1, (n + Ticking') * AccSize + baud'.acc)
<1>1. BaudInv' /\ baud'.acc + Ticking' * AccSize = baud.acc + Inc
  BY BaudMoves
<1>2. baud.acc \in Nat /\ baud'.acc \in Nat /\ Ticking' \in 0 .. 1 /\ AccSize \in Nat /\ Inc \in Nat
  BY <1>1, Positive DEF BaudInv, Baud!BaudTypeOK, Ticking
<1> DEFINE a == baud.acc
           b == baud'.acc
           i == Ticking'
           x == n * AccSize + a
<1>3. a \in Nat /\ b \in Nat /\ i \in 0 .. 1 /\ b + i * AccSize = a + Inc
  BY <1>1, <1>2
<1> HIDE DEF a, b, i
<1>4. (n + i) * AccSize + b = x + Inc /\ x \in Int
  BY <1>2, <1>3, AccumulateMoves
<1>5. Within(p, x)
  BY DEF a
<1> HIDE DEF x
<1>6. Within(p + 1, x + Inc)
  BY <1>4, <1>5, WithinMoves
<1> QED BY <1>1, <1>4, <1>6 DEF b, i

\* No sample is due: the tick is counted.
LEMMA ReadingMoves ==
  ASSUME NEW c \in Config, NEW f, RxTypeOK, BaudInv, c.enable = TRUE, Baud!BaudEdge(c.enable, Inc),
         RxEdge(c, baud.oversample_tick), NEW p \in Nat, NEW k \in 0 .. FrameBits(c) - 1, NEW n,
         ReadingAt(f, c, p, k, n), ~(baud.oversample_tick /\ n = LastOf(k))
  PROVE  \E m : ReadingAt(f, c, p + 1, k, m)'
<1> DEFINE t == baud.oversample_tick
<1>0. PICK m : m = IF t THEN n + 1 ELSE n
  OBVIOUS
<1>1. t \in BOOLEAN
  BY DEF BaudInv, Baud!BaudTypeOK
<1>2. rx = Reading(f.levels, c, k, n) /\ RxEdge(c, t) /\ ~(t /\ n = LastOf(k))
  BY DEF ReadingAt
<1>3. rx' = Reading(f.levels, c, k, m)
  <2>1. rx' = Reading(f.levels, c, k, IF t THEN n + 1 ELSE n)
    <3> HIDE DEF t
    <3> QED BY <1>1, <1>2, ReadingWaits
  <2> QED BY <1>0, <2>1
<1>4. LastOf(k) \in Nat /\ n \in 0 .. LastOf(k) /\ k \in Nat
  BY Positive, FormatTypes DEF ReadingAt, LastOf
<1>5. m \in 0 .. LastOf(k)
  BY <1>0, <1>4 DEF ReadingAt
<1>6. TicksTo(k, m) = TicksTo(k, n) + Ticking /\ TicksTo(k, n) + Ticking \in Nat
  <2>1. TicksTo(k, n) \in Nat /\ TicksTo(k, n + 1) = TicksTo(k, n) + 1
    BY <1>4, TicksToNth
  <2> QED BY <1>0, <2>1 DEF Ticking
<1> HIDE DEF t
<1> DEFINE N == TicksTo(k, n) + Ticking
<1>7. Within(p, N * AccSize + baud.acc) /\ N \in Nat
  BY <1>6 DEF ReadingAt
<1> HIDE DEF N
<1>8. Within(p + 1, (N + Ticking') * AccSize + baud'.acc)
  BY <1>7, Accumulated
<1>9. Within(p + 1, (TicksTo(k, m) + Ticking') * AccSize + baud'.acc)
  BY <1>6, <1>8 DEF N
<1>10. p + 1 >= 4 /\ k \in 0 .. Samples(f, c) - 1
  BY DEF ReadingAt
<1>11. ReadingAt(f, c, p + 1, k, m)'
  <2> DEFINE x == (TicksTo(k, m) + Ticking') * AccSize + baud'.acc
  <2>1. Within(p + 1, x)
    BY <1>9
  <2> QED BY <1>3, <1>5, <1>10, <2>1 DEF ReadingAt
<1> QED BY <1>11

\* A sample is taken of the bit that it is meant for.
SampleOf(f, c, k) ==
  IF k < FrameBits(c) - 1 THEN rx' = Reading(f.levels, c, k + 1, 0)
  ELSE /\ rx'.state = "DONE" /\ ~rx'.start_armed /\ ~rx'.char_valid /\ rx'.events = NoErrors
       /\ Record' = f.record

LEMMA SampleTaken ==
  ASSUME NEW c \in Config, NEW f, Whole(f, c), RxTypeOK, NEW k \in 0 .. FrameBits(c) - 1,
         rx = Reading(f.levels, c, k, LastOf(k)), RxEdge(c, TRUE), rx_sync = f.levels[k + 1]
  PROVE  SampleOf(f, c, k)
<1> DEFINE s == f.levels
<1>1. /\ DataBits(c) \in 5 .. 8 /\ ParityBits(c) \in 0 .. 1 /\ StopsOf(c) \in 1 .. 2
      /\ FrameBits(c) = 1 + DataBits(c) + ParityBits(c) + StopsOf(c)
      /\ (parity_is_enabled(c.parity_mode) <=> ParityBits(c) = 1)
  BY FormatTypes
<1>2. s[1] = 0 /\ f.record = RecordOf(s, c) /\ rx = Reading(s, c, k, LastOf(k)) /\ rx_sync = s[k + 1]
  BY DEF Whole
<1> HIDE DEF s
<1>3. CASE k = 0
  <2>1. rx = Reading(s, c, 0, HALF_LAST) /\ rx_sync = 0
    BY <1>2, <1>3 DEF LastOf
  <2>2. rx' = Reading(s, c, 1, 0)
    BY <2>1, StartSample
  <2>3. k < FrameBits(c) - 1 /\ k + 1 = 1
    BY <1>1, <1>3
  <2> QED BY <2>2, <2>3 DEF SampleOf, s
<1>4. CASE k \in 1 .. DataBits(c)
  <2>1. LastOf(k) = BIT_LAST /\ k < FrameBits(c) - 1
    BY <1>1, <1>4 DEF LastOf
  <2>2. rx' = Reading(s, c, k + 1, 0)
    BY <1>2, <1>4, <2>1, DataSample
  <2> QED BY <2>1, <2>2 DEF SampleOf, s
<1>5. CASE k = DataBits(c) + 1 /\ parity_is_enabled(c.parity_mode)
  <2>1. LastOf(k) = BIT_LAST /\ k < FrameBits(c) - 1
    BY <1>1, <1>5 DEF LastOf
  <2>2. rx' = Reading(s, c, k + 1, 0)
    BY <1>2, <1>5, <2>1, ParitySample
  <2> QED BY <2>1, <2>2 DEF SampleOf, s
<1>6. CASE k >= DataBits(c) + ParityBits(c) + 1
  <2>1. LastOf(k) = BIT_LAST /\ k \in DataBits(c) + ParityBits(c) + 1 .. FrameBits(c) - 1
    BY <1>1, <1>6 DEF LastOf
  <2>2. StopSampleFacts(s, c, k)
    BY <1>2, <2>1, StopSample
  <2> QED BY <1>2, <2>2 DEF SampleOf, StopSampleFacts, s
<1>7. k = 0 \/ k \in 1 .. DataBits(c) \/ (k = DataBits(c) + 1 /\ parity_is_enabled(c.parity_mode))
      \/ k >= DataBits(c) + ParityBits(c) + 1
  BY <1>1
<1> QED BY <1>3, <1>4, <1>5, <1>6, <1>7

LEMMA SampleMoves ==
  ASSUME NEW c \in Config, NEW f, Whole(f, c), BaudInv, c.enable = TRUE, Baud!BaudEdge(c.enable, Inc),
         NEW p \in Nat, NEW k \in 0 .. FrameBits(c) - 2,
         ReadingAt(f, c, p, k, LastOf(k)), baud.oversample_tick, rx' = Reading(f.levels, c, k + 1, 0)
  PROVE  ReadingAt(f, c, p + 1, k + 1, 0)'
<1>1. k \in Nat /\ k + 1 \in 0 .. FrameBits(c) - 1 /\ Samples(f, c) = FrameBits(c)
  BY FormatTypes DEF Samples, Whole
<1>2. Nth(k) \in Nat /\ TicksTo(k, LastOf(k)) + 1 = Nth(k) /\ TicksTo(k + 1, 0) = Nth(k)
  BY <1>1, TicksToNth
<1>3. LastOf(k + 1) \in Nat /\ 0 \in 0 .. LastOf(k + 1)
  BY Positive DEF LastOf
<1>4. Within(p, Nth(k) * AccSize + baud.acc) /\ p >= 4
  BY <1>2 DEF ReadingAt, Ticking
<1>5. Within(p + 1, (Nth(k) + Ticking') * AccSize + baud'.acc)
  BY <1>2, <1>4, Accumulated
<1> DEFINE x == (TicksTo(k + 1, 0) + Ticking') * AccSize + baud'.acc
<1>6. Within(p + 1, x)
  BY <1>2, <1>5
<1>7. p + 1 >= 4
  BY <1>4
<1> QED BY <1>1, <1>3, <1>6, <1>7 DEF ReadingAt

-----------------------------------------------------------------------------
(* The inductive invariant.                                                 *)

Rising == sync[3] <= sync[2] /\ sync[2] <= sync[1]

\* Nothing is left on the line that could be taken for a start.
Over ==
  /\ Idle /\ Rising /\ sync[1] <= line
  /\ \A i, j \in 1 .. Len(rest) : i < j => rest[i] <= rest[j]
  /\ expected = Owed

\* f has begun; its start has not been found yet.
Begun(f, p) ==
  \/ /\ p = 0 /\ sync[1] = 1 /\ sync[3] <= sync[2]
     /\ \/ Idle /\ expected = Owed \o Own(f)
        \/ Finishing /\ expected = << Outcome >> \o Own(f)
  \/ p = 1 /\ sync[2] = 1 /\ Idle /\ expected = Owed \o Own(f)
  \/ p = 2 /\ sync[3] = 1 /\ Idle /\ rx.state = "IDLE" /\ expected = Owed \o Own(f)
  \/ p = 3 /\ rx.state = "IDLE" /\ rx.start_armed /\ ~rx.char_valid /\ expected = Own(f)

Receiving(f, c, p) == expected = Own(f) /\ \E k, n : ReadingAt(f, c, p, k, n)

Tracking(f, c, p) ==
  /\ Whole(f, c) \/ Brief(f)
  /\ p \in Nat /\ At(f, p) /\ SyncAt(f, p) /\ (Begun(f, p) \/ Receiving(f, c, p))

Phase == Over \/ \E f, c, p : cfg = c /\ Tracking(f, c, p)

LineInv == Rcv!RxInv /\ BaudInv /\ PeerTypeOK /\ cfg \in Cfgs /\ Pulses /\ Phase

LEMMA RcvTypes ==
  ASSUME Rcv!RxInv
  PROVE  RxTypeOK
BY SameReceiver DEF Rcv!RxInv

LEMMA OwedFacts ==
  ASSUME RxTypeOK
  PROVE  /\ Owed \in Seq(Records) /\ Len(Owed) <= 1 /\ Outcome \in Records
         /\ rx.char_valid => Owed = << Record >>
<1>1. Record \in Records
  BY DEF RxTypeOK, Record, Records
<1>2. Outcome \in Records
  <2> DEFINE low == rx.stop_low_seen \/ sync[3] = 0
             brk == low /\ rx.all_data_zero
             e   == [frame_error |-> low, parity_error |-> rx.errors.parity_error, break_detect |-> brk]
  <2>1. low \in BOOLEAN /\ brk \in BOOLEAN /\ rx.errors.parity_error \in BOOLEAN /\ rx.data \in Byte
    BY DEF RxTypeOK, Errors
  <2>2. Outcome = [data |-> rx.data, errors |-> e]
    BY DEF Outcome
  <2> HIDE DEF low, brk
  <2>3. e \in Errors
    BY <2>1 DEF Errors
  <2> QED BY <2>1, <2>2, <2>3 DEF Records
<1> DEFINE r == Record
<1>3. Owed = (IF rx.state = "DONE" \/ rx.char_valid THEN << r >> ELSE << >>)
  BY DEF Owed
<1> HIDE DEF r
<1>4. Owed \in Seq(Records) /\ Len(Owed) <= 1 /\ (rx.char_valid => Owed = << r >>)
  BY <1>1, <1>3 DEF r
<1> QED BY <1>2, <1>4 DEF r

LEMMA OwnFacts ==
  ASSUME NEW c \in Config, NEW f, Whole(f, c) \/ Brief(f)
  PROVE  Own(f) \in Seq(Records) /\ Len(Own(f)) <= 1
<1>1. Own(f) \in Seq(Records)
  BY DrivenFacts
<1> QED BY <1>1 DEF Own

\* The record handed over is the one expected.
LEMMA Answers ==
  ASSUME RxTypeOK, Pulses, cfg \in Config, expected \in Seq(Records), Phase
  PROVE  /\ Len(expected) <= 2
         /\ rx.char_valid => expected # << >> /\ Record = Head(expected)
         /\ Unread \in Seq(Records)
<1>1. /\ Owed \in Seq(Records) /\ Len(Owed) <= 1 /\ Outcome \in Records
      /\ rx.char_valid => Owed = << Record >>
  BY OwedFacts
<1>2. Record \in Records
  BY DEF RxTypeOK, Record, Records
<1>3. ASSUME NEW X \in Seq(Records), Len(X) <= 1, expected = Owed \o X
      PROVE  Len(expected) <= 2 /\ (rx.char_valid => expected # << >> /\ Record = Head(expected))
  <2> DEFINE o == Owed
             r == Record
  <2>1. o \in Seq(Records) /\ Len(o) <= 1 /\ expected = o \o X /\ (rx.char_valid => o = << r >>) /\ r \in Records
    BY <1>1, <1>2, <1>3
  <2> HIDE DEF o, r
  <2>2. Len(expected) <= 2
    BY <1>3, <2>1
  <2>3. rx.char_valid => expected # << >> /\ r = Head(expected)
    BY <1>3, <2>1
  <2> QED BY <2>2, <2>3 DEF r
<1>4. Len(expected) <= 2 /\ (rx.char_valid => expected # << >> /\ Record = Head(expected))
  <2>1. CASE Over
    <3>1. << >> \in Seq(Records) /\ Len(<< >>) <= 1 /\ Owed = Owed \o << >>
      <4> DEFINE o == Owed
      <4> HIDE DEF o
      <4> QED BY <1>1 DEF o
    <3> QED BY <1>3, <2>1, <3>1 DEF Over
  <2>2. CASE \E f, c, p : cfg = c /\ Tracking(f, c, p)
    <3>1. PICK f, p : Tracking(f, cfg, p)
      BY <2>2
    <3>2. Own(f) \in Seq(Records) /\ Len(Own(f)) <= 1
      BY <3>1, OwnFacts DEF Tracking
    <3>3. CASE expected = Owed \o Own(f)
      BY <1>3, <3>2, <3>3
    <3>4. CASE expected = Own(f) /\ ~rx.char_valid
      BY <3>2, <3>4
    <3>5. CASE expected = << Outcome >> \o Own(f) /\ ~rx.char_valid
      <4> DEFINE o == Outcome
                 X == Own(f)
      <4> HIDE DEF o, X
      <4> QED BY <1>1, <3>2, <3>5 DEF o, X
    <3>6. ASSUME Receiving(f, cfg, p) PROVE expected = Own(f) /\ ~rx.char_valid
      <4>1. PICK k, n : ReadingAt(f, cfg, p, k, n)
        BY <3>6 DEF Receiving
      <4>2. ~rx.char_valid
        BY <4>1 DEF ReadingAt, Reading
      <4> QED BY <3>6, <4>2 DEF Receiving
    <3> QED BY <3>1, <3>3, <3>4, <3>5, <3>6 DEF Tracking, Begun, Finishing
  <2> QED BY <2>1, <2>2 DEF Phase
<1>5. Unread \in Seq(Records)
  BY <1>4 DEF Unread
<1> QED BY <1>4, <1>5

-----------------------------------------------------------------------------
(* A step from each phase.                                                  *)

Edge ==
  /\ RxTypeOK /\ BaudInv /\ PeerTypeOK /\ Pulses /\ Unread \in Seq(Records)
  /\ cfg \in Cfgs /\ cfg \in Config /\ cfg.enable = TRUE /\ cfg.rx_enable = TRUE
  /\ Design /\ Peer /\ cfg' = cfg

LEMMA EdgeFacts ==
  ASSUME Edge
  PROVE  /\ sync[1] \in Bit /\ sync[2] \in Bit /\ sync[3] \in Bit
         /\ rest \in Seq(Bit) /\ line \in Bit
         /\ sync'[1] = line /\ sync'[2] = sync[1] /\ sync'[3] = sync[2]
         /\ RxEdge(cfg, baud.oversample_tick) /\ Baud!BaudEdge(cfg.enable, Inc) /\ SyncEdge(line)
         /\ baud.oversample_tick \in BOOLEAN
<1>1. rest \in Seq(Bit) /\ line \in Bit
  BY DEF Edge, PeerTypeOK, line, Bit
<1>2. RxEdge(cfg, baud.oversample_tick) /\ Baud!BaudEdge(cfg.enable, Inc) /\ SyncEdge(line)
  BY DEF Edge, Design
<1>3. sync'[1] = line /\ sync'[2] = sync[1] /\ sync'[3] = sync[2]
  BY <1>2, SyncFacts
<1>4. sync[1] \in Bit /\ sync[2] \in Bit /\ sync[3] \in Bit /\ baud.oversample_tick \in BOOLEAN
  BY DEF Edge, RxTypeOK, BaudInv, Baud!BaudTypeOK
<1> QED BY <1>1, <1>2, <1>3, <1>4

LEMMA TrackingPhase ==
  ASSUME NEW c, cfg' = c, NEW f, NEW p \in Nat, Whole(f, c) \/ Brief(f), At(f, p)', SyncAt(f, p)',
         Begun(f, p)' \/ Receiving(f, c, p)'
  PROVE  Phase'
<1>1. Tracking(f, c, p)'
  BY DEF Tracking, Whole, Brief
<1> QED BY <1>1 DEF Phase

LEMMA BeginsPhase ==
  ASSUME cfg' = cfg, NEW g, Whole(g, cfg) \/ Brief(g), Starts(g), Begun(g, 0)'
  PROVE  Phase'
<1>1. SyncAt(g, 0)'
  BY DEF SyncAt
<1>2. At(g, 0)' /\ 0 \in Nat
  BY DEF Starts
<1>3. PICK c : c = cfg
  OBVIOUS
<1> QED BY <1>1, <1>2, <1>3, TrackingPhase

LEMMA IdleBegins ==
  ASSUME Edge, NEW g, Whole(g, cfg) \/ Brief(g), Starts(g), Idle', Unread = Owed', line = 1,
         sync[2] <= sync[1]
  PROVE  Phase'
<1>1. sync'[1] = 1 /\ sync'[3] <= sync'[2]
  BY EdgeFacts
<1>2. (expected = Owed \o Own(g))'
  BY DEF Starts
<1>3. Begun(g, 0)'
  BY <1>1, <1>2 DEF Begun
<1> QED BY <1>3, BeginsPhase DEF Edge

\* Between frames.
LEMMA OverMoves ==
  ASSUME Edge, Over
  PROVE  Phase' /\ Pulses'
<1>1. sync[3] <= sync[2] /\ sync[2] <= sync[1] /\ sync[1] <= line /\ Idle /\ expected = Owed
      /\ \A i, j \in 1 .. Len(rest) : i < j => rest[i] <= rest[j]
  BY DEF Over, Rising
<1>2. Pulses' /\ Idle' /\ rx'.state = "IDLE" /\ Unread = Owed'
  <2>1. Owed \o << >> = Owed /\ << >> \in Seq(Records)
    <3> DEFINE o == Owed
    <3>1. o \in Seq(Records)
      BY OwedFacts DEF Edge
    <3> HIDE DEF o
    <3> QED BY <3>1 DEF o
  <2>2. expected = Owed \o << >>
    BY <1>1, <2>1
  <2>3. Pulses' /\ Idle' /\ rx'.state = "IDLE" /\ Unread = Owed' \o << >>
    BY <1>1, <2>1, <2>2, EdgeFacts, IdleMoves DEF Edge
  <2>4. Owed' = << >> \/ Owed' = << Record' >>
    BY DEF Owed
  <2> QED BY <2>3, <2>4
<1>3. sync'[3] <= sync'[2] /\ sync'[2] <= sync'[1] /\ sync'[1] = line
  BY <1>1, EdgeFacts
<1>4. CASE Begins
  <2>1. PICK g \in Frames \cup Breakage \cup Noise : Begin(g)
    BY <1>4 DEF Begins
  <2>2. (Whole(g, cfg) \/ Brief(g)) /\ Starts(g)
    BY <2>1, BeginsIs DEF Edge
  <2>3. line = 1
    BY <1>4 DEF Begins
  <2> QED BY <1>1, <1>2, <2>2, <2>3, IdleBegins
<1>5. CASE Rests \/ Drives
  <2>1. expected' = Unread
    BY <1>5 DEF Rests, Drives
  <2>2. line <= line' /\ \A i, j \in 1 .. Len(rest') : i < j => rest'[i] <= rest'[j]
    <3>1. CASE Rests
      <4>1. rest' = << >> /\ line' = 1
        BY <3>1 DEF Rests, line
      <4> QED BY <4>1, EdgeFacts DEF Bit
    <3>2. CASE Drives
      <4>1. rest # << >> /\ rest \in Seq(Bit)
        BY <3>2, EdgeFacts DEF Drives
      <4>2. CASE rest' = rest
        BY <1>1, <4>2, EdgeFacts DEF line, Bit
      <4>3. CASE rest' = Tail(rest)
        <5>1. Len(rest') = Len(rest) - 1 /\ Len(rest) \in Nat \ {0}
              /\ \A i \in 1 .. Len(rest') : rest'[i] = rest[i + 1]
          BY <4>1, <4>3
        <5>2. \A i, j \in 1 .. Len(rest') : i < j => rest'[i] <= rest'[j]
          <6> SUFFICES ASSUME NEW i \in 1 .. Len(rest'), NEW j \in 1 .. Len(rest'), i < j
                       PROVE  rest'[i] <= rest'[j]
            OBVIOUS
          <6>1. i + 1 \in 1 .. Len(rest) /\ j + 1 \in 1 .. Len(rest) /\ i + 1 < j + 1
            BY <5>1
          <6>2. rest[i + 1] <= rest[j + 1]
            BY <1>1, <6>1
          <6> QED BY <5>1, <6>2
        <5>3. line <= line'
          <6>1. CASE rest' = << >>
            BY <6>1, EdgeFacts DEF line, Bit
          <6>2. CASE rest' # << >>
            <7>1. Len(rest') >= 1 /\ line = rest[1] /\ line' = rest'[1]
              BY <4>1, <4>3, <5>1, <6>2 DEF line
            <7>2. rest'[1] = rest[2] /\ 1 \in 1 .. Len(rest) /\ 2 \in 1 .. Len(rest) /\ 1 < 2
              BY <5>1, <7>1
            <7> QED BY <1>1, <7>1, <7>2
          <6> QED BY <6>1, <6>2
        <5> QED BY <5>2, <5>3
      <4> QED BY <3>2, <4>2, <4>3 DEF Drives
    <3> QED BY <1>5, <3>1, <3>2
  <2>3. Over'
    BY <1>2, <1>3, <2>1, <2>2 DEF Over, Rising
  <2> QED BY <1>2, <2>3 DEF Phase
<1> QED BY <1>2, <1>4, <1>5 DEF Edge, Peer

\* The first clocks of a frame are not its last.
LEMMA BeginningStays ==
  ASSUME Edge, Tolerated, NEW f, NEW p \in 0 .. 3, Whole(f, cfg) \/ Brief(f), At(f, p), SyncAt(f, p)
  PROVE  At(f, p + 1)' /\ SyncAt(f, p + 1)' /\ expected' = Unread
<1>1. Driven(f) /\ rest \in Seq(Bit) /\ cfg \in Config /\ Unread \in Seq(Records) /\ Peer
  BY DrivenFacts DEF Edge, PeerTypeOK
<1>2. BitClks \in Nat /\ BitClks >= 5
  BY BitIsLong, Positive DEF Edge
<1>3. f.width \in Nat \ {0} /\ Len(f.levels) \in Nat /\ 1 * f.width <= Len(f.levels) * f.width
  <2>1. f.width \in Nat \ {0} /\ Len(f.levels) \in Nat \ {0} /\ 1 <= Len(f.levels)
    BY <1>1 DEF Driven
  <2> QED BY <2>1, Times
<1>4. Len(f.levels) * f.width > 4
  <2>1. CASE Whole(f, cfg)
    <3>1. f.width = BitClks
      BY <2>1 DEF Whole
    <3> QED BY <1>2, <1>3, <3>1
  <2>2. CASE Brief(f)
    <3>1. Len(f.levels) = 1 + BitClks
      BY <2>2 DEF Brief
    <3>2. 6 * f.width <= Len(f.levels) * f.width
      <4>1. 6 <= Len(f.levels)
        BY <1>2, <3>1
      <4> QED BY <1>3, <4>1, Times
    <3> QED BY <1>3, <3>2
  <2> QED BY <2>1, <2>2
<1>5. ~(p + 1 >= Len(f.levels) * f.width)
  BY <1>3, <1>4
<1>6. At(f, p + 1)' /\ expected' = Unread
  <2>1. p \in Nat
    OBVIOUS
  <2> QED BY <1>1, <1>5, <2>1, PeerMoves
<1>7. SyncAt(f, p + 1)'
  BY <1>1, EdgeFacts, SyncMoves
<1> QED BY <1>6, <1>7

\* The synchroniser shows the start of f.
LEMMA StartIsLow ==
  ASSUME NEW c \in Config, NEW f, Whole(f, c) \/ Brief(f), NEW p \in Nat, SyncAt(f, p), p = 3
  PROVE  sync[3] = 0
<1>1. Driven(f) /\ f.levels[1] = 0
  BY DrivenFacts
<1>2. f.width \in Nat \ {0} /\ 1 \in 1 .. Len(f.levels)
  BY <1>1 DEF Driven
<1>3. (1 - 1) * f.width <= 0 /\ 0 < 1 * f.width
  BY <1>2
<1>4. LevelIs(f, 0, sync[3])
  <2>1. 3 \in 1 .. 3 /\ p - 3 = 0 /\ 3 <= p
    OBVIOUS
  <2>2. LevelIs(f, p - 3, sync[3])
    BY <2>1 DEF SyncAt
  <2> QED BY <2>1, <2>2
<1>5. sync[3] = f.levels[1]
  BY <1>1, <1>2, <1>3, <1>4, LevelIsOne
<1> QED BY <1>1, <1>5

\* While f begins.
LEMMA BegunMoves ==
  ASSUME Edge, Tolerated, NEW f, NEW p \in Nat, Whole(f, cfg) \/ Brief(f), At(f, p), SyncAt(f, p), Begun(f, p)
  PROVE  Phase' /\ Pulses'
<1>1. p \in 0 .. 3
  BY DEF Begun
<1>2. At(f, p + 1)' /\ SyncAt(f, p + 1)' /\ expected' = Unread
  BY <1>1, BeginningStays
<1>3. PICK c : c = cfg
  OBVIOUS
<1>4. /\ sync[1] \in Bit /\ sync[2] \in Bit /\ sync[3] \in Bit /\ baud.oversample_tick \in BOOLEAN
      /\ sync'[2] = sync[1] /\ sync'[3] = sync[2]
      /\ RxEdge(cfg, baud.oversample_tick) /\ Baud!BaudEdge(cfg.enable, Inc) /\ SyncEdge(line)
      /\ RxTypeOK /\ Pulses /\ Own(f) \in Seq(Records)
      /\ BaudInv /\ cfg \in Config /\ cfg.enable = TRUE /\ cfg.rx_enable = TRUE /\ cfg' = cfg
  BY EdgeFacts, DrivenFacts DEF Edge
<1>5. ASSUME Begun(f, p + 1)' \/ Receiving(f, c, p + 1)' PROVE Phase'
  <2>1. p + 1 \in Nat /\ cfg' = c /\ (Whole(f, c) \/ Brief(f))
    BY <1>3, <1>4
  <2> DEFINE q == p + 1
  <2>2. q \in Nat /\ At(f, q)' /\ SyncAt(f, q)' /\ (Begun(f, q)' \/ Receiving(f, c, q)')
    BY <1>2, <1>5, <2>1
  <2> HIDE DEF q
  <2> QED BY <2>1, <2>2, TrackingPhase
<1>6. ASSUME Idle, sync[3] <= sync[2], expected = Owed \o Own(f)
      PROVE  Pulses' /\ Idle' /\ rx'.state = "IDLE" /\ expected' = Owed' \o Own(f)
  BY <1>2, <1>4, <1>6, IdleMoves
<1>7. CASE p = 0 /\ sync[1] = 1 /\ sync[3] <= sync[2] /\ Idle /\ expected = Owed \o Own(f)
  <2>1. Pulses' /\ Idle' /\ expected' = Owed' \o Own(f) /\ sync'[2] = 1 /\ p + 1 = 1
    BY <1>4, <1>6, <1>7
  <2>2. Begun(f, p + 1)'
    BY <2>1 DEF Begun
  <2> QED BY <1>5, <2>1, <2>2
<1>8. CASE p = 0 /\ sync[1] = 1 /\ Finishing /\ expected = << Outcome >> \o Own(f)
  <2>1. baud.oversample_tick = TRUE
    BY <1>4, <1>8 DEF Finishing
  <2>2. /\ rx'.state = "DONE" /\ ~rx'.start_armed /\ ~rx'.char_valid /\ rx'.events = NoErrors
        /\ Record' = Outcome
    BY <1>4, <1>8, <2>1, Finishes
  <2>3. Unread = expected
    BY <1>8 DEF Finishing, Unread
  <2>4. Owed' = << Outcome >>
    BY <2>2 DEF Owed
  <2>5. expected' = Owed' \o Own(f)
    BY <1>2, <1>8, <2>3, <2>4
  <2>6. Pulses' /\ Idle'
    BY <2>2 DEF Pulses, Idle
  <2>7. Begun(f, p + 1)'
    <3>1. sync'[2] = 1 /\ p + 1 = 1
      BY <1>4, <1>8
    <3> QED BY <2>5, <2>6, <3>1 DEF Begun
  <2> QED BY <1>5, <2>6, <2>7
<1>9. CASE p = 1 /\ sync[2] = 1 /\ Idle /\ expected = Owed \o Own(f)
  <2>1. sync[3] <= sync[2]
    BY <1>4, <1>9 DEF Bit
  <2>2. Pulses' /\ Idle' /\ rx'.state = "IDLE" /\ expected' = Owed' \o Own(f) /\ sync'[3] = 1 /\ p + 1 = 2
    BY <1>4, <1>6, <1>9, <2>1
  <2>3. Begun(f, p + 1)'
    BY <2>2 DEF Begun
  <2> QED BY <1>5, <2>2, <2>3
<1>10. CASE p = 2 /\ sync[3] = 1 /\ Idle /\ rx.state = "IDLE" /\ expected = Owed \o Own(f)
  <2>1. RxIdle(cfg)
    BY <1>4, <1>10 DEF RxEdge, RxDetect, RxWait, RxStart, RxData, RxParity, RxStop, RxDone, Sampling, rx_sync
  <2>2. /\ rx'.state = "IDLE" /\ rx'.char_valid = FALSE /\ rx'.events = NoErrors /\ rx'.start_armed
    BY <1>4, <1>10, <2>1, IdleRests DEF rx_sync
  <2>3. Unread = Own(f)
    <3>1. CASE rx.char_valid
      <4>1. Owed = << Record >> /\ Record \in Records
        BY <1>4, <3>1, OwedFacts DEF RxTypeOK, Record, Records
      <4> DEFINE r == Record
                 X == Own(f)
      <4> HIDE DEF r, X
      <4>2. Tail(<< r >> \o X) = X
        BY <1>4, <4>1 DEF r, X
      <4> QED BY <1>10, <3>1, <4>1, <4>2 DEF Unread, r, X
    <3>2. CASE ~rx.char_valid
      <4>1. Owed = << >>
        BY <1>10, <3>2 DEF Owed
      <4> DEFINE X == Own(f)
      <4> HIDE DEF X
      <4>2. << >> \o X = X
        BY <1>4 DEF X
      <4> QED BY <1>10, <3>2, <4>1, <4>2 DEF Unread, X
    <3> QED BY <3>1, <3>2
  <2>4. Begun(f, p + 1)'
    <3>1. p + 1 = 3
      BY <1>10
    <3> QED BY <1>2, <2>2, <2>3, <3>1 DEF Begun
  <2> QED BY <1>5, <2>2, <2>4 DEF Pulses
<1>11. CASE p = 3 /\ rx.state = "IDLE" /\ rx.start_armed /\ ~rx.char_valid /\ expected = Own(f)
  <2>1. sync[3] = 0
    BY <1>4, <1>11, StartIsLow
  <2>2. RxDetect(cfg)
    BY <1>4, <1>11, <2>1 DEF RxEdge, RxIdle, RxWait, RxStart, RxData, RxParity, RxStop, RxDone, Sampling, rx_sync
  <2>3. rx' = Reading(f.levels, c, 0, 0)
    BY <1>3, <1>4, <2>2, DetectReads
  <2>4. Within(p + 1, (TicksTo(0, 0) + Ticking') * AccSize + baud'.acc)
    <3>1. BaudInv' /\ baud'.acc + Ticking' * AccSize = baud.acc + Inc
      BY <1>4, BaudMoves
    <3>2. Ticking' \in 0 .. 1 /\ baud'.acc \in Nat /\ baud.acc \in 0 .. AccSize - 1 /\ AccSize \in Nat /\ Inc \in Nat
      BY <1>4, <3>1, Positive DEF BaudInv, Baud!BaudTypeOK, Ticking
    <3> DEFINE i == Ticking'
               x == i * AccSize
    <3>3. i \in 0 .. 1 /\ baud'.acc + x = baud.acc + Inc
      BY <3>1, <3>2
    <3> HIDE DEF i
    <3>4. TicksTo(0, 0) + i = i /\ x \in Nat
      BY <3>2, <3>3 DEF TicksTo
    <3>5. p + 1 - 3 = 1 /\ 1 * Inc = Inc
      BY <1>11, <3>2
    <3>6. Within(p + 1, x + baud'.acc)
      <4> HIDE DEF x
      <4> QED BY <3>2, <3>3, <3>4, <3>5 DEF Within
    <3> QED BY <3>4, <3>6 DEF i
  <2>5. ReadingAt(f, c, p + 1, 0, 0)'
    <3>1. 0 \in 0 .. Samples(f, c) - 1
      BY <1>3, <1>4, FormatTypes DEF Samples
    <3>2. 0 \in 0 .. LastOf(0) /\ p + 1 >= 4
      BY <1>11, Positive DEF LastOf
    <3> DEFINE x == (TicksTo(0, 0) + Ticking') * AccSize + baud'.acc
    <3>3. Within(p + 1, x)
      BY <2>4
    <3> QED BY <2>3, <3>1, <3>2, <3>3 DEF ReadingAt
  <2>6. Receiving(f, c, p + 1)'
    <3>1. Unread = Own(f)
      BY <1>11 DEF Unread
    <3> QED BY <1>2, <2>5, <3>1 DEF Receiving
  <2>7. Pulses'
    <3>1. rx'.char_valid = FALSE /\ rx'.events = NoErrors
      BY <2>3 DEF Reading
    <3> QED BY <3>1 DEF Pulses
  <2> QED BY <1>5, <2>6, <2>7
<1> QED BY <1>7, <1>8, <1>9, <1>10, <1>11 DEF Begun

LEMMA FinalRises ==
  ASSUME NEW c \in Config, NEW f, Whole(f, c) \/ Brief(f)
  PROVE  RisesFrom(f, FinalBit(f, c)) /\ FinalBit(f, c) \in Nat \ {0}
<1>1. FrameBits(c) \in Nat \ {0}
  BY FormatTypes
<1>2. CASE Whole(f, c)
  BY <1>1, <1>2 DEF Whole, FinalBit, RisesFrom
<1>3. CASE Brief(f)
  <2>1. FinalBit(f, c) = 2 /\ \A i \in 2 .. Len(f.levels) : f.levels[i] = 1
    BY <1>3 DEF Brief, FinalBit
  <2> QED BY <2>1 DEF RisesFrom
<1> QED BY <1>2, <1>3

\* What the synchroniser shows when the rest of f only rises.
LEMMA SyncRises ==
  ASSUME Edge, NEW f, Whole(f, cfg) \/ Brief(f), NEW p \in Nat, p >= 2, At(f, p), SyncAt(f, p),
         (FinalBit(f, cfg) - 1) * f.width <= p - 2
  PROVE  /\ sync[2] <= sync[1] /\ sync[1] <= line
         /\ LevelIs(f, p, line) /\ LevelIs(f, p - 2, sync[2])
<1>1. Driven(f) /\ rest \in Seq(Bit) /\ RisesFrom(f, FinalBit(f, cfg)) /\ FinalBit(f, cfg) \in Nat \ {0}
  BY DrivenFacts, FinalRises DEF Edge, PeerTypeOK
<1>2. LevelIs(f, p, line)
  BY <1>1, LineLevel
<1>3. LevelIs(f, p - 1, sync[1]) /\ LevelIs(f, p - 2, sync[2])
  BY DEF SyncAt
<1> DEFINE n == FinalBit(f, cfg)
           x == (n - 1) * f.width
<1>4. x <= p - 2 /\ x \in Int
  BY <1>1, Times DEF Driven
<1>5. x <= p - 1
  BY <1>4
<1> HIDE DEF n
<1>6. p - 2 \in Int /\ p - 1 \in Int /\ p \in Int /\ p - 2 <= p - 1 /\ p - 1 <= p
  OBVIOUS
<1>7. n \in Nat \ {0} /\ RisesFrom(f, n) /\ (n - 1) * f.width <= p - 2 /\ (n - 1) * f.width <= p - 1
  BY <1>1, <1>4, <1>5 DEF n
<1> HIDE DEF x
<1>8. sync[2] <= sync[1]
  BY <1>1, <1>3, <1>6, <1>7, LevelRises
<1>9. sync[1] <= line
  BY <1>1, <1>2, <1>3, <1>6, <1>7, LevelRises
<1> QED BY <1>2, <1>3, <1>8, <1>9

\* The last sample is taken, and only a new frame falls again.
LEMMA Settles ==
  ASSUME Edge, NEW f, Whole(f, cfg) \/ Brief(f), NEW p \in Nat, p >= 4, At(f, p), SyncAt(f, p),
         (FinalBit(f, cfg) - 1) * f.width <= p - 3, Idle', Unread = Owed'
  PROVE  Phase'
<1>1. /\ Driven(f) /\ rest \in Seq(Bit) /\ RisesFrom(f, FinalBit(f, cfg)) /\ FinalBit(f, cfg) \in Nat \ {0}
      /\ cfg \in Config /\ Unread \in Seq(Records) /\ Peer /\ PeerTypeOK
  BY DrivenFacts, FinalRises DEF Edge, PeerTypeOK
<1> DEFINE n == FinalBit(f, cfg)
           x == (n - 1) * f.width
<1>2. x <= p - 3 /\ x \in Int
  BY <1>1, Times DEF Driven
<1>3. x <= p - 2 /\ x <= p /\ x <= p + 1
  BY <1>2
<1>4. sync[2] <= sync[1] /\ sync[1] <= line /\ LevelIs(f, p, line)
  <2>1. p >= 2 /\ (FinalBit(f, cfg) - 1) * f.width <= p - 2
    BY <1>3
  <2> QED BY <2>1, SyncRises
<1>5. CASE p + 1 >= Len(f.levels) * f.width /\ line = 1 /\ \E g : (Whole(g, cfg) \/ Brief(g)) /\ Starts(g)
  BY <1>4, <1>5, IdleBegins
<1>6. CASE At(f, p + 1)' /\ expected' = Unread
  <2>1. rest' \in Seq(Bit)
    BY <1>1, PeerTypes DEF PeerTypeOK
  <2>2. Driving(f, p + 1, rest', clk')
    BY <1>6 DEF At, Driving
  <2>3. PICK r, k : r = rest' /\ k = clk' /\ r \in Seq(Bit)
    BY <2>1
  <2>4. Driving(f, p + 1, r, k) /\ p + 1 \in Nat /\ r \in Seq(Bit)
    BY <2>2, <2>3
  <2>5. LevelIs(f, p + 1, line')
    <3>1. LevelIs(f, p + 1, IF r = << >> THEN 1 ELSE Head(r))
      BY <1>1, <2>4, DrivenLevel
    <3> QED BY <2>3, <3>1 DEF line
  <2>6. n \in Nat \ {0} /\ RisesFrom(f, n) /\ (n - 1) * f.width <= p /\ (n - 1) * f.width <= p + 1
        /\ p <= p + 1 /\ p \in Int /\ p + 1 \in Int
    BY <1>1, <1>3
  <2> HIDE DEF n, x
  <2>7. line <= line'
    BY <1>1, <1>4, <2>5, <2>6, LevelRises
  <2>8. \A i, j \in 1 .. Len(rest') : i < j => rest'[i] <= rest'[j]
    <3>1. \A i, j \in 1 .. Len(r) : i < j => r[i] <= r[j]
      BY <1>1, <2>4, <2>6, RestRises
    <3> QED BY <2>3, <3>1
  <2>9. (sync[3] <= sync[2] /\ sync[2] <= sync[1] /\ sync[1] <= line)'
    BY <1>4, <2>7, EdgeFacts, SyncRises, <1>3
  <2> QED BY <1>6, <2>8, <2>9 DEF Phase, Over, Rising
<1> QED BY <1>1, <1>5, <1>6, PeerMoves

\* While f is received, nothing else is.
LEMMA ReadingQuiet ==
  ASSUME NEW s, NEW c, NEW k, NEW n, rx = Reading(s, c, k, n)
  PROVE  rx.char_valid = FALSE /\ rx.events = NoErrors /\ rx.start_armed = FALSE
BY DEF Reading

\* The last sample of f is due when the next frame begins.
LEMMA ReadingFinishes ==
  ASSUME NEW c \in Config, NEW f, Whole(f, c), NEW k, k = FrameBits(c) - 1,
         rx' = Reading(f.levels, c, k, BIT_LAST), baud'.oversample_tick,
         sync'[3] = f.levels[k + 1]
  PROVE  Finishing' /\ Outcome' = f.record
<1> DEFINE s == f.levels
<1>1. /\ DataBits(c) \in 5 .. 8 /\ ParityBits(c) \in 0 .. 1 /\ StopsOf(c) \in 1 .. 2
      /\ FrameBits(c) = 1 + DataBits(c) + ParityBits(c) + StopsOf(c)
  BY FormatTypes
<1>2. k \in 0 .. FrameBits(c) - 1 /\ k >= DataBits(c) + ParityBits(c) + 1 /\ k + 1 = FrameBits(c)
      /\ k \notin 1 .. DataBits(c) /\ k \in Nat
  BY <1>1
<1>3. StateAt(c, k) = "STOP"
  BY <1>2, StateFacts
<1>4. StopAt(c, k) = StopsOf(c) - 1
  BY <1>1, <1>2, <1>3 DEF StopAt
<1>5. DataOf(s, c, k) = DataOf(s, c, FrameBits(c)) /\ BadParity(s, c, k) = BadParity(s, c, FrameBits(c))
  BY <1>2, DataSame, ParityMore
<1>6. StopLow(s, c, FrameBits(c)) <=> StopLow(s, c, k) \/ s[k + 1] = 0
  BY <1>2, StopMore
<1> DEFINE z   == DataOf(s, c, k) = Zero
           sl  == StopLow(s, c, k)
<1>7. /\ rx'.state = "STOP" /\ rx'.stop_bit_index = rx'.stop_bits - 1 /\ rx'.sample_count = BIT_LAST
      /\ rx'.data = DataOf(s, c, k) /\ rx'.all_data_zero = z /\ rx'.stop_low_seen = sl
      /\ rx'.errors = ErrorsAt(s, c, k) /\ ~rx'.start_armed /\ ~rx'.char_valid
  BY <1>3, <1>4 DEF Reading
<1>8. rx'.errors.frame_error = sl /\ rx'.errors.parity_error = BadParity(s, c, k)
  BY <1>7 DEF ErrorsAt
<1>9. Finishing'
  <2> HIDE DEF sl, z
  <2> QED BY <1>7, <1>8 DEF Finishing
<1>10. Outcome' = f.record
  <2> DEFINE low  == rx'.stop_low_seen \/ sync'[3] = 0
             all  == StopLow(s, c, FrameBits(c))
             brk  == low /\ rx'.all_data_zero
             brk2 == all /\ DataOf(s, c, FrameBits(c)) = Zero
  <2>1. low <=> all
    BY <1>6, <1>7
  <2>2. low \in BOOLEAN /\ all \in BOOLEAN
    BY <1>7 DEF StopLow
  <2>3. z <=> DataOf(s, c, FrameBits(c)) = Zero
    BY <1>5
  <2>4. brk <=> brk2
    BY <1>7, <2>1, <2>3
  <2>5. brk \in BOOLEAN /\ brk2 \in BOOLEAN
    BY <2>2
  <2>6. Outcome' = [data |-> rx'.data,
                    errors |-> [frame_error |-> low, parity_error |-> rx'.errors.parity_error,
                                break_detect |-> brk]]
    BY DEF Outcome
  <2>7. f.record = [data |-> DataOf(s, c, FrameBits(c)),
                    errors |-> [frame_error |-> all, parity_error |-> BadParity(s, c, FrameBits(c)),
                                break_detect |-> brk2]]
    BY DEF Whole, RecordOf
  <2>8. low = all /\ brk = brk2
    <3> HIDE DEF low, all, brk, brk2
    <3> QED BY <2>1, <2>2, <2>4, <2>5
  <2> HIDE DEF low, all, brk, brk2, z, sl
  <2> QED BY <1>5, <1>7, <1>8, <2>6, <2>7, <2>8
<1> QED BY <1>9, <1>10

\* A tick short of a sample.
LEMMA ReceivingWaits ==
  ASSUME Edge, Tolerated, NEW f, NEW p \in Nat, Whole(f, cfg) \/ Brief(f), At(f, p), SyncAt(f, p),
         expected = Own(f), NEW k, NEW n, ReadingAt(f, cfg, p, k, n), ~(baud.oversample_tick /\ n = LastOf(k))
  PROVE  Phase' /\ Pulses'
<1>1. PICK c : c = cfg
  OBVIOUS
<1>2. /\ c \in Cfgs /\ c \in Config /\ cfg' = c /\ Driven(f) /\ rest \in Seq(Bit)
      /\ Unread \in Seq(Records) /\ Peer /\ BaudInv /\ RxTypeOK /\ c.enable = TRUE
      /\ RxEdge(c, baud.oversample_tick) /\ Baud!BaudEdge(c.enable, Inc)
      /\ (Whole(f, c) \/ Brief(f)) /\ ReadingAt(f, c, p, k, n)
  BY <1>1, EdgeFacts, DrivenFacts DEF Edge
<1>3. FrameBits(c) \in 7 .. 12 /\ BitClks \in Nat /\ BitClks >= 5
  BY <1>2, FormatTypes, BitIsLong, Positive
<1>4. k \in 0 .. FrameBits(c) - 1 /\ k \in Nat /\ p >= 4
  BY <1>2, <1>3 DEF ReadingAt, Samples
<1>5. PICK m : ReadingAt(f, c, p + 1, k, m)'
  BY <1>2, <1>4, ReadingMoves
<1>6. rx' = Reading(f.levels, c, k, m)
  BY <1>5 DEF ReadingAt
<1>7. Pulses'
  <2>1. rx'.char_valid = FALSE /\ rx'.events = NoErrors
    BY <1>6 DEF Reading
  <2> QED BY <2>1 DEF Pulses
<1>8. Unread = Own(f)
  <2>1. rx.char_valid = FALSE
    BY <1>2 DEF ReadingAt, Reading
  <2> QED BY <2>1 DEF Unread
<1>9. SyncAt(f, p + 1)' /\ p + 1 \in Nat
  BY <1>2, EdgeFacts, SyncMoves
<1>10. CASE At(f, p + 1)' /\ expected' = Unread
  <2> DEFINE q == p + 1
  <2>1. Receiving(f, c, q)'
    BY <1>5, <1>8, <1>10 DEF Receiving
  <2>2. q \in Nat /\ At(f, q)' /\ SyncAt(f, q)'
    BY <1>9, <1>10
  <2> HIDE DEF q
  <2>3. Phase'
    BY <1>2, <2>1, <2>2, TrackingPhase
  <2> QED BY <1>7, <2>3
<1>11. CASE p + 1 >= Len(f.levels) * f.width /\ line = 1 /\ \E g : (Whole(g, cfg) \/ Brief(g)) /\ Starts(g)
  <2>1. BaudInv'
    BY <1>2, BaudMoves
  <2>2. PICK i, a : i = Ticking' /\ a = baud'.acc
    OBVIOUS
  <2>3. i \in 0 .. 1 /\ a \in 0 .. AccSize - 1 /\ (i = 1 => a < Inc) /\ (i = 1 <=> baud'.oversample_tick)
    BY <2>1, <2>2 DEF BaudInv, Baud!BaudTypeOK, Ticking
  <2>4. /\ k \in 0 .. Samples(f, c) - 1 /\ m \in 0 .. LastOf(k)
        /\ Within(p + 1, (TicksTo(k, m) + i) * AccSize + a)
    <3>1. (k \in 0 .. Samples(f, c) - 1) /\ (m \in 0 .. LastOf(k))
      BY <1>5 DEF ReadingAt
    <3>2. Within(p + 1, (TicksTo(k, m) + Ticking') * AccSize + baud'.acc)
      <4> DEFINE y == (TicksTo(k, m) + Ticking') * AccSize + baud'.acc
      <4>1. Within(p + 1, y)
        BY <1>5 DEF ReadingAt
      <4> QED BY <4>1
    <3> QED BY <2>2, <3>1, <3>2
  <2> DEFINE q == p + 1
             e == (k + 1) * BitClks
  <2>5. /\ q <= e /\ (q = e => i = 1 /\ m = LastOf(k))
        /\ (i = 1 /\ m = LastOf(k) => k * BitClks <= q - 3)
    BY <1>2, <1>9, <2>3, <2>4, Window
  <2>6. e \in Nat /\ e = k * BitClks + BitClks /\ k * BitClks \in Nat
    BY <1>3, <1>4, Times
  <2>7. Whole(f, c)
    <3> SUFFICES ASSUME Brief(f) PROVE FALSE
      BY <1>2
    <3>1. k = 0 /\ Len(f.levels) = 1 + BitClks /\ f.width \in Nat \ {0}
      BY <1>2 DEF ReadingAt, Samples, Brief, Driven
    <3>2. Len(f.levels) * 1 <= Len(f.levels) * f.width
      <4>1. 1 * Len(f.levels) <= f.width * Len(f.levels)
        BY <1>3, <3>1, Times
      <4>2. Len(f.levels) \in Nat /\ f.width \in Nat
        BY <1>3, <3>1
      <4> QED BY <4>1, <4>2
    <3>3. q <= 1 * BitClks
      BY <2>5, <3>1
    <3> QED BY <1>3, <1>11, <3>1, <3>2, <3>3
  <2>8. k + 1 = FrameBits(c) /\ Len(f.levels) = FrameBits(c) /\ q = e /\ f.width = BitClks
    <3>1. f.width = BitClks /\ Len(f.levels) >= FrameBits(c) /\ Len(f.levels) \in Nat
      BY <2>7, <1>3 DEF Whole
    <3>2. Len(f.levels) * BitClks <= (k + 1) * BitClks /\ Len(f.levels) * BitClks <= q
      BY <1>3, <1>9, <1>11, <2>5, <2>6, <3>1
    <3>3. Len(f.levels) <= k + 1
      <4> SUFFICES ASSUME k + 2 <= Len(f.levels) PROVE FALSE
        BY <1>4, <3>1
      <4>1. (k + 2) * BitClks <= Len(f.levels) * BitClks
        <5>1. k + 2 \in Int /\ Len(f.levels) \in Int
          BY <1>4, <3>1
        <5> QED BY <1>3, <5>1, Times
      <4>2. (k + 2) * BitClks = e + BitClks
        <5>1. k + 2 = (k + 1) + 1 /\ k + 1 \in Int
          BY <1>4
        <5> QED BY <1>3, <5>1, Times
      <4> QED BY <1>3, <2>6, <3>2, <4>1, <4>2
    <3>4. k + 1 = FrameBits(c) /\ Len(f.levels) = k + 1
      BY <1>3, <1>4, <3>1, <3>3
    <3>5. e <= q
      BY <3>2, <3>4
    <3>6. q = e
      BY <1>9, <2>5, <2>6, <3>5
    <3> QED BY <3>1, <3>4, <3>6
  <2>9. baud'.oversample_tick /\ m = BIT_LAST /\ k * BitClks <= q - 3
    <3>1. LastOf(k) = BIT_LAST
      BY <1>3, <2>8, <1>4 DEF LastOf
    <3> QED BY <2>3, <2>5, <2>8, <3>1
  <2>10. FinalBit(f, c) = FrameBits(c) /\ k = FrameBits(c) - 1 /\ (FinalBit(f, c) - 1) * f.width <= p - 2
    <3>1. FinalBit(f, c) = FrameBits(c)
      BY <2>7 DEF FinalBit, Whole
    <3>2. q - 3 = p - 2 /\ k = FrameBits(c) - 1
      BY <1>3, <1>4, <2>8
    <3> QED BY <2>8, <2>9, <3>1, <3>2
  <2>11. sync[2] <= sync[1] /\ LevelIs(f, p - 2, sync[2])
    BY <1>1, <1>2, <1>4, <2>10, SyncRises
  <2>12. sync'[3] = f.levels[k + 1]
    <3>1. k + 1 \in 1 .. Len(f.levels) /\ ((k + 1) - 1) * f.width <= p - 2 /\ p - 2 < (k + 1) * f.width
          /\ p - 2 \in Int
      <4>1. (k + 1) - 1 = k /\ k + 1 \in 1 .. Len(f.levels) /\ p - 2 \in Int /\ q - 3 = p - 2
        BY <1>3, <1>4, <2>8
      <4>2. p - 2 < e
        BY <2>6, <2>8
      <4> QED BY <2>8, <2>9, <4>1, <4>2
    <3>2. sync[2] = f.levels[k + 1]
      BY <1>2, <2>11, <3>1, LevelIsOne
    <3> QED BY <3>2, EdgeFacts
  <2>13. Finishing' /\ Outcome' = f.record
    BY <1>2, <1>6, <2>7, <2>9, <2>10, <2>12, ReadingFinishes
  <2>14. PICK g : (Whole(g, cfg) \/ Brief(g)) /\ Starts(g)
    BY <1>11
  <2>15. Begun(g, 0)'
    <3>1. Own(f) = << f.record >>
      BY <2>7 DEF Own, Whole
    <3>2. expected' = << Outcome' >> \o Own(g)
      BY <1>8, <2>13, <2>14, <3>1 DEF Starts
    <3>3. sync'[1] = 1 /\ sync'[3] <= sync'[2]
      BY <1>11, <2>11, EdgeFacts
    <3> QED BY <2>13, <3>2, <3>3 DEF Begun
  <2>16. Phase'
    BY <1>1, <1>2, <2>14, <2>15, BeginsPhase
  <2> QED BY <1>7, <2>16
<1> QED BY <1>1, <1>2, <1>10, <1>11, PeerMoves

\* The only sample of a glitch.
LEMMA GlitchPasses ==
  ASSUME Edge, GlitchesEnd, NEW f, NEW p \in Nat, Brief(f), At(f, p), SyncAt(f, p),
         expected = Own(f), NEW k, NEW n, ReadingAt(f, cfg, p, k, n), baud.oversample_tick, n = LastOf(k)
  PROVE  Phase' /\ Pulses'
<1>1. PICK c : c = cfg
  OBVIOUS
<1>2. /\ c \in Cfgs /\ c \in Config /\ Driven(f) /\ BaudInv /\ RxTypeOK /\ RxEdge(c, TRUE)
      /\ ReadingAt(f, c, p, k, n)
  <2>1. baud.oversample_tick = TRUE
    BY EdgeFacts
  <2> QED BY <1>1, <2>1, EdgeFacts, DrivenFacts DEF Edge
<1>3. k = 0 /\ f.width <= p - 3
  BY <1>2, GlitchWindow
<1>4. rx = Reading(f.levels, c, 0, HALF_LAST) /\ p >= 4
  BY <1>2, <1>3 DEF ReadingAt, LastOf
<1>5. rx_sync = 1
  <2>1. LevelIs(f, p - 3, sync[3])
    BY <1>4 DEF SyncAt
  <2>2. CASE \E j \in 1 .. Len(f.levels) :
               (j - 1) * f.width <= p - 3 /\ p - 3 < j * f.width /\ sync[3] = f.levels[j]
    <3>1. PICK j \in 1 .. Len(f.levels) : p - 3 < j * f.width /\ sync[3] = f.levels[j]
      BY <2>2
    <3>2. f.width \in Nat /\ Len(f.levels) \in Nat
      BY <1>2 DEF Driven
    <3>3. j # 1
      BY <1>3, <3>1, <3>2
    <3> QED BY <3>1, <3>2, <3>3 DEF Brief, rx_sync
  <2> QED BY <2>1, <2>2 DEF LevelIs, rx_sync
<1>6. rx'.state = "IDLE" /\ ~rx'.start_armed /\ ~rx'.char_valid /\ rx'.events = NoErrors
  <2> DEFINE s == f.levels
  <2>1. rx = Reading(s, c, 0, HALF_LAST) /\ rx_sync # 0
    BY <1>4, <1>5
  <2> HIDE DEF s
  <2> QED BY <1>2, <2>1, StartSample
<1>7. Pulses' /\ Idle' /\ Owed' = << >>
  BY <1>6 DEF Pulses, Idle, Owed
<1>8. Unread = << >>
  <2>1. rx.char_valid = FALSE
    BY <1>4 DEF Reading
  <2> QED BY <2>1 DEF Unread, Own, Brief
<1>9. (FinalBit(f, cfg) - 1) * f.width <= p - 3
  <2>1. FinalBit(f, cfg) - 1 = 1 /\ f.width \in Nat
    BY <1>2 DEF FinalBit, Brief, Driven
  <2> QED BY <1>3, <2>1
<1> QED BY <1>4, <1>7, <1>8, <1>9, Settles

\* A sample of a frame.
LEMMA FrameSamples ==
  ASSUME Edge, Tolerated, NEW f, NEW p \in Nat, Whole(f, cfg), At(f, p), SyncAt(f, p),
         expected = Own(f), NEW k, NEW n, ReadingAt(f, cfg, p, k, n), baud.oversample_tick, n = LastOf(k)
  PROVE  Phase' /\ Pulses'
<1>1. PICK c : c = cfg
  OBVIOUS
<1>2. /\ c \in Cfgs /\ c \in Config /\ cfg' = c /\ Driven(f) /\ rest \in Seq(Bit)
      /\ Unread \in Seq(Records) /\ Peer /\ BaudInv /\ RxTypeOK /\ c.enable = TRUE
      /\ RxEdge(c, TRUE) /\ Baud!BaudEdge(c.enable, Inc)
      /\ Whole(f, c) /\ ReadingAt(f, c, p, k, LastOf(k))
  <2>1. baud.oversample_tick = TRUE
    BY EdgeFacts
  <2> QED BY <1>1, <2>1, EdgeFacts, DrivenFacts DEF Edge
<1>3. FrameBits(c) \in 7 .. 12 /\ BitClks \in Nat /\ BitClks >= 5
  BY <1>2, FormatTypes, BitIsLong, Positive
<1>4. k \in 0 .. FrameBits(c) - 1 /\ k \in Nat /\ p >= 4 /\ rx = Reading(f.levels, c, k, LastOf(k))
  BY <1>2, <1>3 DEF ReadingAt, Samples, Whole
<1>5. f.width = BitClks /\ Len(f.levels) >= FrameBits(c) /\ Len(f.levels) \in Nat
  BY <1>2, <1>3 DEF Whole
<1>6. p <= (k + 1) * BitClks /\ k * BitClks <= p - 3
  <2>1. k \in 0 .. Samples(f, c) - 1 /\ LastOf(k) \in 0 .. LastOf(k)
        /\ Within(p, (TicksTo(k, LastOf(k)) + 1) * AccSize + baud.acc)
    BY <1>2 DEF ReadingAt, Ticking
  <2>2. baud.acc \in 0 .. AccSize - 1 /\ (1 = 1 => baud.acc < Inc) /\ 1 \in 0 .. 1
    BY <1>2 DEF BaudInv, Baud!BaudTypeOK
  <2> QED BY <1>2, <2>1, <2>2, Window
<1>7. (k + 1) * BitClks = k * BitClks + BitClks /\ k * BitClks \in Nat
  BY <1>3, <1>4, Times
<1>8. rx_sync = f.levels[k + 1]
  <2>1. LevelIs(f, p - 3, sync[3])
    BY <1>4 DEF SyncAt
  <2>2. (k + 1) - 1 = k /\ k + 1 \in 1 .. Len(f.levels) /\ p - 3 \in Int
    BY <1>3, <1>4, <1>5
  <2>3. ((k + 1) - 1) * f.width <= p - 3 /\ p - 3 < (k + 1) * f.width
    <3>1. p - 3 < (k + 1) * BitClks
      BY <1>3, <1>6, <1>7
    <3> QED BY <1>5, <1>6, <2>2, <3>1
  <2>4. sync[3] = f.levels[k + 1]
    BY <1>2, <2>1, <2>2, <2>3, LevelIsOne
  <2> QED BY <2>4 DEF rx_sync
<1>9. SampleOf(f, c, k)
  BY <1>2, <1>4, <1>8, SampleTaken
<1>10. Unread = << f.record >> /\ Own(f) = << f.record >>
  <2>1. rx.char_valid = FALSE
    BY <1>4 DEF Reading
  <2>2. Own(f) = << f.record >>
    BY <1>2 DEF Own, Whole
  <2> QED BY <2>1, <2>2 DEF Unread
<1>11. CASE k < FrameBits(c) - 1
  <2>1. rx' = Reading(f.levels, c, k + 1, 0)
    BY <1>9, <1>11 DEF SampleOf
  <2>2. k \in 0 .. FrameBits(c) - 2
    BY <1>3, <1>4, <1>11
  <2> DEFINE q == p + 1
             j == k + 1
  <2>3. ReadingAt(f, c, q, j, 0)'
    BY <1>2, <2>1, <2>2, SampleMoves
  <2>4. Pulses'
    <3>1. rx'.char_valid = FALSE /\ rx'.events = NoErrors
      BY <2>1 DEF Reading
    <3> QED BY <3>1 DEF Pulses
  <2>5. ~(q >= Len(f.levels) * f.width)
    <3>1. (k + 2) * BitClks <= Len(f.levels) * BitClks /\ Len(f.levels) * BitClks \in Int
      <4>1. k + 2 <= Len(f.levels) /\ k + 2 \in Int
        BY <1>3, <1>4, <1>5, <1>11
      <4> QED BY <1>3, <1>5, <4>1, Times
    <3>2. (k + 2) * BitClks = (k + 1) * BitClks + BitClks
      <4>1. k + 2 = (k + 1) + 1 /\ k + 1 \in Int
        BY <1>4
      <4> QED BY <1>3, <4>1, Times
    <3> QED BY <1>3, <1>5, <1>6, <1>7, <3>1, <3>2
  <2>6. At(f, q)' /\ expected' = Unread
    BY <1>1, <1>2, <2>5, PeerMoves
  <2>7. SyncAt(f, q)' /\ q \in Nat
    BY <1>2, EdgeFacts, SyncMoves
  <2> HIDE DEF q, j
  <2>8. Receiving(f, c, q)'
    BY <1>10, <2>3, <2>6 DEF Receiving
  <2>9. Phase'
    BY <1>2, <2>6, <2>7, <2>8, TrackingPhase
  <2> QED BY <2>4, <2>9
<1>12. CASE k = FrameBits(c) - 1
  <2>1. /\ rx'.state = "DONE" /\ ~rx'.start_armed /\ ~rx'.char_valid /\ rx'.events = NoErrors
        /\ Record' = f.record
    BY <1>3, <1>9, <1>12 DEF SampleOf
  <2>2. Pulses' /\ Idle'
    BY <2>1 DEF Pulses, Idle
  <2>3. Unread = Owed'
    BY <1>10, <2>1 DEF Owed
  <2>4. (FinalBit(f, cfg) - 1) * f.width <= p - 3
    <3>1. FinalBit(f, cfg) = FrameBits(c)
      BY <1>1, <1>2 DEF FinalBit, Whole
    <3> QED BY <1>5, <1>6, <1>12, <3>1
  <2>5. Phase'
    BY <1>4, <2>2, <2>3, <2>4, Settles
  <2> QED BY <2>2, <2>5
<1> QED BY <1>3, <1>4, <1>11, <1>12

-----------------------------------------------------------------------------
LEMMA PhaseMoves ==
  ASSUME Edge, Tolerated, GlitchesEnd, Phase
  PROVE  Phase' /\ Pulses'
<1>1. CASE Over
  BY <1>1, OverMoves
<1>2. CASE \E f, c, p : cfg = c /\ Tracking(f, c, p)
  <2>1. PICK f, p : Tracking(f, cfg, p)
    BY <1>2
  <2>2. (Whole(f, cfg) \/ Brief(f)) /\ p \in Nat /\ At(f, p) /\ SyncAt(f, p)
    BY <2>1 DEF Tracking
  <2>3. CASE Begun(f, p)
    BY <2>2, <2>3, BegunMoves
  <2>4. CASE Receiving(f, cfg, p)
    <3>1. PICK k, n : expected = Own(f) /\ ReadingAt(f, cfg, p, k, n)
      BY <2>4 DEF Receiving
    <3>2. CASE ~(baud.oversample_tick /\ n = LastOf(k))
      BY <2>2, <3>1, <3>2, ReceivingWaits
    <3>3. CASE baud.oversample_tick /\ n = LastOf(k)
      BY <2>2, <3>1, <3>3, GlitchPasses, FrameSamples
    <3> QED BY <3>2, <3>3
  <2> QED BY <2>1, <2>3, <2>4 DEF Tracking
<1> QED BY <1>1, <1>2 DEF Phase

\* A tolerated line is decoded, whatever the number of ticks to a bit: every frame of the
\* peer gives its record with the right data and exactly the errors it has, a break gives one
\* record and a glitch none (DecodesAll).
THEOREM ReceiverDecodes ==
  ASSUME Tolerated, GlitchesEnd, \A c \in Cfgs : c.enable /\ c.rx_enable
  PROVE  Spec => []DecodesAll
<1>1. Init => LineInv
  <2> SUFFICES ASSUME Init PROVE LineInv
    OBVIOUS
  <2>1. cfg \in Cfgs /\ cfg \in Config
    BY LineInputs DEF Init
  <2>2. Rcv!RxInv
    <3>1. sync = SyncReset /\ rx = RxReset
      BY DEF Init
    <3>2. Zero \in Byte /\ NoErrors \in Errors
      BY DEF Zero, Byte, Bit, NoErrors, Errors
    <3>3. RxTypeOK
      BY <3>1, <3>2, Positive DEF RxTypeOK, RxReset, SyncReset, Codes, Bit
    <3> QED BY <3>1, <3>3, SameReceiver DEF Rcv!RxInv, RxReset, Sampling
  <2>3. BaudInv
    BY Positive DEF Init, BaudInv, Baud!BaudTypeOK, Baud!BaudReset
  <2>4. PeerTypeOK
    BY Positive DEF Init, PeerTypeOK
  <2>5. Pulses /\ Over
    BY DEF Init, Pulses, Over, Idle, Rising, Owed, line, RxReset, SyncReset
  <2> QED BY <2>1, <2>2, <2>3, <2>4, <2>5 DEF LineInv, Phase
<1>2. LineInv => DecodesAll
  <2> SUFFICES ASSUME LineInv PROVE DecodesAll
    OBVIOUS
  <2>1. RxTypeOK /\ cfg \in Config
    BY RcvTypes, LineInputs DEF LineInv
  <2>2. Len(expected) <= 2 /\ (rx.char_valid => expected # << >> /\ Record = Head(expected))
    BY <2>1, Answers DEF LineInv, PeerTypeOK
  <2>3. TypeOK
    BY <2>1 DEF LineInv, TypeOK, PeerTypeOK, BaudInv, Records
  <2> QED BY <2>2, <2>3 DEF DecodesAll, LineInv, Pulses
<1>3. LineInv /\ [Next]_vars => LineInv'
  <2> SUFFICES ASSUME LineInv, [Next]_vars PROVE LineInv'
    OBVIOUS
  <2>1. CASE Next
    <3>1. /\ RxTypeOK /\ BaudInv /\ PeerTypeOK /\ Pulses /\ Phase /\ cfg \in Cfgs /\ cfg \in Config
          /\ Rcv!RxInv
      BY RcvTypes, LineInputs DEF LineInv
    <3>2. Unread \in Seq(Records)
      BY <3>1, Answers DEF PeerTypeOK
    <3>3. cfg.enable = TRUE /\ cfg.rx_enable = TRUE
      BY <3>1 DEF Config
    <3>4. Edge
      BY <2>1, <3>1, <3>2, <3>3 DEF Edge, Next, Peer
    <3>5. Phase' /\ Pulses'
      BY <3>1, <3>4, PhaseMoves
    <3>6. PeerTypeOK'
      BY <3>1, <3>2, <3>4, PeerTypes DEF Edge
    <3>7. BaudInv'
      BY <3>1, <3>3, <3>4, EdgeFacts, BaudMoves
    <3>8. Rcv!RxInv'
      <4>1. RxEdge(cfg, baud.oversample_tick) /\ SyncEdge(line) /\ line \in Bit /\ baud.oversample_tick \in BOOLEAN
        BY <3>4, EdgeFacts
      <4>2. Rcv!SyncEdge(line) <=> SyncEdge(line)
        BY DEF Rcv!SyncEdge, SyncEdge
      <4>3. Rcv!RxEdge(cfg, baud.oversample_tick) /\ Rcv!SyncEdge(line) /\ line \in Rcv!Bit /\ cfg \in Rcv!Config
        BY <3>1, <4>1, <4>2, SameRxEdge, SameFormats
      <4> QED BY <3>1, <4>1, <4>3, Rcv!RxStep, Assumptions
    <3>9. cfg' \in Cfgs
      BY <3>1, <3>4 DEF Edge
    <3> QED BY <3>5, <3>6, <3>7, <3>8, <3>9 DEF LineInv
  <2>2. CASE UNCHANGED vars
    <3>1. /\ sync' = sync /\ rx' = rx /\ baud' = baud /\ cfg' = cfg /\ rest' = rest /\ clk' = clk
          /\ width' = width /\ expected' = expected
      BY <2>2 DEF vars
    <3>2. (Rcv!RxInv /\ BaudInv /\ PeerTypeOK /\ cfg \in Cfgs /\ Pulses)'
      BY <3>1 DEF LineInv, Rcv!RxInv, Rcv!RxTypeOK, Rcv!Sampling, Rcv!Last, BaudInv, Baud!BaudTypeOK,
         PeerTypeOK, Pulses
    <3>3. Over => Over'
      BY <3>1 DEF Over, Idle, Rising, Owed, Record, line
    <3>4. ASSUME NEW f, NEW c, NEW p, Tracking(f, c, p) PROVE Tracking(f, c, p)'
      <4>1. (At(f, p) /\ SyncAt(f, p))'
        BY <3>1, <3>4 DEF Tracking, At, SyncAt
      <4>2. Begun(f, p) => Begun(f, p)'
        BY <3>1 DEF Begun, Idle, Owed, Record, Finishing, Outcome
      <4>3. Receiving(f, c, p) => Receiving(f, c, p)'
        BY <3>1 DEF Receiving, ReadingAt, Ticking
      <4> QED BY <3>4, <4>1, <4>2, <4>3 DEF Tracking
    <3>5. Phase'
      BY <3>1, <3>3, <3>4 DEF LineInv, Phase
    <3> QED BY <3>2, <3>5 DEF LineInv
  <2> QED BY <2>1, <2>2
<1> QED BY <1>1, <1>2, <1>3, PTL DEF Spec
=============================================================================
