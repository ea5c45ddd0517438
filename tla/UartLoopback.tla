---------------------------- MODULE UartLoopback ----------------------------
(***************************************************************************)
(* A transmitter on the line of a receiver, both on the ticks of one baud  *)
(* generator, as in a core whose output is wired to its input.  The        *)
(* configuration may change between any two clock edges.                   *)
(***************************************************************************)
EXTENDS UartTx, UartRx

CONSTANTS
  AccSize,           \* of the baud generator
  Incs, Bytes, Cfgs,
  MaxFlight          \* bound: so many characters may be launched and not received

ASSUME LoopInputs ==
  /\ AccSize \in Nat \ {0} /\ OVERSAMPLE \in Nat \ {0}
  /\ Bytes \subseteq Byte /\ Cfgs \subseteq Config /\ Incs \subseteq 1 .. AccSize - 1

VARIABLES
  baud,
  cfg, inc,  \* the configuration inputs
  flight,    \* history: the characters launched and not yet received
  since,     \* history: phase (the increments) and ticks since the last baud tick was
             \* due, in units of the accumulator and in oversample ticks
  io         \* history: what happened at the latest edge, a baud tick, a launch

vars == << baud, tx, sync, rx, cfg, inc, flight, since, io >>

Baud == INSTANCE UartBaudGen

Init ==
  /\ cfg \in Cfgs /\ inc \in Incs
  /\ baud = Baud!BaudReset /\ tx = TxReset /\ sync = SyncReset /\ rx = RxReset
  /\ flight = << >> /\ since = [phase |-> 0, ticks |-> 0]
  /\ io = [tick |-> FALSE, launch |-> FALSE]

Received == IF rx.char_valid THEN Tail(flight) ELSE flight

\* uart_core.sv:257-258, with a byte always at hand when `offered'; nothing is
\* offered to a receiver that is disabled, nor if too much is under way.
tx_start(offered) == /\ offered /\ cfg.rx_enable /\ Len(flight) < MaxFlight
                     /\ cfg.enable /\ cfg.tx_enable /\ tx_ready_for_start /\ baud.baud_tick

\* A baud tick is due to OVERSAMPLE ticks of AccSize units each.
Counts ==
  since' = IF ~cfg.enable THEN [phase |-> 0, ticks |-> 0]
           ELSE [phase |-> since.phase + inc - (IF baud'.baud_tick THEN OVERSAMPLE * AccSize ELSE 0),
                 ticks |-> since.ticks + (IF baud'.oversample_tick THEN 1 ELSE 0)
                             - (IF baud'.baud_tick THEN OVERSAMPLE ELSE 0)]

Clock(offered, data) ==
  /\ Baud!BaudEdge(cfg.enable, inc)
  /\ TxEdge(cfg, baud.baud_tick, tx_start(offered), data)
  /\ SyncEdge(tx.line)
  /\ RxEdge(cfg, baud.oversample_tick)
  /\ flight' = IF tx_start(offered)
               THEN Append(Received, Masked(data, decode_data_bits(cfg.data_bits)))
               ELSE Received
  /\ Counts
  /\ io' = [tick |-> baud.baud_tick, launch |-> tx_start(offered)]
  /\ UNCHANGED << cfg, inc >>

\* A frame has begun and the receiver has not seen it.
Unseen == tx.state \in {"START", "DATA"} /\ rx.state = "IDLE"

\* Both sides latch the format when a frame begins for them.  The core as a whole
\* is switched on and off between frames, as design_guide.md:222 asks.
Reconfigure(c) ==
  /\ c # cfg /\ ~Unseen
  /\ c.enable # cfg.enable => tx.state = "IDLE" /\ flight = << >>
  /\ cfg' = c
  /\ UNCHANGED << baud, tx, sync, rx, inc, flight, since, io >>

\* The rate is not latched.
SetRate(i) ==
  /\ i # inc /\ inc' = i
  /\ UNCHANGED << baud, tx, sync, rx, cfg, flight, since, io >>

Clocks == \E offered \in BOOLEAN, data \in Bytes : Clock(offered, data)
Next   == Clocks \/ (\E c \in Cfgs : Reconfigure(c)) \/ (\E i \in Incs : SetRate(i))

Spec == Init /\ [][Next]_vars

\* Clock edges come for ever.
FairSpec == Spec /\ WF_vars(Clocks)

-----------------------------------------------------------------------------
TypeOK ==
  /\ Baud!BaudTypeOK /\ TxTypeOK /\ RxTypeOK
  /\ cfg \in Cfgs /\ inc \in Incs /\ flight \in Seq(Byte)
  /\ since \in [phase : Nat, ticks : Nat] /\ io \in [tick : BOOLEAN, launch : BOOLEAN]

\* Types; a launched character is received with its data and no error, although the
\* configuration and the rate change while it is on the line; the receiver is
\* done with it before the next one is launched.
LoopsBack ==
  /\ TypeOK
  /\ rx.char_valid => flight # << >> /\ rx.data = Head(flight) /\ rx.errors = NoErrors
  /\ Len(flight) <= 1

\* The generator does not drift: whatever the increment is changed to and when,
\* no part of a tick is lost or made up, and every OVERSAMPLE-th oversample tick
\* is a baud tick.
NoDrift ==
  /\ since.phase = since.ticks * AccSize + baud.acc
  /\ since.ticks = baud.count

\* What is left to be driven, told from the registers.
Ones(n) == [s \in 1 .. n |-> 1]
Stops == Ones(tx.stop_bits - tx.stop_bit_index)
ParityPart == IF parity_is_enabled(tx.parity_mode) THEN << tx.parity_bit >> ELSE << >>
DataFrom(b) == [i \in 1 .. tx.data_bits - b |-> tx.data[b + i - 1]]
Remaining ==
  CASE tx.state = "IDLE"   -> << >>
    [] tx.state = "START"  -> << 0 >> \o DataFrom(0) \o ParityPart \o Ones(tx.stop_bits)
    [] tx.state = "DATA"   -> DataFrom(tx.bit_index) \o ParityPart \o Ones(tx.stop_bits)
    [] tx.state = "PARITY" -> ParityPart \o Ones(tx.stop_bits)
    [] tx.state = "STOP"   -> Stops

FrameSet == {Frame(d, c) : d \in Bytes, c \in Cfgs}

\* The transmitter puts whole frames on the line: start bit, the data bits of
\* the format lowest first, the parity over these alone, the stop bits, each
\* until the next baud tick, whatever the configuration inputs do meanwhile.
Promise == INSTANCE SerialLine WITH Frames <- FrameSet, rest <- Remaining,
                                    line <- tx.line, done <- tx.done
ImplementsSerialLine == Promise!LineSpec

\* A character that was launched is received.
AllArrive == []<>(flight = << >>)
=============================================================================
