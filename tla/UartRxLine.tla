----------------------------- MODULE UartRxLine -----------------------------
(***************************************************************************)
(* The receiver, its synchroniser and the baud generator on a line that a  *)
(* peer drives with bits of its own length, begun at any clock edge:       *)
(* frames, frames with errors, breaks and glitches.                        *)
(***************************************************************************)
EXTENDS UartRx

CONSTANTS
  AccSize,  \* of the baud generator
  Inc,      \* cfg_baud_inc
  BitClks,  \* the peer's bit, in clocks
  Bytes,    \* the data that the peer sends
  Cfgs,     \* the format, the same on both sides
  Breaks,   \* lengths of breaks, in bits beyond a frame
  Glitches, \* lengths of glitches, in clocks
  NoRecord

ASSUME LineInputs ==
  /\ Bytes \subseteq Byte /\ Cfgs \subseteq Config
  /\ AccSize \in Nat \ {0} /\ OVERSAMPLE \in Nat \ {0}
  /\ Inc \in 1 .. AccSize - 1 /\ BitClks \in Nat \ {0}
  /\ Breaks \subseteq Nat /\ Glitches \subseteq Nat \ {0}
  /\ NoRecord \notin [data : Byte, errors : Errors]

\* The two rates are so close that a bit is sampled within it: not before it has begun, though
\* the first tick counted follows the detection of the start at once, and three clocks
\* before its end, the time that the receiver then needs to be ready for the next start.
Tolerated ==
  \A c \in Cfgs : \A k \in 0 .. Len(Frame(Zero, c)) - 1 :
    /\ k * BitClks * Inc <= (HALF_LAST + k * OVERSAMPLE) * AccSize + Inc
    /\ (HALF_LAST + 1 + k * OVERSAMPLE) * AccSize + 3 * Inc <= (k + 1) * BitClks * Inc

\* A glitch is over before the middle of a start bit.
GlitchesEnd == \A n \in Glitches : n * Inc <= HALF_LAST * AccSize + Inc

VARIABLES
  baud,
  cfg,
  rest, clk,  \* the peer: levels still to be driven, clocks on the present one, and
  width,      \* how many each takes
  expected    \* history: the records of the frames begun and not handed over

vars == << sync, rx, baud, cfg, rest, clk, width, expected >>

Baud == INSTANCE UartBaudGen

-----------------------------------------------------------------------------
(* What the peer may put on the line, and what the receiver is to make of it. *)

StopLevels == [1 .. StopsOf(cfg) -> Bit]
Low(stops) == \E i \in DOMAIN stops : stops[i] = 0

\* design_guide.md:636-643: all data bits zero, and the stop bit too.
Good(data, bad_parity, stops) ==
  LET d == Masked(data, decode_data_bits(cfg.data_bits))
  IN [data |-> d,
      errors |-> [frame_error |-> Low(stops),
                  parity_error |-> bad_parity,
                  break_detect |-> Low(stops) /\ d = Zero]]

Parities == IF cfg.parity_mode \in {PARITY_EVEN, PARITY_ODD} THEN BOOLEAN ELSE {FALSE}

Frames == {[levels |-> FrameWith(d, cfg, p, s), width |-> BitClks, record |-> Good(d, p, s)] :
             d \in Bytes, p \in Parities, s \in StopLevels}

BreakRecord == [data |-> Zero,
                errors |-> [frame_error |-> TRUE, break_detect |-> TRUE,
                            parity_error |-> cfg.parity_mode = PARITY_ODD]]
Breakage == {[levels |-> [i \in 1 .. Len(Frame(Zero, cfg)) + n |-> 0] \o << 1 >>,
              width |-> BitClks, record |-> BreakRecord] : n \in Breaks}

\* A low level too short to be a start; the line then rests for a bit.
Noise == {[levels |-> << 0 >> \o [i \in 1 .. BitClks |-> 1], width |-> n, record |-> NoRecord] :
            n \in Glitches}

-----------------------------------------------------------------------------
Init ==
  /\ cfg \in Cfgs
  /\ sync = SyncReset /\ rx = RxReset /\ baud = Baud!BaudReset
  /\ rest = << >> /\ clk = 0 /\ width = BitClks
  /\ expected = << >>

line == IF rest = << >> THEN 1 ELSE Head(rest)

\* The design at an edge; a record that is valid is taken.
Design ==
  /\ Baud!BaudEdge(cfg.enable, Inc)
  /\ SyncEdge(line)
  /\ RxEdge(cfg, baud.oversample_tick)

Unread == IF rx.char_valid THEN Tail(expected) ELSE expected

Begin(f) ==
  /\ rest' = f.levels /\ width' = f.width /\ clk' = 0
  /\ expected' = IF f.record = NoRecord THEN Unread ELSE Append(Unread, f.record)

\* The line rests, for one clock at least after a low level.
Rests ==
  /\ Len(rest) <= 1 /\ clk = (IF rest = << >> THEN 0 ELSE width - 1)
  /\ rest' = << >> /\ clk' = 0 /\ expected' = Unread /\ UNCHANGED width

Begins ==
  /\ Len(rest) <= 1 /\ clk = (IF rest = << >> THEN 0 ELSE width - 1) /\ line = 1
  /\ \E f \in Frames \cup Breakage \cup Noise : Begin(f)

Drives ==
  /\ rest # << >> /\ ~(Len(rest) = 1 /\ clk = width - 1)
  /\ IF clk = width - 1 THEN rest' = Tail(rest) /\ clk' = 0 ELSE rest' = rest /\ clk' = clk + 1
  /\ expected' = Unread /\ UNCHANGED width

Next == Design /\ (Rests \/ Begins \/ Drives) /\ UNCHANGED cfg

Spec == Init /\ [][Next]_vars

-----------------------------------------------------------------------------
TypeOK ==
  /\ RxTypeOK /\ Baud!BaudTypeOK /\ cfg \in Cfgs
  /\ rest \in Seq(Bit) /\ clk \in 0 .. width - 1 /\ width \in {BitClks} \cup Glitches
  /\ expected \in Seq([data : Byte, errors : Errors])

\* Types; every frame gives its record, with the right data and exactly the errors it
\* has, at whatever phase of clock and ticks it begins and however closely the
\* next one follows; a break gives one record however long it lasts; a glitch
\* gives none.
DecodesAll ==
  /\ TypeOK
  /\ rx.char_valid => expected # << >> /\ Record = Head(expected)
  /\ Len(expected) <= 2
  /\ rx.events = IF rx.char_valid THEN rx.errors ELSE NoErrors
=============================================================================
