----------------------------- MODULE SerialLine -----------------------------
(***************************************************************************)
(* What the transmitter promises: a frame is put on the line level by      *)
(* level, each for the time between two baud ticks, and the line is high   *)
(* between frames.  UartTxLine is shown to implement it.                   *)
(***************************************************************************)
EXTENDS Sequences, Naturals

CONSTANT Frames  \* the frames that may be launched, sequences of levels

VARIABLES
  rest,  \* the levels still to be driven, the present one first
  line,  \* the level on the line
  done,  \* a frame ended at the latest edge
  io     \* what happened at the latest edge: a baud tick, a launch

Level(r) == IF r = << >> THEN 1 ELSE Head(r)

LineInit == rest = << >> /\ line = 1 /\ done = FALSE /\ io = [tick |-> FALSE, launch |-> FALSE]

\* A launch takes effect at once; the levels move on at baud ticks.
Edge(tick, launch) ==
  /\ io' = [tick |-> tick, launch |-> launch]
  /\ IF rest = << >>
     THEN IF launch THEN rest' \in Frames ELSE rest' = rest
     ELSE rest' = IF tick THEN Tail(rest) ELSE rest
  /\ line' = Level(rest')
  /\ done' = (rest # << >> /\ rest' = << >>)

LineNext == \E tick, launch \in BOOLEAN : Edge(tick, launch)

LineSpec == LineInit /\ [][LineNext]_<< rest, line, done, io >>
=============================================================================
