----------------------------- MODULE ByteStream -----------------------------
(***************************************************************************)
(* What two FIFOs and a line between them promise to the upper layers: the *)
(* bytes go through an unbounded queue, and one disappears only when that  *)
(* is told or asked for.  UartCoreLoop is shown to implement it.           *)
(***************************************************************************)
EXTENDS Naturals, Sequences, SequencesExt

CONSTANT Items

VARIABLES
  q,            \* the bytes under way, the oldest first
  accept, pop,  \* whether one was taken in, and one given out, at the latest edge
  lost,         \* whether one was reported lost at it
  clear         \* whether a FIFO was cleared at it

StreamInit == q = << >> /\ ~accept /\ ~pop /\ ~lost /\ ~clear

\* What is left of the queue is `rest', and the byte taken in, if one is, comes after it.
Becomes(rest) ==
  IF accept' THEN q' # << >> /\ Front(q') = rest /\ Last(q') \in Items ELSE q' = rest

Moves  == (pop' => q # << >>) /\ Becomes(IF pop' THEN Tail(q) ELSE q)
Loses  == ~pop' /\ \E i \in DOMAIN q : Becomes(RemoveAt(q, i))
Clears == \E i \in 1 .. Len(q) + 1, j \in 0 .. Len(q) : Becomes(SubSeq(q, i, j))

StreamNext ==
  /\ {accept', pop', lost', clear'} \subseteq BOOLEAN
  /\ \/ clear' /\ Clears
     \/ ~clear' /\ lost' /\ Loses
     \/ ~clear' /\ ~lost' /\ Moves

StreamSpec == StreamInit /\ [][StreamNext]_<< q, accept, pop, lost, clear >>
=============================================================================
