---------------------------- MODULE BoundedQueue ----------------------------
(***************************************************************************)
(* What a byte FIFO of the core promises: a first-in first-out queue of    *)
(* at most Depth items, moved one clock edge at a time, with a valid/ready *)
(* handshake on each side.  ByteFifo is shown to implement it.             *)
(***************************************************************************)
EXTENDS Naturals, Sequences

CONSTANTS
  Items,   \* what is queued: bytes, or receive records
  Depth,   \* DEPTH
  Unknown  \* what nobody may rely on

VARIABLES
  q,   \* the queued items, oldest first
  io   \* the signals that the environment saw at the latest edge

\* A push on a full queue is taken when a pop makes room at the same edge.
PopFire(pop_ready)   == q # << >> /\ pop_ready
PushReady(pop_ready) == Len(q) < Depth \/ PopFire(pop_ready)

Rest(pop_ready) == IF PopFire(pop_ready) THEN Tail(q) ELSE q

\* The outputs are those before the edge.
Signals(clear, push_valid, push_data, pop_ready) ==
  [clear |-> clear, push_valid |-> push_valid, push_data |-> push_data,
   pop_ready |-> pop_ready, push_ready |-> PushReady(pop_ready),
   pop_valid |-> q # << >>, pop_data |-> IF q = << >> THEN Unknown ELSE Head(q)]

QueueInit == q = << >> /\ io = Unknown

Edge(clear, push_valid, push_data, pop_ready) ==
  /\ io' = Signals(clear, push_valid, push_data, pop_ready)
  /\ q' = IF clear THEN << >>
          ELSE IF push_valid /\ PushReady(pop_ready)
          THEN Append(Rest(pop_ready), push_data)
          ELSE Rest(pop_ready)

QueueNext == \E clear, push_valid, pop_ready \in BOOLEAN, push_data \in Items :
               Edge(clear, push_valid, push_data, pop_ready)

QueueSpec == QueueInit /\ [][QueueNext]_<< q, io >>
=============================================================================
