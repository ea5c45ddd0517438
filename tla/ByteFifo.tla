------------------------------ MODULE ByteFifo ------------------------------
(***************************************************************************)
(* rtl_uart_core/src/uart_byte_fifo.sv: the circular buffer behind both    *)
(* FIFOs of the core.  One step is one rising clock edge; its inputs are   *)
(* chosen anew each time.                                                  *)
(***************************************************************************)
EXTENDS Naturals, Sequences

CONSTANTS
  Items,      \* values of push_data
  Depth,      \* DEPTH
  LevelSize,  \* 2 ^ LEVEL_W, the range of level_q
  PtrSize,    \* 2 ^ PTR_W, the range of wr_ptr_q and rd_ptr_q
  NoWord     \* a memory word before it is written, an output not to be used

ASSUME ParamAssumption ==
  /\ Depth \in Nat \ {0}
  /\ LevelSize \in Nat /\ LevelSize > Depth
  /\ PtrSize \in Nat /\ PtrSize >= Depth

VARIABLES mem_q, wr_ptr_q, rd_ptr_q, level_q,
          io  \* the signals that the environment saw at the latest edge

fifo_vars == << mem_q, wr_ptr_q, rd_ptr_q, level_q, io >>

empty == level_q = 0
full  == level_q = Depth

pop_valid == ~empty
pop_data  == mem_q[rd_ptr_q]
pop_fire(pop_ready) == pop_valid /\ pop_ready

\* Seeded fault: a pop at the same edge does not make room.
MutPush_ready(pop_ready) == ~full

push_ready(pop_ready) == ~full \/ pop_fire(pop_ready)
push_fire(push_valid, pop_ready) == push_valid /\ push_ready(pop_ready)

Signals(clear, push_valid, push_data, pop_ready) ==
  [clear |-> clear, push_valid |-> push_valid, push_data |-> push_data,
   pop_ready |-> pop_ready, push_ready |-> push_ready(pop_ready),
   pop_valid |-> pop_valid, pop_data |-> IF pop_valid THEN pop_data ELSE NoWord]

\* A register counts modulo its range.
CountUp(x, size) == IF x = size - 1 THEN 0 ELSE x + 1
CountDown(x, size) == IF x = 0 THEN size - 1 ELSE x - 1

NextPtr(p) == IF p = Depth - 1 THEN 0 ELSE CountUp(p, PtrSize)

\* Seeded fault: a pop together with a push is not counted.
MutNextLevel(push, pop) == IF push THEN CountUp(level_q, LevelSize)
                           ELSE IF pop THEN CountDown(level_q, LevelSize) ELSE level_q

\* The case statement on {push_fire, pop_fire}.
NextLevel(push, pop) == CASE push /\ ~pop -> CountUp(level_q, LevelSize)
                          [] pop /\ ~push -> CountDown(level_q, LevelSize)
                          [] OTHER        -> level_q

\* The state after the first edge in reset; the memory is not reset.
FifoInit ==
  /\ mem_q = [a \in 0 .. Depth - 1 |-> NoWord]
  /\ wr_ptr_q = 0 /\ rd_ptr_q = 0 /\ level_q = 0
  /\ io = NoWord

Move(push_valid, push_data, pop_ready) ==
  LET push == push_fire(push_valid, pop_ready)
      pop  == pop_fire(pop_ready)
  IN /\ mem_q' = IF push THEN [mem_q EXCEPT ![wr_ptr_q] = push_data] ELSE mem_q
     /\ wr_ptr_q' = IF push THEN NextPtr(wr_ptr_q) ELSE wr_ptr_q
     /\ rd_ptr_q' = IF pop THEN NextPtr(rd_ptr_q) ELSE rd_ptr_q
     /\ level_q' = NextLevel(push, pop)

\* rst_n low or clear high.
Clear ==
  /\ wr_ptr_q' = 0 /\ rd_ptr_q' = 0 /\ level_q' = 0
  /\ UNCHANGED mem_q

Edge(clear, push_valid, push_data, pop_ready) ==
  /\ io' = Signals(clear, push_valid, push_data, pop_ready)
  /\ IF clear THEN Clear ELSE Move(push_valid, push_data, pop_ready)

FifoNext == \E clear, push_valid, pop_ready \in BOOLEAN, push_data \in Items :
          Edge(clear, push_valid, push_data, pop_ready)

FifoSpec == FifoInit /\ [][FifoNext]_fifo_vars

-----------------------------------------------------------------------------
(* Properties.                                                              *)

\* Types, with the ranges that the design needs (not those of the registers):
\* the level stays within the depth and the pointers within the memory.
FifoTypeOK ==
  /\ mem_q \in [0 .. Depth - 1 -> Items \cup {NoWord}]
  /\ wr_ptr_q \in 0 .. Depth - 1
  /\ rd_ptr_q \in 0 .. Depth - 1
  /\ level_q \in 0 .. Depth

\* The word that holds the i-th queued item, counted from pointer r.
Slot(r, i) == IF r + i > Depth THEN r + i - 1 - Depth ELSE r + i - 1

\* The write pointer is level words ahead of the read pointer and every queued
\* word has been written, so nothing unknown is popped and nothing unread is
\* overwritten, whatever the order of pushes, pops and clears.
Consistent ==
  /\ wr_ptr_q = Slot(rd_ptr_q, level_q + 1)
  /\ \A i \in 1 .. level_q : mem_q[Slot(rd_ptr_q, i)] \in Items

\* The queue in the memory, oldest item first.
Contents == [i \in 1 .. level_q |-> mem_q[Slot(rd_ptr_q, i)]]

\* The FIFO implements a bounded queue: order, content and both handshakes,
\* at every level and for a push and a pop at one edge.
Queue == INSTANCE BoundedQueue WITH q <- Contents, Unknown <- NoWord
ImplementsQueue == Queue!QueueSpec
=============================================================================
