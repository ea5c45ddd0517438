---------------------------- MODULE MCClockedFifo ----------------------------
(* The clock agent drives the net clk, and at the rising edges of clk the    *)
(* FIFO works.                                                               *)
EXTENDS ClockAgent, ByteFifo

VARIABLE traffic  \* whether the FIFO is used; then the clock only runs

clocked_vars == << clock_vars, fifo_vars, traffic >>

\* No request but the first start, with the shortest period.
RunsOnly == requests' # requests => requests = 0 /\ running_req' /\ period_req' = 2

UnusedEdge == Edge(FALSE, FALSE, CHOOSE d \in Items : TRUE, FALSE)

\* always_ff @(posedge clk)
Clocked ==
  IF net = 0 /\ net' = 1 THEN IF traffic THEN FifoNext ELSE UnusedEdge
  ELSE UNCHANGED fifo_vars

MCInit == ClockInit /\ FifoInit /\ traffic \in BOOLEAN
MCNext == ClockNext /\ (traffic => RunsOnly) /\ Clocked /\ UNCHANGED traffic
MCSpec == MCInit /\ [][MCNext]_clocked_vars /\ WF_clock_vars(clk_run) /\ WF_clock_vars(Tick)
=============================================================================
