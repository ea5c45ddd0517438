--------------------------- MODULE MCUartCoreLoop ---------------------------
(* Small instances of UartCoreLoop for TLC. *)
EXTENDS UartCoreLoop, TLC

\* Bytes, bit 0 first.
B(b0, b1, b2, b3, b4, b5, b6, b7) ==
  (0 :> b0) @@ (1 :> b1) @@ (2 :> b2) @@ (3 :> b3) @@ (4 :> b4) @@ (5 :> b5) @@ (6 :> b6) @@ (7 :> b7)

Alternately == << B(1,0,1,1,0,1,1,1), B(0,1,0,0,1,0,1,0) >>
TwoBytes    == {Alternately[1], Alternately[2]}

On == [enable |-> TRUE, rx_enable |-> TRUE, tx_enable |-> TRUE, hw_flow |-> FALSE,
       parity_mode |-> 0, stop_bits |-> 0, data_bits |-> 0]

\* 5N1: with flow control in a loop, with flow control and a free CTS, and
\* without flow control but with clears.
ThreeSetups ==
  {[cfg |-> [On EXCEPT !.hw_flow = TRUE], looped |-> looped, clears |-> {FALSE}] : looped \in BOOLEAN}
    \cup {[cfg |-> On, looped |-> TRUE, clears |-> BOOLEAN]}
=============================================================================
