---------------------------- MODULE MCUartRxLine ----------------------------
(* Small instances of UartRxLine for TLC. *)
EXTENDS UartRxLine, TLC

\* Bytes, bit 0 first.
B(b0, b1, b2, b3, b4, b5, b6, b7) ==
  (0 :> b0) @@ (1 :> b1) @@ (2 :> b2) @@ (3 :> b3) @@ (4 :> b4) @@ (5 :> b5) @@ (6 :> b6) @@ (7 :> b7)

TwoBytes == {B(1,0,1,1,0,1,0,1), Zero}

On == [enable |-> TRUE, rx_enable |-> TRUE, tx_enable |-> TRUE, hw_flow |-> FALSE,
       parity_mode |-> 0, stop_bits |-> 0, data_bits |-> 0]
\* 5N1, 5O2 and 8E1.
ThreeFormats == {On, [On EXCEPT !.parity_mode = 2, !.stop_bits = 1],
                 [On EXCEPT !.parity_mode = 1, !.data_bits = 3]}
OddTwo == {[On EXCEPT !.parity_mode = 2, !.stop_bits = 1]}

\* What the proof for any number of ticks (ReceiverDecodes) assumes holds of the run.
ASSUME Tolerable == Tolerated /\ GlitchesEnd /\ \A c \in Cfgs : c.enable /\ c.rx_enable
=============================================================================
