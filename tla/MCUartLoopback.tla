---------------------------- MODULE MCUartLoopback ---------------------------
(* Small instances of UartLoopback for TLC. *)
EXTENDS UartLoopback, TLC

\* Bytes, bit 0 first.
B(b0, b1, b2, b3, b4, b5, b6, b7) ==
  (0 :> b0) @@ (1 :> b1) @@ (2 :> b2) @@ (3 :> b3) @@ (4 :> b4) @@ (5 :> b5) @@ (6 :> b6) @@ (7 :> b7)

TwoBytes == {B(1,0,1,1,0,1,1,1), B(0,1,0,0,1,0,1,0)}

On == [enable |-> TRUE, rx_enable |-> TRUE, tx_enable |-> TRUE, hw_flow |-> FALSE,
       parity_mode |-> 0, stop_bits |-> 0, data_bits |-> 0]
\* 5N1, 7O2, 8E1 and 6N1 with the codes that are reserved; either direction and all disabled.
Running == {On,
            [On EXCEPT !.parity_mode = 2, !.stop_bits = 1, !.data_bits = 2],
            [On EXCEPT !.parity_mode = 1, !.data_bits = 3],
            [On EXCEPT !.parity_mode = 3, !.stop_bits = 3, !.data_bits = 1],
            [On EXCEPT !.rx_enable = FALSE], [On EXCEPT !.tx_enable = FALSE],
            [On EXCEPT !.enable = FALSE]}
=============================================================================
