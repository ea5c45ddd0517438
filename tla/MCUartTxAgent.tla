--------------------------- MODULE MCUartTxAgent ---------------------------
(* Small instances of UartTxAgent for TLC. *)
EXTENDS UartTxAgent, TLC

Short == [data_bits |-> 1, parity |-> FALSE, stop_bits |-> 1]
Long  == [data_bits |-> 2, parity |-> TRUE, stop_bits |-> 2]

BothFormats == {Short, Long}
ShortOnly   == {Short}
=============================================================================
