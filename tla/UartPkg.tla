------------------------------ MODULE UartPkg ------------------------------
(***************************************************************************)
(* rtl_uart_core/src/uart_pkg.sv and the functions on formats that         *)
(* uart_tx.sv and uart_rx.sv each declare.  A byte is a function from bit  *)
(* numbers to bits, bit 0 first on the line.                               *)
(***************************************************************************)
EXTENDS Naturals, Sequences, FiniteSets

Bit  == {0, 1}
Byte == [0 .. 7 -> Bit]
Zero == [i \in 0 .. 7 |-> 0]

PARITY_EVEN == 1
PARITY_ODD  == 2

\* Two-bit codes: parity 0 and 3 are none, stop 2 and 3 are reserved.
Codes == 0 .. 3
decode_data_bits(code)  == 5 + code
decode_stop_bits(code)  == IF code = 1 THEN 2 ELSE 1
parity_is_enabled(mode) == mode \in {PARITY_EVEN, PARITY_ODD}

\* ^data[n-1:0]
OddOnes(data, n) == Cardinality({i \in 0 .. n - 1 : data[i] = 1}) % 2

calc_parity_bit(data, n, mode) == CASE mode = PARITY_EVEN -> OddOnes(data, n)
                                    [] mode = PARITY_ODD  -> 1 - OddOnes(data, n)
                                    [] OTHER              -> 0

\* Seeded fault: odd parity is taken for even.
MutCalc_parity_error(data, mode, bit) == parity_is_enabled(mode) /\ OddOnes(data, 8) # bit

\* The receiver's data is zero above the data bits.
calc_parity_error(data, mode, bit) == CASE mode = PARITY_EVEN -> OddOnes(data, 8) # bit
                                        [] mode = PARITY_ODD  -> OddOnes(data, 8) = bit
                                        [] OTHER              -> FALSE

-----------------------------------------------------------------------------
(* Configuration inputs, and the frame that they promise on the line.       *)

Config == [enable : BOOLEAN, rx_enable : BOOLEAN, tx_enable : BOOLEAN,
           parity_mode : Codes, stop_bits : Codes, data_bits : Codes, hw_flow : BOOLEAN]

\* What is left of a byte on a line of n data bits.
Masked(data, n) == [i \in 0 .. 7 |-> IF i < n THEN data[i] ELSE 0]

\* The parity bit makes the number of ones in the data and parity bits even, or odd.
GoodParity(data, n, mode) ==
  CHOOSE p \in Bit :
    (Cardinality({i \in 0 .. n - 1 : data[i] = 1}) + p) % 2 = IF mode = PARITY_EVEN THEN 0 ELSE 1

\* The levels of a frame, one per bit time, from its stop levels and whether its
\* parity bit is wrong.
FrameWith(data, cfg, bad_parity, stops) ==
  LET n == decode_data_bits(cfg.data_bits)
      p == GoodParity(data, n, cfg.parity_mode)
  IN << 0 >> \o [i \in 1 .. n |-> data[i - 1]]
     \o (IF cfg.parity_mode \in {PARITY_EVEN, PARITY_ODD}
         THEN << IF bad_parity THEN 1 - p ELSE p >> ELSE << >>)
     \o stops

StopsOf(cfg) == IF cfg.stop_bits = 1 THEN 2 ELSE 1

Frame(data, cfg) == FrameWith(data, cfg, FALSE, [s \in 1 .. StopsOf(cfg) |-> 1])
=============================================================================
