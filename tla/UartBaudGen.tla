---------------------------- MODULE UartBaudGen ----------------------------
(***************************************************************************)
(* rtl_uart_core/src/uart_baud_gen.sv: a phase accumulator whose carry is  *)
(* the oversample tick; every OVERSAMPLE-th one is a baud tick as well.    *)
(***************************************************************************)
EXTENDS Naturals

CONSTANTS
  AccSize,    \* 2 ^ BAUD_ACC_W
  OVERSAMPLE

VARIABLE baud  \* the registers

OS_LAST == OVERSAMPLE - 1

BaudReset == [acc |-> 0, count |-> 0, oversample_tick |-> FALSE, baud_tick |-> FALSE]

Carry(inc) == baud.acc + inc >= AccSize

\* Seeded fault: the accumulator restarts at a carry and loses the remainder.
MutBaudEdge(enable, inc) ==
  baud' = IF ~enable THEN BaudReset
          ELSE [acc   |-> IF Carry(inc) THEN 0 ELSE baud.acc + inc,
                count |-> IF Carry(inc) THEN (baud.count + 1) % OVERSAMPLE ELSE baud.count,
                oversample_tick |-> Carry(inc),
                baud_tick       |-> Carry(inc) /\ baud.count = OS_LAST]

\* One rising clock edge out of reset.
BaudEdge(enable, inc) ==
  baud' = IF ~enable THEN BaudReset
          ELSE [acc   |-> (baud.acc + inc) % AccSize,
                count |-> CASE ~Carry(inc)                        -> baud.count
                            [] Carry(inc) /\ baud.count = OS_LAST -> 0
                            [] Carry(inc) /\ baud.count # OS_LAST -> baud.count + 1,
                oversample_tick |-> Carry(inc),
                baud_tick       |-> Carry(inc) /\ baud.count = OS_LAST]

BaudTypeOK == baud \in [acc : 0 .. AccSize - 1, count : 0 .. OVERSAMPLE - 1,
                        oversample_tick : BOOLEAN, baud_tick : BOOLEAN]
=============================================================================
