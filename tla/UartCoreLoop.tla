---------------------------- MODULE UartCoreLoop ----------------------------
(***************************************************************************)
(* A core whose transmit pin is wired to its receive pin, and its RTS pin  *)
(* to its CTS pin, or else anyone drives CTS.  The upper layer does as it  *)
(* likes at every edge.                                                    *)
(***************************************************************************)
EXTENDS UartCore

CONSTANTS
  Inc,       \* cfg_baud_inc
  Sends,     \* the bytes that the upper layer offers, in turn
  Setups     \* configurations and wirings; one for a behaviour

ASSUME LoopAssumption ==
  /\ Inc \in 1 .. AccSize - 1
  /\ Sends \in Seq(Bytes) \ {<< >>}
  /\ Setups \subseteq [cfg    : Config,
                       looped : BOOLEAN,          \* RTS is wired to CTS
                       clears : SUBSET BOOLEAN]   \* the values that the clear inputs take

VARIABLES
  setup,
  turn,       \* which of Sends comes next
  cts,        \* the pin, if it is not looped
  seen,       \* history: what the upper layer did and saw at the latest edge
  flight,     \* history: the characters launched and not yet received
  late        \* history: launches since CTS became inactive, at most 3

vars == << core, setup, turn, cts, seen, flight, late >>
cfg  == setup.cfg

Init ==
  /\ CoreReset
  /\ setup \in Setups /\ turn = 1 /\ cts = TRUE
  /\ seen = [accept |-> FALSE, pop |-> FALSE, clear |-> FALSE, overrun |-> FALSE, launch |-> FALSE]
  /\ flight = << >> /\ late = 0

cts_pin == IF setup.looped THEN rts_pin(cfg) ELSE cts

Received == IF rx.char_valid THEN Tail(flight) ELSE flight

Inputs == [line : {tx.line}, cts : {cts_pin}, tx_valid : BOOLEAN, tx_data : {Sends[turn]},
           rx_ready : BOOLEAN, clear_tx : setup.clears, clear_rx : setup.clears]

Clock == \E in \in Inputs :
  /\ CoreEdge(cfg, Inc, in)
  /\ seen' = [accept  |-> in.tx_valid /\ tx_byte_ready(cfg, in),
              pop     |-> rxq # << >> /\ in.rx_ready,
              clear   |-> in.clear_tx \/ in.clear_rx,
              overrun |-> event_rx_overrun(in),
              launch  |-> tx_start(cfg)]
  /\ flight' = IF tx_start(cfg) THEN Append(Received, Masked(tx_data, decode_data_bits(cfg.data_bits)))
               ELSE Received
  /\ late' = IF cts_pin THEN 0 ELSE IF tx_start(cfg) /\ late < 3 THEN late + 1 ELSE late
  /\ turn' = IF seen'.accept THEN (turn % Len(Sends)) + 1 ELSE turn
  /\ UNCHANGED << setup, cts >>

\* CTS changes between two edges.
CtsChanges ==
  /\ ~setup.looped /\ cts' = ~cts
  /\ UNCHANGED << core, setup, turn, seen, flight, late >>

Next == Clock \/ CtsChanges

Spec == Init /\ [][Next]_vars

\* Clock edges come for ever.
FairSpec == Spec /\ WF_vars(Clock)

-----------------------------------------------------------------------------
TypeOK ==
  /\ CoreTypeOK /\ setup \in Setups /\ turn \in DOMAIN Sends /\ cts \in BOOLEAN
  /\ seen \in [accept : BOOLEAN, pop : BOOLEAN, clear : BOOLEAN, overrun : BOOLEAN, launch : BOOLEAN]
  /\ flight \in Seq(Byte) /\ late \in 0 .. 3

\* All the bytes in the core and on its line, the oldest first.
Cut(data) == Masked(data, decode_data_bits(cfg.data_bits))
Pipeline  == [i \in DOMAIN rxq |-> rxq[i].data] \o flight \o [i \in DOMAIN txq |-> Cut(txq[i])]

\* Whatever is offered, popped and cleared, with or without flow control, the
\* bytes go through both FIFOs and the line in order and none twice, and one is
\* lost exactly when the overrun event is there at the edge; a clear takes bytes
\* only from the ends, never the character that is on the line.
Promise == INSTANCE ByteStream WITH q <- Pipeline, accept <- seen.accept, pop <- seen.pop,
                                    lost <- seen.overrun, clear <- seen.clear, Items <- Byte
ImplementsByteStream == Promise!StreamSpec

\* Types; in a core with the pins, RTS wired to CTS and flow control on, nothing is
\* ever lost: RTS leaves room for what is already under way when it is withdrawn.
\* The core receives its own characters without error.
KeepsAll ==
  /\ TypeOK
  /\ HAS_RTS_CTS /\ cfg.hw_flow /\ setup.looped => ~seen.overrun
  /\ \A i \in DOMAIN rxq : rxq[i].errors = Rx!NoErrors

\* Once CTS is inactive at the pin of a core that has it, at most one more character
\* is launched: the synchroniser is passed well before the next one can be.
StopsOnCts == HAS_RTS_CTS /\ cfg.hw_flow => late <= 1

\* A byte in the transmit FIFO is launched in the end, or cleared, if the upper layer
\* is ready to receive again and again: RTS is not withdrawn for good.
Launches ==
  (cfg.hw_flow => setup.looped) /\ []<>(seen.pop \/ rxq = << >>)
    => (txq # << >> ~> seen.launch \/ seen.clear)
=============================================================================
