----------------------------- MODULE AgentProofs -----------------------------
(***************************************************************************)
(* Machine-checked proofs about two agents of the UART, each on its own:   *)
(* UartTxAgent, for every set of formats and time-outs and every number of *)
(* frames, cases and changes of settings, and UartCoreIntf at the end.     *)
(*                                                                         *)
(* UartTxAgent: the inductive invariant has four parts: types, the order   *)
(* of the tickets, their accounts, and what has been driven of each frame. *)
(***************************************************************************)
EXTENDS UartTxAgent, UartCoreIntf, SequenceTheorems, TLAPS

Symbols == {"idle", "start", "data", "parity", "stop"} \X Nat
Record  == [item : Item, driven : Seq(Symbols)]

Types == TypeOK /\ driven \in Seq(Symbols) /\ work \in Nat

\* TicketsInOrder, part by part: frames that were sent, the one that is being
\* sent, frames that wait, and the tickets that will be given.
Ordered ==
  /\ \A i, j \in 1 .. Len(history) : i < j => history[i].item.ticket < history[j].item.ticket
  /\ \A i, j \in 1 .. Len(pending) : i < j => pending[i].ticket < pending[j].ticket
  /\ \A i \in 1 .. Len(history), j \in 1 .. Len(pending) :
       history[i].item.ticket < pending[j].ticket
  /\ Sending => /\ \A i \in 1 .. Len(history) : history[i].item.ticket < item.ticket
                /\ \A j \in 1 .. Len(pending) : item.ticket < pending[j].ticket
                /\ item.ticket < next_ticket
  /\ \A i \in 1 .. Len(history) : history[i].item.ticket < next_ticket
  /\ \A j \in 1 .. Len(pending) : pending[j].ticket < next_ticket

Unsent(t) == \/ Sending /\ item.ticket = t
             \/ \E j \in 1 .. Len(pending) : pending[j].ticket = t

Accounted ==
  /\ \A j \in 1 .. Len(pending) : pending[j].ticket >= first_ticket
  /\ \A t \in DOMAIN ticket_done : t < next_ticket /\ (t < first_ticket => ticket_done[t])
  /\ \A t \in first_ticket .. next_ticket - 1 :
       t \in DOMAIN ticket_done /\ (~ticket_done[t] <=> Unsent(t))
  /\ waiting # None => waiting >= first_ticket

\* The k-th symbol of a frame, and how many it has.
SymbolAt(i, k) ==
  IF k = 1 THEN Start
  ELSE IF k <= 1 + i.format.data_bits THEN DataBit(k - 2)
  ELSE IF i.format.parity /\ k = 2 + i.format.data_bits THEN Parity(i.bad_parity)
  ELSE Stop(i.bad_stop)
ParityBits(i) == IF i.format.parity THEN 1 ELSE 0
Length(i)     == 1 + i.format.data_bits + ParityBits(i) + i.format.stop_bits

\* What has been driven of the frame at hand, at each point of send_item_.
SoFar ==
  /\ item.format = params
  /\ pc = "data" => bit <= params.data_bits /\ Len(driven) = 1 + bit
  /\ pc = "stop" => /\ bit <= params.stop_bits
                    /\ Len(driven) = 1 + params.data_bits + ParityBits(item) + bit
  /\ \A k \in 1 .. Len(driven) : driven[k] = SymbolAt(item, k)

Whole ==
  /\ \A j \in 1 .. Len(pending) : ~pending[j].touched => pending[j].format = params
  /\ pc \in {"align", "begin"} => driven = << >>
  /\ Sending /\ ~item.touched => SoFar
  /\ \A i \in 1 .. Len(history) :
       ~history[i].item.touched => history[i].driven = Image(history[i].item)
  /\ pc \in {"rst", "rts", "park"} => line = Idle

Inv == Types /\ Ordered /\ Accounted /\ Whole

-----------------------------------------------------------------------------
(* What an invariant state looks like, for the solvers.                     *)

LEMMA TypeFacts ==
  ASSUME Types
  PROVE  /\ pending \in Seq(Item) /\ Len(pending) \in Nat
         /\ \A j \in 1 .. Len(pending) : pending[j] \in Item
         /\ history \in Seq(Record) /\ Len(history) \in Nat
         /\ \A i \in 1 .. Len(history) : history[i] \in Record
         /\ driven \in Seq(Symbols) /\ Len(driven) \in Nat
         /\ next_ticket \in 1 .. MaxTickets + 1 /\ first_ticket \in 1 .. next_ticket
         /\ MaxTickets \in Nat /\ bit \in Nat
         /\ params \in Formats /\ params.data_bits \in Nat \ {0} /\ params.stop_bits \in {1, 2}
         /\ params.parity \in BOOLEAN
         /\ DOMAIN ticket_done \subseteq Tickets
         /\ \A t \in DOMAIN ticket_done : ticket_done[t] \in BOOLEAN
         /\ (Sending => item \in Item) /\ (~Sending => item = None)
BY AgentAssumption, ElementOfSeq, LenProperties DEF Types, TypeOK, Record, Symbols, Tickets

LEMMA ItemFacts ==
  ASSUME NEW i \in Item
  PROVE  /\ i.ticket \in Tickets /\ i.ticket \in Nat /\ i.format \in Formats
         /\ i.bad_stop \in BOOLEAN /\ i.bad_parity \in BOOLEAN /\ i.touched \in BOOLEAN
         /\ i.format.data_bits \in Nat \ {0} /\ i.format.stop_bits \in {1, 2}
         /\ i.format.parity \in BOOLEAN
         /\ Touch(i) \in Item /\ Touch(i).ticket = i.ticket /\ Touch(i).touched
<1>1. /\ i.ticket \in Tickets /\ i.ticket \in Nat /\ i.format \in Formats
      /\ i.bad_stop \in BOOLEAN /\ i.bad_parity \in BOOLEAN /\ i.touched \in BOOLEAN
  BY AgentAssumption DEF Item, Tickets
<1>2. /\ i.format.data_bits \in Nat \ {0} /\ i.format.stop_bits \in {1, 2}
      /\ i.format.parity \in BOOLEAN
  BY <1>1, AgentAssumption
<1>3. Touch(i) \in Item
  BY DEF Item, Touch
<1>4. Touch(i).ticket = i.ticket /\ Touch(i).touched
  BY DEF Item, Touch
<1> QED BY <1>1, <1>2, <1>3, <1>4

\* The image of a frame, symbol by symbol.
LEMMA ImageFacts ==
  ASSUME NEW i \in Item
  PROVE  /\ Image(i) \in Seq(Symbols) /\ Len(Image(i)) = Length(i)
         /\ \A k \in 1 .. Length(i) : Image(i)[k] = SymbolAt(i, k)
<1> DEFINE a == << Start >>
           b == [n \in 1 .. i.format.data_bits |-> DataBit(n - 1)]
           c == IF i.format.parity THEN << Parity(i.bad_parity) >> ELSE << >>
           d == [n \in 1 .. i.format.stop_bits |-> Stop(i.bad_stop)]
<1>1. /\ i.format.data_bits \in Nat \ {0} /\ i.format.stop_bits \in {1, 2}
      /\ i.format.parity \in BOOLEAN /\ i.bad_parity \in BOOLEAN /\ i.bad_stop \in BOOLEAN
  BY ItemFacts
<1>2. a \in Seq(Symbols) /\ Len(a) = 1 /\ a[1] = Start
  BY DEF Symbols, Start
<1>3. /\ b \in Seq(Symbols) /\ Len(b) = i.format.data_bits
      /\ \A n \in 1 .. i.format.data_bits : b[n] = DataBit(n - 1)
  BY <1>1 DEF Symbols, DataBit
<1>4. /\ c \in Seq(Symbols) /\ Len(c) = ParityBits(i)
      /\ i.format.parity => c[1] = Parity(i.bad_parity)
  <2>1. CASE i.format.parity
    BY <1>1, <2>1 DEF Symbols, Parity, ParityBits
  <2>2. CASE ~i.format.parity
    BY <1>1, <2>2, EmptySeq DEF ParityBits
  <2> QED BY <1>1, <2>1, <2>2
<1>5. /\ d \in Seq(Symbols) /\ Len(d) = i.format.stop_bits
      /\ \A n \in 1 .. i.format.stop_bits : d[n] = Stop(i.bad_stop)
  BY <1>1 DEF Symbols, Stop
<1>6. Image(i) = a \o b \o c \o d
  BY DEF Image
<1> HIDE DEF a, b, c, d
<1>7. /\ a \o b \in Seq(Symbols) /\ Len(a \o b) = 1 + i.format.data_bits
      /\ \A k \in 1 .. 1 + i.format.data_bits : (a \o b)[k] = SymbolAt(i, k)
  <2>1. /\ a \o b \in Seq(Symbols) /\ Len(a \o b) = 1 + i.format.data_bits
        /\ \A k \in 1 .. 1 + i.format.data_bits : (a \o b)[k] = IF k <= 1 THEN a[k] ELSE b[k - 1]
    <3>1. /\ a \o b \in Seq(Symbols) /\ Len(a \o b) = Len(a) + Len(b)
          /\ \A k \in 1 .. Len(a) + Len(b) :
               (a \o b)[k] = IF k <= Len(a) THEN a[k] ELSE b[k - Len(a)]
      BY <1>2, <1>3, ConcatProperties
    <3> QED BY <1>2, <1>3, <3>1
  <2>2. ASSUME NEW k \in 1 .. 1 + i.format.data_bits PROVE (a \o b)[k] = SymbolAt(i, k)
    <3>1. CASE k = 1
      BY <1>1, <1>2, <2>1, <3>1 DEF SymbolAt
    <3>2. CASE k # 1
      <4>1. k - 1 \in 1 .. i.format.data_bits /\ k - 1 - 1 = k - 2 /\ ~(k <= 1)
        BY <1>1, <3>2
      <4> QED BY <1>1, <1>3, <2>1, <3>2, <4>1 DEF SymbolAt
    <3> QED BY <3>1, <3>2
  <2> QED BY <2>1, <2>2
<1>8. /\ a \o b \o c \in Seq(Symbols) /\ Len(a \o b \o c) = 1 + i.format.data_bits + ParityBits(i)
      /\ \A k \in 1 .. 1 + i.format.data_bits + ParityBits(i) : (a \o b \o c)[k] = SymbolAt(i, k)
  <2> DEFINE m == 1 + i.format.data_bits
  <2>1. m \in Nat /\ ParityBits(i) \in Nat
    BY <1>1 DEF ParityBits
  <2>2. /\ a \o b \o c \in Seq(Symbols) /\ Len(a \o b \o c) = m + ParityBits(i)
        /\ \A k \in 1 .. m + ParityBits(i) :
             (a \o b \o c)[k] = IF k <= m THEN (a \o b)[k] ELSE c[k - m]
    <3> DEFINE ab == a \o b
    <3>1. ab \in Seq(Symbols) /\ Len(ab) = m
      BY <1>7
    <3> HIDE DEF ab
    <3>2. /\ ab \o c \in Seq(Symbols) /\ Len(ab \o c) = Len(ab) + Len(c)
          /\ \A k \in 1 .. Len(ab) + Len(c) :
               (ab \o c)[k] = IF k <= Len(ab) THEN ab[k] ELSE c[k - Len(ab)]
      BY <1>4, <3>1, ConcatProperties
    <3>3. /\ ab \o c \in Seq(Symbols) /\ Len(ab \o c) = m + ParityBits(i)
          /\ \A k \in 1 .. m + ParityBits(i) : (ab \o c)[k] = IF k <= m THEN ab[k] ELSE c[k - m]
      BY <1>4, <3>1, <3>2
    <3> QED BY <3>3 DEF ab
  <2>3. ASSUME NEW k \in 1 .. m + ParityBits(i) PROVE (a \o b \o c)[k] = SymbolAt(i, k)
    <3>1. CASE k <= m
      BY <1>7, <2>1, <2>2, <3>1
    <3>2. CASE ~(k <= m)
      <4>1. i.format.parity /\ k = m + 1 /\ k - m = 1
        BY <1>1, <2>1, <3>2 DEF ParityBits
      <4>2. SymbolAt(i, k) = Parity(i.bad_parity)
        BY <1>1, <4>1 DEF SymbolAt
      <4> QED BY <1>4, <2>2, <3>2, <4>1, <4>2
    <3> QED BY <3>1, <3>2
  <2> QED BY <2>2, <2>3
<1>9. /\ Image(i) \in Seq(Symbols) /\ Len(Image(i)) = Length(i)
  BY <1>1, <1>5, <1>6, <1>8, ConcatProperties DEF Length, ParityBits
<1>10. ASSUME NEW k \in 1 .. Length(i) PROVE Image(i)[k] = SymbolAt(i, k)
  <2> DEFINE m == 1 + i.format.data_bits + ParityBits(i)
  <2>1. m \in Nat /\ Length(i) = m + i.format.stop_bits
    BY <1>1 DEF Length, ParityBits
  <2>2. Image(i)[k] = IF k <= m THEN (a \o b \o c)[k] ELSE d[k - m]
    <3>1. Len(a \o b \o c) = m
      BY <1>8
    <3>2. k \in 1 .. Len(a \o b \o c) + Len(d)
      BY <1>5, <2>1, <3>1
    <3> HIDE DEF m
    <3>3. (a \o b \o c \o d)[k] = IF k <= Len(a \o b \o c) THEN (a \o b \o c)[k]
                                   ELSE d[k - Len(a \o b \o c)]
      BY <1>5, <1>8, <3>2, ConcatProperties
    <3> QED BY <1>6, <3>1, <3>3
  <2>3. CASE k <= m
    BY <1>8, <2>1, <2>2, <2>3
  <2>4. CASE ~(k <= m)
    <3>1. SymbolAt(i, k) = Stop(i.bad_stop)
      BY <1>1, <2>1, <2>4 DEF SymbolAt, ParityBits
    <3>2. k - m \in 1 .. i.format.stop_bits
      BY <1>1, <2>1, <2>4
    <3> QED BY <1>5, <2>1, <2>2, <2>4, <3>1, <3>2
  <2> QED BY <2>3, <2>4
<1> QED BY <1>9, <1>10

-----------------------------------------------------------------------------
LEMMA InitInv == Init => Inv
<1> SUFFICES ASSUME Init PROVE Inv
  OBVIOUS
<1>0. Len(pending) = 0 /\ Len(history) = 0 /\ Len(driven) = 0
  BY DEF Init
<1>1. Types
  <2>1. {next_bad_stop, next_bad_parity, respect_rts, rst, rts} \subseteq BOOLEAN
    BY AgentAssumption DEF Init
  <2>2. pending \in Seq(Item) /\ history \in Seq(Record) /\ driven \in Seq(Symbols)
    BY EmptySeq DEF Init
  <2>3. DOMAIN ticket_done = {}
    BY DEF Init, NoTickets
  <2> QED BY <2>1, <2>2, <2>3, AgentAssumption
          DEF Init, Types, TypeOK, Sending, Record, Symbols
<1>2. Ordered
  BY <1>0 DEF Init, Ordered, Sending
<1>3. Accounted
  <2>1. DOMAIN ticket_done = {}
    BY DEF Init, NoTickets
  <2> QED BY <1>0, <2>1 DEF Init, Accounted
<1>4. Whole
  BY <1>0 DEF Init, Whole, Sending
<1> QED BY <1>1, <1>2, <1>3, <1>4 DEF Inv

-----------------------------------------------------------------------------
(* Steps that leave frames and tickets alone.                               *)

LEMMA ArmErrorInv == Inv /\ ArmError => Inv'
<1> SUFFICES ASSUME Inv, ArmError PROVE Inv'
  OBVIOUS
<1> USE AgentAssumption DEF Inv, ArmError, CaseRuns, Spend, sender
<1>1. Types'
  <2>1. {next_bad_stop', next_bad_parity', respect_rts', rst', rts'} \subseteq BOOLEAN
    BY DEF Types, TypeOK
  <2> QED BY <2>1 DEF Types, TypeOK, Sending
<1>2. Ordered'
  BY DEF Ordered, Sending
<1>3. Accounted'
  BY DEF Accounted, Unsent, Sending
<1>4. Whole'
  BY DEF Whole, SoFar, Sending, ParityBits
<1> QED BY <1>1, <1>2, <1>3, <1>4

LEMMA SetFlowInv == Inv /\ SetFlow => Inv'
<1> SUFFICES ASSUME Inv, SetFlow PROVE Inv'
  OBVIOUS
<1> USE AgentAssumption DEF Inv, SetFlow, CaseRuns, Spend, sender
<1>1. Types'
  <2>1. {next_bad_stop', next_bad_parity', respect_rts', rst', rts'} \subseteq BOOLEAN
    BY DEF Types, TypeOK
  <2> QED BY <2>1 DEF Types, TypeOK, Sending
<1>2. Ordered'
  BY DEF Ordered, Sending
<1>3. Accounted'
  BY DEF Accounted, Unsent, Sending
<1>4. Whole'
  BY DEF Whole, SoFar, Sending, ParityBits
<1> QED BY <1>1, <1>2, <1>3, <1>4

LEMMA WaitDoneReturnsInv == Inv /\ WaitDoneReturns => Inv'
<1> SUFFICES ASSUME Inv, WaitDoneReturns PROVE Inv'
  OBVIOUS
<1> USE AgentAssumption DEF Inv, WaitDoneReturns, settings, sender
<1>1. Types'
  <2>1. {next_bad_stop', next_bad_parity', respect_rts', rst', rts'} \subseteq BOOLEAN
    BY DEF Types, TypeOK
  <2> QED BY <2>1 DEF Types, TypeOK, Sending
<1>2. Ordered'
  BY DEF Ordered, Sending
<1>3. Accounted'
  BY DEF Accounted, Unsent, Sending
<1>4. Whole'
  BY DEF Whole, SoFar, Sending, ParityBits
<1> QED BY <1>1, <1>2, <1>3, <1>4

LEMMA NetChangesInv == Inv /\ NetChanges => Inv'
<1> SUFFICES ASSUME Inv, NetChanges PROVE Inv'
  OBVIOUS
<1> USE AgentAssumption DEF Inv, NetChanges, Spend, settings, sender
<1>1. Types'
  <2>1. {next_bad_stop', next_bad_parity', respect_rts', rst', rts'} \subseteq BOOLEAN
    BY DEF Types, TypeOK
  <2> QED BY <2>1 DEF Types, TypeOK, Sending
<1>2. Ordered'
  BY DEF Ordered, Sending
<1>3. Accounted'
  BY DEF Accounted, Unsent, Sending
<1>4. Whole'
  BY DEF Whole, SoFar, Sending, ParityBits
<1> QED BY <1>1, <1>2, <1>3, <1>4

LEMMA DriveIdleInv == Inv /\ DriveIdle => Inv'
<1> SUFFICES ASSUME Inv, DriveIdle PROVE Inv'
  OBVIOUS
<1> USE AgentAssumption DEF Inv, DriveIdle, outside, settings
<1>1. Types'
  <2>1. {next_bad_stop', next_bad_parity', respect_rts', rst', rts'} \subseteq BOOLEAN
    BY DEF Types, TypeOK
  <2> QED BY <2>1 DEF Types, TypeOK, Sending
<1>2. Ordered'
  BY DEF Ordered, Sending
<1>3. Accounted'
  BY DEF Accounted, Unsent, Sending
<1>4. Whole'
  BY DEF Whole, SoFar, Sending, ParityBits
<1> QED BY <1>1, <1>2, <1>3, <1>4

LEMMA AlignInv == Inv /\ Align => Inv'
<1> SUFFICES ASSUME Inv, Align PROVE Inv'
  OBVIOUS
<1> USE AgentAssumption DEF Inv, Align, outside, settings
<1>1. Types'
  <2>1. {next_bad_stop', next_bad_parity', respect_rts', rst', rts'} \subseteq BOOLEAN
    BY DEF Types, TypeOK
  <2> QED BY <2>1 DEF Types, TypeOK, Sending
<1>2. Ordered'
  BY DEF Ordered, Sending
<1>3. Accounted'
  BY DEF Accounted, Unsent, Sending
<1>4. Whole'
  BY DEF Whole, SoFar, Sending, ParityBits
<1> QED BY <1>1, <1>2, <1>3, <1>4

-----------------------------------------------------------------------------
(* Calls of the test case.                                                  *)

LEMMA EnqueueInv == ASSUME Inv, NEW phase \in BOOLEAN, Enqueue(phase) PROVE Inv'
<1> DEFINE new == MakeItem(phase)
<1>1. /\ next_ticket <= MaxTickets /\ waiting = None
      /\ pending' = Append(pending, new) /\ next_ticket' = next_ticket + 1
      /\ ticket_done' = WithTicket(next_ticket, FALSE)
      /\ next_bad_stop' = FALSE /\ next_bad_parity' = FALSE
      /\ UNCHANGED << params, respect_rts, rts_wait_timeout, pc, item, bit, driven, waited, line,
                      history, rst, rts, waiting, first_ticket, work >>
  BY DEF Enqueue, CaseRuns, sender
<1>2. /\ new \in Item /\ new.ticket = next_ticket /\ new.format = params /\ next_ticket \in Tickets
      /\ next_ticket \in Nat
  BY <1>1, AgentAssumption DEF Inv, Types, TypeOK, MakeItem, Item, Tickets
<1> HIDE DEF new
<1>3. /\ pending' \in Seq(Item) /\ Len(pending') = Len(pending) + 1 /\ Len(pending) \in Nat
      /\ \A j \in 1 .. Len(pending) : pending'[j] = pending[j]
      /\ pending'[Len(pending) + 1] = new
  BY <1>1, <1>2, TypeFacts, AppendProperties DEF Inv
<1>4. /\ DOMAIN ticket_done' = DOMAIN ticket_done \cup {next_ticket}
      /\ ticket_done'[next_ticket] = FALSE
      /\ \A t \in DOMAIN ticket_done : t # next_ticket => ticket_done'[t] = ticket_done[t]
  BY <1>1 DEF WithTicket
<1>5. /\ first_ticket \in 1 .. next_ticket /\ MaxTickets \in Nat
      /\ DOMAIN ticket_done \subseteq Tickets
      /\ \A t \in DOMAIN ticket_done : ticket_done[t] \in BOOLEAN
      /\ Len(history) \in Nat
      /\ \A i \in 1 .. Len(history) : history[i].item.ticket \in Nat
      /\ \A j \in 1 .. Len(pending) : pending[j].ticket \in Nat
      /\ Sending => item.ticket \in Nat
  BY TypeFacts, ItemFacts DEF Inv, Record
<1>6. Types'
  <2>1. {next_bad_stop', next_bad_parity', respect_rts', rst', rts'} \subseteq BOOLEAN
    BY <1>1 DEF Inv, Types, TypeOK
  <2>2. /\ DOMAIN ticket_done' \subseteq Tickets
        /\ \A t \in DOMAIN ticket_done' : ticket_done'[t] \in BOOLEAN
    BY <1>2, <1>4, <1>5
  <2>3. next_ticket' \in 1 .. MaxTickets + 1 /\ first_ticket' \in 1 .. next_ticket'
    BY <1>1, <1>2, <1>5 DEF Tickets
  <2> QED BY <1>1, <1>3, <2>1, <2>2, <2>3 DEF Inv, Types, TypeOK, Sending
<1>7. Ordered'
  <2>1. Ordered /\ (Sending' <=> Sending)
    BY <1>1 DEF Inv, Sending
  <2>2. \A j \in 1 .. Len(pending') :
          \/ j \in 1 .. Len(pending) /\ pending'[j] = pending[j]
          \/ j = Len(pending) + 1 /\ pending'[j].ticket = next_ticket
    BY <1>2, <1>3
  <2>3. \A i, j \in 1 .. Len(pending') : i < j => pending'[i].ticket < pending'[j].ticket
    BY <1>3, <2>1, <2>2 DEF Ordered
  <2>4. \A i \in 1 .. Len(history), j \in 1 .. Len(pending') :
          history[i].item.ticket < pending'[j].ticket
    BY <1>3, <2>1, <2>2 DEF Ordered
  <2>5. Sending => \A j \in 1 .. Len(pending') : item.ticket < pending'[j].ticket
    BY <1>3, <2>1, <2>2 DEF Ordered
  <2>6. /\ \A i \in 1 .. Len(history) : history[i].item.ticket < next_ticket'
        /\ \A j \in 1 .. Len(pending') : pending'[j].ticket < next_ticket'
        /\ Sending => item.ticket < next_ticket'
    BY <1>1, <1>2, <1>3, <1>5, <2>1, <2>2 DEF Ordered
  <2> QED BY <1>1, <2>1, <2>3, <2>4, <2>5, <2>6 DEF Ordered
<1>8. Accounted'
  <2>1. ASSUME NEW t, t = next_ticket PROVE Unsent(t)'
    <3>1. Len(pending) + 1 \in 1 .. Len(pending') /\ pending'[Len(pending) + 1].ticket = t
      BY <1>2, <1>3, <2>1
    <3> QED BY <3>1 DEF Unsent
  <2>2. ASSUME NEW t, t # next_ticket PROVE Unsent(t)' <=> Unsent(t)
    BY <1>1, <1>2, <1>3, <2>2 DEF Unsent, Sending
  <2>3. \A j \in 1 .. Len(pending') : pending'[j].ticket >= first_ticket'
    BY <1>1, <1>2, <1>3, <1>5 DEF Inv, Accounted
  <2>4. \A t \in DOMAIN ticket_done' : t < next_ticket' /\ (t < first_ticket' => ticket_done'[t])
    <3> SUFFICES ASSUME NEW t \in DOMAIN ticket_done'
                 PROVE  t < next_ticket' /\ (t < first_ticket' => ticket_done'[t])
      OBVIOUS
    <3>1. CASE t = next_ticket
      <4>1. t < next_ticket'
        BY <1>1, <1>2, <3>1
      <4>2. ~(t < first_ticket')
        BY <1>1, <1>2, <1>5, <3>1
      <4> QED BY <4>1, <4>2
    <3>2. CASE t # next_ticket
      <4>1. t \in DOMAIN ticket_done /\ t \in Nat
        BY <1>4, <1>5, <3>2 DEF Tickets
      <4>2. t < next_ticket /\ (t < first_ticket => ticket_done[t])
        BY <4>1 DEF Inv, Accounted
      <4>3. ticket_done'[t] = ticket_done[t] /\ ticket_done[t] \in BOOLEAN
        BY <1>4, <1>5, <3>2, <4>1
      <4>4. t < first_ticket => ticket_done'[t]
        <5> SUFFICES ASSUME t < first_ticket PROVE ticket_done'[t]
          OBVIOUS
        <5>1. ticket_done[t] = TRUE
          BY <4>2, <4>3
        <5> QED BY <4>3, <5>1
      <4>5. t < next_ticket' /\ first_ticket' = first_ticket
        BY <1>1, <1>2, <4>1, <4>2
      <4> QED BY <4>4, <4>5, Zenon
    <3> QED BY <3>1, <3>2
  <2>5. ASSUME NEW t \in first_ticket .. next_ticket
        PROVE  t \in DOMAIN ticket_done' /\ (~ticket_done'[t] <=> Unsent(t)')
    <3>1. CASE t = next_ticket
      BY <1>4, <2>1, <3>1
    <3>2. CASE t # next_ticket
      <4>1. t \in first_ticket .. next_ticket - 1
        BY <1>2, <1>5, <3>2
      <4> QED BY <1>4, <2>2, <3>2, <4>1 DEF Inv, Accounted
    <3> QED BY <3>1, <3>2
  <2>6. first_ticket' .. next_ticket' - 1 = first_ticket .. next_ticket
    BY <1>1, <1>2, <1>5
  <2> QED BY <1>1, <2>3, <2>4, <2>5, <2>6 DEF Accounted
<1>9. Whole'
  BY <1>1, <1>2, <1>3 DEF Inv, Whole, SoFar, Sending, ParityBits
<1> QED BY <1>6, <1>7, <1>8, <1>9 DEF Inv

\* A change of the format marks every frame that is not sent.
LEMMA SetParamsInv == ASSUME Inv, NEW f \in Formats, SetParams(f) PROVE Inv'
<1>1. /\ waiting = None /\ params' = f
      /\ pending' = [j \in DOMAIN pending |-> Touch(pending[j])]
      /\ item' = IF item = None THEN None ELSE Touch(item)
      /\ work' = work + 1
      /\ UNCHANGED << next_bad_stop, next_bad_parity, respect_rts, rts_wait_timeout, pc, bit, driven,
                      waited, line, history, ticket_done, next_ticket, rst, rts, waiting,
                      first_ticket >>
  BY DEF SetParams, CaseRuns, Spend
<1>2. /\ pending \in Seq(Item) /\ Len(pending) \in Nat /\ DOMAIN pending = 1 .. Len(pending)
      /\ \A j \in 1 .. Len(pending) : pending[j] \in Item
      /\ (Sending => item \in Item /\ item # None) /\ (~Sending => item = None)
  BY TypeFacts, LenProperties, NoneAssumption DEF Inv
<1>3. /\ pending' \in Seq(Item) /\ Len(pending') = Len(pending)
      /\ \A j \in 1 .. Len(pending) : /\ pending'[j].ticket = pending[j].ticket
                                      /\ pending'[j].touched
  <2>1. \A j \in 1 .. Len(pending) : pending'[j] = Touch(pending[j]) /\ pending'[j] \in Item
    BY <1>1, <1>2, ItemFacts
  <2>2. pending' = [j \in 1 .. Len(pending) |-> Touch(pending[j])]
    BY <1>1, <1>2
  <2>3. pending' \in Seq(Item) /\ Len(pending') = Len(pending)
    BY <1>2, <2>1, <2>2, ItemFacts
  <2> QED BY <1>2, <2>1, <2>3, ItemFacts
<1>4. /\ Sending' = Sending
      /\ Sending => item' \in Item /\ item'.ticket = item.ticket /\ item'.touched
      /\ ~Sending => item' = None
  BY <1>1, <1>2, ItemFacts DEF Sending
<1>5. Types'
  <2>1. {next_bad_stop', next_bad_parity', respect_rts', rst', rts'} \subseteq BOOLEAN
    BY <1>1 DEF Inv, Types, TypeOK
  <2> QED BY <1>1, <1>3, <1>4, <2>1 DEF Inv, Types, TypeOK
<1>6. Ordered'
  BY <1>1, <1>3, <1>4 DEF Inv, Ordered
<1>7. Accounted'
  <2>1. ASSUME NEW t PROVE Unsent(t)' <=> Unsent(t)
    BY <1>1, <1>3, <1>4 DEF Unsent
  <2> QED BY <1>1, <1>3, <2>1 DEF Inv, Accounted
<1>8. Whole'
  BY <1>1, <1>3, <1>4 DEF Inv, Whole
<1> QED BY <1>5, <1>6, <1>7, <1>8 DEF Inv

LEMMA ClearHistoryInv == Inv /\ ClearHistory => Inv'
<1> SUFFICES ASSUME Inv, ClearHistory PROVE Inv'
  OBVIOUS
<1>1. /\ history' = << >> /\ Len(history') = 0 /\ history' \in Seq(Record)
      /\ UNCHANGED << settings, sender, pending, ticket_done, next_ticket, rst, rts,
                      waiting, first_ticket, work >>
  BY EmptySeq DEF ClearHistory
<1> USE <1>1 DEF Inv, settings, sender
<1>2. Types'
  <2>1. {next_bad_stop', next_bad_parity', respect_rts', rst', rts'} \subseteq BOOLEAN
    BY DEF Types, TypeOK
  <2> QED BY <2>1 DEF Types, TypeOK, Sending, Record, Symbols
<1>3. Ordered'
  BY DEF Ordered, Sending
<1>4. Accounted'
  BY DEF Accounted, Unsent, Sending
<1>5. Whole'
  BY DEF Whole, SoFar, Sending, ParityBits
<1> QED BY <1>2, <1>3, <1>4, <1>5

\* Only a ticket of the running case can be waited for, as older ones are done.
LEMMA WaitDoneInv == ASSUME Inv, NEW t \in Tickets, WaitDone(t) PROVE Inv'
<1>1. /\ t \in DOMAIN ticket_done /\ ~ticket_done[t] /\ waiting' = t
      /\ UNCHANGED << settings, sender, pending, history, ticket_done, next_ticket, rst, rts,
                      first_ticket, work >>
  BY DEF WaitDone, IsDone
<1>2. t >= first_ticket
  BY <1>1, TypeFacts DEF Inv, Accounted, Tickets
<1> USE <1>1, <1>2 DEF Inv, settings, sender
<1>3. Types'
  <2>1. {next_bad_stop', next_bad_parity', respect_rts', rst', rts'} \subseteq BOOLEAN
    BY DEF Types, TypeOK
  <2> QED BY <2>1 DEF Types, TypeOK, Sending
<1>4. Ordered'
  BY DEF Ordered, Sending
<1>5. Accounted'
  BY DEF Accounted, Unsent, Sending
<1>6. Whole'
  BY DEF Whole, SoFar, Sending, ParityBits
<1> QED BY <1>3, <1>4, <1>5, <1>6

\* A frame that is being sent is all that a new case inherits.
LEMMA NextCaseInv == Inv /\ NextCase => Inv'
<1> SUFFICES ASSUME Inv, NextCase PROVE Inv'
  OBVIOUS
<1>1. /\ waiting = None /\ pending' = << >> /\ history' = << >>
      /\ next_bad_stop' = FALSE /\ next_bad_parity' = FALSE
      /\ DOMAIN ticket_done' = {} /\ first_ticket' = next_ticket /\ work' = work + 1
      /\ UNCHANGED << params, respect_rts, rts_wait_timeout, pc, item, bit, driven, waited, line,
                      next_ticket, rst, rts, waiting >>
  BY DEF NextCase, CaseRuns, Spend, NoTickets, sender
<1>2. /\ Len(pending') = 0 /\ Len(history') = 0
      /\ pending' \in Seq(Item) /\ history' \in Seq(Record)
      /\ next_ticket \in 1 .. MaxTickets + 1 /\ MaxTickets \in Nat
  BY <1>1, EmptySeq, TypeFacts DEF Inv
<1>3. Types'
  <2>1. {next_bad_stop', next_bad_parity', respect_rts', rst', rts'} \subseteq BOOLEAN
    BY <1>1 DEF Inv, Types, TypeOK
  <2> QED BY <1>1, <1>2, <2>1 DEF Inv, Types, TypeOK, Sending, Record, Symbols
<1>4. Ordered'
  BY <1>1, <1>2 DEF Inv, Ordered, Sending
<1>5. Accounted'
  BY <1>1, <1>2 DEF Accounted
<1>6. Whole'
  BY <1>1, <1>2 DEF Inv, Whole, SoFar, Sending, ParityBits
<1> QED BY <1>3, <1>4, <1>5, <1>6 DEF Inv

-----------------------------------------------------------------------------
(* The sender.                                                              *)

\* The oldest frame goes from the queue to the line, or the queue is empty.
LEMMA TakeInv ==
  ASSUME Inv, pc \in {"rst", "rts"}, Take,
         UNCHANGED << settings, history, bit, line, ticket_done, next_ticket, rst, rts, waiting,
                      first_ticket, work >>,
         waited' \in Nat
  PROVE  Inv'
<1>0. ~Sending
  BY DEF Sending
<1>1. CASE pending = << >>
  <2>1. pc' = "undefined" /\ UNCHANGED << pending, item, driven >>
    BY <1>1 DEF Take
  <2> USE <1>0, <2>1 DEF Inv, settings
  <2>2. Types'
    <3>1. {next_bad_stop', next_bad_parity', respect_rts', rst', rts'} \subseteq BOOLEAN
      BY DEF Types, TypeOK
    <3> QED BY <3>1 DEF Types, TypeOK, Sending
  <2>3. Ordered'
    BY DEF Ordered, Sending
  <2>4. Accounted'
    BY DEF Accounted, Unsent, Sending
  <2>5. Whole'
    BY DEF Whole, Sending
  <2> QED BY <2>2, <2>3, <2>4, <2>5
<1>2. CASE pending # << >>
  <2>1. /\ item' = Head(pending) /\ pending' = Tail(pending) /\ driven' = << >>
        /\ pc' \in {"align", "begin"}
    BY <1>2 DEF Take
  <2>2. /\ Len(pending) \in Nat \ {0} /\ item' = pending[1] /\ item' \in Item
        /\ pending' \in Seq(Item) /\ Len(pending') = Len(pending) - 1
        /\ \A j \in 1 .. Len(pending') : pending'[j] = pending[j + 1]
    BY <1>2, <2>1, TypeFacts, HeadTailProperties, EmptySeq DEF Inv
  <2>3. Len(driven') = 0 /\ driven' \in Seq(Symbols)
    BY <2>1, EmptySeq
  <2>4. Sending'
    BY <2>1 DEF Sending
  <2>5. /\ UNCHANGED << params, next_bad_stop, next_bad_parity, respect_rts, rts_wait_timeout,
                        history, bit, line, ticket_done, next_ticket, rst, rts, waiting,
                        first_ticket, work >>
    BY DEF settings
  <2>6. Types'
    <3>1. {next_bad_stop', next_bad_parity', respect_rts', rst', rts'} \subseteq BOOLEAN
      BY <2>5 DEF Inv, Types, TypeOK
    <3> QED BY <2>1, <2>2, <2>3, <2>4, <2>5, <3>1 DEF Inv, Types, TypeOK
  <2>7. Ordered'
    <3>1. 1 \in 1 .. Len(pending) /\ \A j \in 1 .. Len(pending') : j + 1 \in 1 .. Len(pending)
      BY <2>2
    <3>2. \A j \in 1 .. Len(pending') : 1 < j + 1
      OBVIOUS
    <3>3. \A i, j \in 1 .. Len(pending') : i < j => i + 1 < j + 1
      OBVIOUS
    <3> QED BY <2>2, <2>4, <2>5, <3>1, <3>2, <3>3 DEF Inv, Ordered
  <2>8. Accounted'
    <3>1. ASSUME NEW t PROVE Unsent(t)' <=> Unsent(t)
      <4>1. Unsent(t) <=> \E j \in 1 .. Len(pending) : pending[j].ticket = t
        BY <1>0 DEF Unsent
      <4>2. Unsent(t)' <=> \/ pending[1].ticket = t
                           \/ \E j \in 1 .. Len(pending) - 1 : pending[j + 1].ticket = t
        BY <2>2, <2>4 DEF Unsent
      <4>3. ASSUME NEW j \in 1 .. Len(pending), pending[j].ticket = t
            PROVE  \/ pending[1].ticket = t
                   \/ \E k \in 1 .. Len(pending) - 1 : pending[k + 1].ticket = t
        <5>1. CASE j = 1
          BY <4>3, <5>1
        <5>2. CASE j # 1
          <6>1. j - 1 \in 1 .. Len(pending) - 1 /\ (j - 1) + 1 = j
            BY <2>2, <5>2
          <6> QED BY <4>3, <6>1
        <5> QED BY <5>1, <5>2
      <4>4. \A k \in 1 .. Len(pending) - 1 : k + 1 \in 1 .. Len(pending)
        BY <2>2
      <4>5. 1 \in 1 .. Len(pending)
        BY <2>2
      <4> QED BY <4>1, <4>2, <4>3, <4>4, <4>5
    <3>2. \A j \in 1 .. Len(pending') : j + 1 \in 1 .. Len(pending)
      BY <2>2
    <3> QED BY <2>2, <2>5, <3>1, <3>2 DEF Inv, Accounted
  <2>9. Whole'
    <3>1. 1 \in 1 .. Len(pending) /\ \A j \in 1 .. Len(pending') : j + 1 \in 1 .. Len(pending)
      BY <2>2
    <3> QED BY <2>1, <2>2, <2>3, <2>5, <3>1 DEF Inv, Whole, SoFar
  <2> QED BY <2>6, <2>7, <2>8, <2>9 DEF Inv
<1> QED BY <1>1, <1>2

LEMMA SampleInv == Inv /\ (SampleReset \/ SampleRts) => Inv'
<1> SUFFICES ASSUME Inv, SampleReset \/ SampleRts PROVE Inv'
  OBVIOUS
<1>1. /\ UNCHANGED << settings, history, bit, line, ticket_done, next_ticket, rst, rts, waiting,
                      first_ticket, work >>
      /\ pc \in {"rst", "rts"} /\ ~Sending /\ waited \in Nat /\ waited' \in Nat
  <2>1. waited \in Nat
    BY DEF Inv, Types, TypeOK
  <2> QED BY <2>1 DEF SampleReset, SampleRts, outside, settings, Sending
<1>2. \/ Take
      \/ pc' \in {"rst", "rts", "park"} /\ UNCHANGED << pending, item, driven >>
  BY DEF SampleReset, SampleRts
<1>3. CASE Take
  BY <1>1, <1>3, TakeInv
<1>4. CASE pc' \in {"rst", "rts", "park"} /\ UNCHANGED << pending, item, driven >>
  <2> USE <1>1, <1>4 DEF Inv, settings
  <2>1. Types'
    <3>1. {next_bad_stop', next_bad_parity', respect_rts', rst', rts'} \subseteq BOOLEAN
      BY DEF Types, TypeOK
    <3> QED BY <3>1 DEF Types, TypeOK, Sending
  <2>2. Ordered'
    BY DEF Ordered, Sending
  <2>3. Accounted'
    BY DEF Accounted, Unsent, Sending
  <2>4. Whole'
    BY DEF Whole, Sending
  <2> QED BY <2>1, <2>2, <2>3, <2>4
<1> QED BY <1>2, <1>3, <1>4

\* One more symbol of a frame, and the right one unless the format was changed.
LEMMA DriveInv ==
  ASSUME Inv, Sending, Sending', NEW symbol \in Symbols, Drive(symbol), bit' \in Nat,
         pc' \in {"data", "stop"},
         ~item.touched /\ SoFar =>
           /\ pc' = "data" => bit' <= params.data_bits /\ Len(driven) = bit'
           /\ pc' = "stop" => /\ bit' <= params.stop_bits
                              /\ Len(driven) = params.data_bits + ParityBits(item) + bit'
           /\ symbol = SymbolAt(item, Len(driven) + 1)
  PROVE  Inv'
<1>1. /\ driven' = Append(driven, symbol)
      /\ UNCHANGED << params, next_bad_stop, next_bad_parity, respect_rts, rts_wait_timeout,
                      ticket_done, next_ticket, rst, rts, waiting, first_ticket, work,
                      pending, history, item, waited >>
  BY DEF Drive, outside, settings
<1>2. /\ driven' \in Seq(Symbols) /\ Len(driven') = Len(driven) + 1 /\ Len(driven) \in Nat
      /\ \A k \in 1 .. Len(driven) : driven'[k] = driven[k]
      /\ driven'[Len(driven) + 1] = symbol
  BY <1>1, TypeFacts, AppendProperties DEF Inv
<1>3. Types'
  <2>1. {next_bad_stop', next_bad_parity', respect_rts', rst', rts'} \subseteq BOOLEAN
    BY <1>1 DEF Inv, Types, TypeOK
  <2> QED BY <1>1, <1>2, <2>1 DEF Inv, Types, TypeOK
<1>4. Ordered'
  BY <1>1 DEF Inv, Ordered
<1>5. Accounted'
  BY <1>1 DEF Inv, Accounted, Unsent
<1>6. ~item.touched => SoFar'
  <2> SUFFICES ASSUME ~item.touched PROVE SoFar'
    OBVIOUS
  <2>1. SoFar
    BY DEF Inv, Whole
  <2>2. params.data_bits \in Nat /\ params.stop_bits \in Nat /\ ParityBits(item) \in Nat
    BY TypeFacts DEF Inv, ParityBits
  <2>3. ASSUME NEW k \in 1 .. Len(driven') PROVE driven'[k] = SymbolAt(item, k)
    <3>1. CASE k \in 1 .. Len(driven)
      BY <1>2, <2>1, <3>1 DEF SoFar
    <3>2. CASE k = Len(driven) + 1
      BY <1>2, <2>1, <3>2
    <3> QED BY <1>2, <3>1, <3>2
  <2>4. ParityBits(item)' = ParityBits(item)
    BY <1>1 DEF ParityBits
  <2>5. \A k \in 1 .. Len(driven') : driven'[k] = SymbolAt(item', k)
    BY <1>1, <2>3
  <2>6. item'.format = params'
    BY <1>1, <2>1 DEF SoFar
  <2>7. /\ pc' = "data" => bit' <= params'.data_bits /\ Len(driven') = 1 + bit'
        /\ pc' = "stop" => /\ bit' <= params'.stop_bits
                           /\ Len(driven') = 1 + params'.data_bits + ParityBits(item) + bit'
    BY <1>1, <1>2, <2>1, <2>2
  <2> QED BY <2>4, <2>5, <2>6, <2>7 DEF SoFar
<1>7. Whole'
  BY <1>1, <1>6 DEF Inv, Whole
<1> QED BY <1>3, <1>4, <1>5, <1>7 DEF Inv

LEMMA SymbolFacts ==
  /\ Start \in Symbols
  /\ \A b \in Nat : DataBit(b) \in Symbols
  /\ \A bad \in BOOLEAN : Parity(bad) \in Symbols /\ Stop(bad) \in Symbols
BY DEF Symbols, Start, DataBit, Parity, Stop

LEMMA SendStartInv == Inv /\ SendStart => Inv'
<1> SUFFICES ASSUME Inv, SendStart PROVE Inv'
  OBVIOUS
<1>1. pc = "begin" /\ pc' = "data" /\ bit' = 0 /\ Drive(Start) /\ Sending /\ Sending'
  BY DEF SendStart, Sending
<1>2. Len(driven) = 0
  BY <1>1, EmptySeq DEF Inv, Whole
<1>3. params.data_bits \in Nat
  BY TypeFacts DEF Inv
<1>4. SymbolAt(item, Len(driven) + 1) = Start
  BY <1>2 DEF SymbolAt
<1> QED BY <1>1, <1>2, <1>3, <1>4, SymbolFacts, DriveInv

LEMMA SendDataInv == Inv /\ SendData => Inv'
<1> SUFFICES ASSUME Inv, SendData PROVE Inv'
  OBVIOUS
<1>1. /\ pc = "data" /\ pc' = "data" /\ bit < params.data_bits /\ bit' = bit + 1
      /\ Drive(DataBit(bit)) /\ Sending /\ Sending'
  BY DEF SendData, Sending
<1>2. bit \in Nat /\ params.data_bits \in Nat
  BY TypeFacts DEF Inv
<1>3. SoFar => Len(driven) = 1 + bit /\ SymbolAt(item, Len(driven) + 1) = DataBit(bit)
  BY <1>1, <1>2 DEF SoFar, SymbolAt
<1> QED BY <1>1, <1>2, <1>3, SymbolFacts, DriveInv

LEMMA SendParityInv == Inv /\ SendParity => Inv'
<1> SUFFICES ASSUME Inv, SendParity PROVE Inv'
  OBVIOUS
<1>1. /\ pc = "data" /\ pc' = "stop" /\ bit >= params.data_bits /\ bit' = 0 /\ params.parity
      /\ Drive(Parity(item.bad_parity)) /\ Sending /\ Sending'
  BY DEF SendParity, DataSent, Sending
<1>2. /\ bit \in Nat /\ params.data_bits \in Nat /\ params.stop_bits \in Nat
      /\ item.bad_parity \in BOOLEAN
  BY <1>1, TypeFacts, ItemFacts DEF Inv
<1>3. SoFar => /\ Len(driven) = 1 + params.data_bits /\ ParityBits(item) = 1
               /\ SymbolAt(item, Len(driven) + 1) = Parity(item.bad_parity)
  BY <1>1, <1>2 DEF SoFar, SymbolAt, ParityBits
<1> QED BY <1>1, <1>2, <1>3, SymbolFacts, DriveInv

LEMMA SendStopInv == Inv /\ SendStop => Inv'
<1> SUFFICES ASSUME Inv, SendStop PROVE Inv'
  OBVIOUS
<1>1. /\ pc \in {"data", "stop"} /\ pc' = "stop" /\ Drive(Stop(item.bad_stop))
      /\ Sending /\ Sending'
      /\ \/ pc = "data" /\ bit >= params.data_bits /\ ~params.parity /\ bit' = 1
         \/ pc = "stop" /\ bit < params.stop_bits /\ bit' = bit + 1
  BY DEF SendStop, DataSent, Sending
<1>2. /\ bit \in Nat /\ params.data_bits \in Nat \ {0} /\ params.stop_bits \in {1, 2}
      /\ item.bad_stop \in BOOLEAN /\ params.parity \in BOOLEAN
  BY <1>1, TypeFacts, ItemFacts DEF Inv
<1>3. SoFar => /\ bit' <= params.stop_bits
               /\ Len(driven) = params.data_bits + ParityBits(item) + bit'
               /\ SymbolAt(item, Len(driven) + 1) = Stop(item.bad_stop)
  <2> SUFFICES ASSUME SoFar
               PROVE  /\ bit' <= params.stop_bits
                      /\ Len(driven) = params.data_bits + ParityBits(item) + bit'
                      /\ SymbolAt(item, Len(driven) + 1) = Stop(item.bad_stop)
    OBVIOUS
  <2>1. item.format = params
    BY DEF SoFar
  <2>2. CASE pc = "data"
    <3>1. bit = params.data_bits /\ Len(driven) = 1 + bit /\ ParityBits(item) = 0 /\ bit' = 1
      BY <1>1, <1>2, <2>1, <2>2 DEF SoFar, ParityBits
    <3> QED BY <1>1, <1>2, <2>1, <2>2, <3>1 DEF SymbolAt
  <2>3. CASE pc = "stop"
    <3>1. Len(driven) = 1 + params.data_bits + ParityBits(item) + bit /\ bit' = bit + 1
          /\ bit < params.stop_bits
      BY <1>1, <1>2, <2>3 DEF SoFar
    <3> QED BY <1>1, <1>2, <2>1, <3>1 DEF SymbolAt, ParityBits
  <2> QED BY <1>1, <2>2, <2>3
<1>4. bit' \in Nat /\ Stop(item.bad_stop) \in Symbols
  BY <1>1, <1>2, SymbolFacts
<1> QED BY <1>1, <1>3, <1>4, DriveInv

\* The ticket of a frame is done when its last stop bit is; the frame is whole.
LEMMA FrameSentInv == Inv /\ FrameSent => Inv'
<1> SUFFICES ASSUME Inv, FrameSent PROVE Inv'
  OBVIOUS
<1> DEFINE sent == [item |-> item, driven |-> driven]
<1>1. /\ pc = "stop" /\ bit >= params.stop_bits /\ line' = Idle
      /\ history' = Append(history, sent)
      /\ ticket_done' = WithTicket(item.ticket, TRUE) /\ pc' = "rst" /\ item' = None
      /\ UNCHANGED << params, next_bad_stop, next_bad_parity, respect_rts, rts_wait_timeout, pending,
                      next_ticket, bit, driven, waited, rst, rts, waiting, first_ticket, work >>
  BY DEF FrameSent, settings
<1>2. Sending /\ ~Sending' /\ item \in Item
  BY <1>1, TypeFacts DEF Inv, Sending
<1>3. sent \in Record /\ sent.item = item /\ sent.driven = driven
  BY <1>2, TypeFacts DEF Inv, Record
<1> HIDE DEF sent
<1>4. /\ history' \in Seq(Record) /\ Len(history') = Len(history) + 1 /\ Len(history) \in Nat
      /\ \A i \in 1 .. Len(history) : history'[i] = history[i]
      /\ history'[Len(history) + 1] = sent
  BY <1>1, <1>3, TypeFacts, AppendProperties DEF Inv
<1>5. /\ DOMAIN ticket_done' = DOMAIN ticket_done \cup {item.ticket}
      /\ ticket_done'[item.ticket] = TRUE
      /\ \A t \in DOMAIN ticket_done : t # item.ticket => ticket_done'[t] = ticket_done[t]
  BY <1>1 DEF WithTicket
<1>6. /\ item.ticket \in Tickets /\ item.ticket \in Nat /\ DOMAIN ticket_done \subseteq Tickets
      /\ \A t \in DOMAIN ticket_done : ticket_done[t] \in BOOLEAN
      /\ Len(pending) \in Nat /\ \A j \in 1 .. Len(pending) : pending[j].ticket \in Nat
      /\ item.ticket < next_ticket /\ first_ticket \in Nat /\ next_ticket \in Nat
      /\ \A j \in 1 .. Len(pending) : item.ticket < pending[j].ticket
  BY <1>2, TypeFacts, ItemFacts DEF Inv, Ordered
<1>7. Types'
  <2>1. {next_bad_stop', next_bad_parity', respect_rts', rst', rts'} \subseteq BOOLEAN
    BY <1>1 DEF Inv, Types, TypeOK
  <2>2. /\ DOMAIN ticket_done' \subseteq Tickets
        /\ \A t \in DOMAIN ticket_done' : ticket_done'[t] \in BOOLEAN
    BY <1>5, <1>6
  <2> QED BY <1>1, <1>2, <1>4, <2>1, <2>2 DEF Inv, Types, TypeOK, Record, Symbols
<1>8. Ordered'
  <2>1. \A i \in 1 .. Len(history') :
          history'[i].item.ticket = IF i = Len(history) + 1 THEN item.ticket
                                    ELSE history[i].item.ticket
    BY <1>3, <1>4
  <2>2. \A i \in 1 .. Len(history') : i # Len(history) + 1 => i \in 1 .. Len(history)
    BY <1>4
  <2> QED BY <1>1, <1>2, <1>4, <2>1, <2>2 DEF Inv, Ordered
<1>9. Accounted'
  <2>1. ASSUME NEW t, t = item.ticket PROVE ~Unsent(t)'
    <3>1. \A j \in 1 .. Len(pending) : pending[j].ticket # t
      BY <1>6, <2>1
    <3> QED BY <1>1, <1>2, <3>1 DEF Unsent
  <2>2. ASSUME NEW t, t # item.ticket PROVE Unsent(t)' <=> Unsent(t)
    BY <1>1, <1>2, <2>2 DEF Unsent
  <2>3. ASSUME NEW t \in first_ticket .. next_ticket - 1
        PROVE  t \in DOMAIN ticket_done' /\ (~ticket_done'[t] <=> Unsent(t)')
    <3>1. CASE t = item.ticket
      BY <1>5, <2>1, <3>1
    <3>2. CASE t # item.ticket
      BY <1>5, <2>2, <3>2 DEF Inv, Accounted
    <3> QED BY <3>1, <3>2
  <2>4. \A t \in DOMAIN ticket_done' : t < next_ticket' /\ (t < first_ticket' => ticket_done'[t])
    BY <1>1, <1>5, <1>6 DEF Inv, Accounted
  <2> QED BY <1>1, <2>3, <2>4 DEF Inv, Accounted
<1>10. Whole'
  <2>1. ~item.touched => driven = Image(item)
    <3> SUFFICES ASSUME ~item.touched PROVE driven = Image(item)
      OBVIOUS
    <3>1. SoFar
      BY <1>2 DEF Inv, Whole
    <3>2. params.stop_bits \in Nat /\ bit \in Nat /\ driven \in Seq(Symbols)
      BY TypeFacts DEF Inv
    <3>3. bit = params.stop_bits
      BY <1>1, <3>1, <3>2 DEF SoFar
    <3>4. Len(driven) = Length(item)
      BY <1>1, <3>1, <3>3 DEF SoFar, Length
    <3>5. /\ Image(item) \in Seq(Symbols) /\ Len(Image(item)) = Length(item)
          /\ \A k \in 1 .. Length(item) : driven[k] = Image(item)[k]
      BY <1>2, <3>1, <3>4, ImageFacts DEF SoFar
    <3> QED BY <3>2, <3>4, <3>5, SeqEqual
  <2>2. \A i \in 1 .. Len(history') :
          ~history'[i].item.touched => history'[i].driven = Image(history'[i].item)
    <3> SUFFICES ASSUME NEW i \in 1 .. Len(history'), ~history'[i].item.touched
                 PROVE  history'[i].driven = Image(history'[i].item)
      OBVIOUS
    <3>1. CASE i = Len(history) + 1
      BY <1>3, <1>4, <2>1, <3>1
    <3>2. CASE i \in 1 .. Len(history)
      BY <1>4, <3>2 DEF Inv, Whole
    <3> QED BY <1>4, <3>1, <3>2
  <2> QED BY <1>1, <1>2, <2>2 DEF Inv, Whole
<1> QED BY <1>7, <1>8, <1>9, <1>10 DEF Inv

-----------------------------------------------------------------------------
LEMMA Invariance == Spec => []Inv
<1>1. Inv /\ [Next]_vars => Inv'
  <2> SUFFICES ASSUME Inv, [Next]_vars PROVE Inv'
    OBVIOUS
  <2>1. CASE Case
    BY <2>1, EnqueueInv, ArmErrorInv, SetParamsInv, SetFlowInv, ClearHistoryInv, WaitDoneInv,
       NextCaseInv DEF Case
  <2>2. CASE WaitDoneReturns
    BY <2>2, WaitDoneReturnsInv
  <2>3. CASE Agent
    BY <2>3, DriveIdleInv, SampleInv, AlignInv, SendStartInv, SendDataInv, SendParityInv,
       SendStopInv, FrameSentInv DEF Agent
  <2>4. CASE NetChanges
    BY <2>4, NetChangesInv
  <2>5. CASE UNCHANGED vars
    <3> USE <2>5 DEF Inv, vars, settings, sender
    <3>1. Types'
      <4>1. {next_bad_stop', next_bad_parity', respect_rts', rst', rts'} \subseteq BOOLEAN
        BY DEF Types, TypeOK
      <4> QED BY <4>1 DEF Types, TypeOK, Sending
    <3>2. Ordered'
      BY DEF Ordered, Sending
    <3>3. Accounted'
      BY DEF Accounted, Unsent, Sending
    <3>4. Whole'
      BY DEF Whole, SoFar, Sending, ParityBits
    <3> QED BY <3>1, <3>2, <3>3, <3>4
  <2> QED BY <2>1, <2>2, <2>3, <2>4, <2>5 DEF Next
<1> QED BY InitInv, <1>1, PTL DEF Spec

\* Every variable of the agent and its sender keeps its type.
THEOREM AgentTypeCorrect == Spec => []TypeOK
<1>1. Inv => TypeOK
  BY DEF Inv, Types
<1> QED BY <1>1, Invariance, PTL

\* A frame leaves before those that were enqueued after it and once at most,
\* whatever RTS, resets, time-outs and new cases come in between
\* (tx_coroutines.cpp:31-71).
THEOREM FramesInOrder == Spec => []TicketsInOrder
<1>1. Inv => TicketsInOrder
  <2> SUFFICES ASSUME Inv PROVE TicketsInOrder
    OBVIOUS
  <2> DEFINE h == Len(history)
             f == IF Sending THEN 1 ELSE 0
             p == Len(pending)
             all == Sent \o InFlight \o Queue
  <2>1. /\ h \in Nat /\ p \in Nat /\ f \in {0, 1}
        /\ \A i \in 1 .. h : history[i].item.ticket \in Nat
        /\ \A j \in 1 .. p : pending[j].ticket \in Nat
        /\ Sending => item.ticket \in Nat
    BY TypeFacts, ItemFacts DEF Inv, Record
  <2>2. Sent \in Seq(Nat) /\ Len(Sent) = h /\ \A i \in 1 .. h : Sent[i] = history[i].item.ticket
    <3>1. DOMAIN history = 1 .. h
      BY TypeFacts, LenProperties DEF Inv
    <3>2. Sent = [i \in 1 .. h |-> history[i].item.ticket]
      BY <3>1 DEF Sent
    <3> QED BY <2>1, <3>2
  <2>3. Queue \in Seq(Nat) /\ Len(Queue) = p /\ \A j \in 1 .. p : Queue[j] = pending[j].ticket
    <3>1. DOMAIN pending = 1 .. p
      BY TypeFacts, LenProperties DEF Inv
    <3>2. Queue = [j \in 1 .. p |-> pending[j].ticket]
      BY <3>1 DEF Queue
    <3> QED BY <2>1, <3>2
  <2>4. InFlight \in Seq(Nat) /\ Len(InFlight) = f /\ (f = 1 => Sending /\ InFlight[1] = item.ticket)
    <3>1. CASE Sending
      BY <2>1, <3>1 DEF InFlight
    <3>2. CASE ~Sending
      BY <3>2, EmptySeq DEF InFlight
    <3> QED BY <3>1, <3>2
  <2> HIDE DEF h, f, p
  <2>5. /\ Sent \o InFlight \in Seq(Nat) /\ Len(Sent \o InFlight) = h + f
        /\ \A k \in 1 .. h + f : (Sent \o InFlight)[k] = IF k <= h THEN Sent[k] ELSE InFlight[k - h]
    <3>1. /\ Sent \o InFlight \in Seq(Nat) /\ Len(Sent \o InFlight) = Len(Sent) + Len(InFlight)
          /\ \A k \in 1 .. Len(Sent) + Len(InFlight) :
               (Sent \o InFlight)[k] = IF k <= Len(Sent) THEN Sent[k] ELSE InFlight[k - Len(Sent)]
      BY <2>2, <2>4, ConcatProperties
    <3> QED BY <2>2, <2>4, <3>1
  <2>6. /\ all \in Seq(Nat) /\ Len(all) = h + f + p
        /\ \A k \in 1 .. h + f + p :
             all[k] = IF k <= h + f THEN (Sent \o InFlight)[k] ELSE Queue[k - (h + f)]
    <3> DEFINE first == Sent \o InFlight
    <3>1. first \in Seq(Nat) /\ Len(first) = h + f
      BY <2>5
    <3> HIDE DEF first
    <3>2. /\ first \o Queue \in Seq(Nat) /\ Len(first \o Queue) = Len(first) + Len(Queue)
          /\ \A k \in 1 .. Len(first) + Len(Queue) :
               (first \o Queue)[k] = IF k <= Len(first) THEN first[k] ELSE Queue[k - Len(first)]
      BY <2>3, <3>1, ConcatProperties
    <3>3. /\ first \o Queue \in Seq(Nat) /\ Len(first \o Queue) = h + f + p
          /\ \A k \in 1 .. h + f + p :
               (first \o Queue)[k] = IF k <= h + f THEN first[k] ELSE Queue[k - (h + f)]
      BY <2>3, <3>1, <3>2
    <3> QED BY <3>3 DEF first
  <2>7. DOMAIN all = 1 .. h + f + p
    BY <2>6, LenProperties
  \* Which of the three a position falls into.
  <2>8. ASSUME NEW k \in 1 .. h + f + p
        PROVE  \/ k \in 1 .. h /\ all[k] = history[k].item.ticket
               \/ k = h + 1 /\ f = 1 /\ Sending /\ all[k] = item.ticket
               \/ k > h + f /\ k - (h + f) \in 1 .. p /\ all[k] = pending[k - (h + f)].ticket
    <3>1. CASE k <= h
      <4>1. k \in 1 .. h /\ k \in 1 .. h + f /\ k <= h + f
        BY <2>1, <3>1
      <4> QED BY <2>2, <2>5, <2>6, <3>1, <4>1
    <3>2. CASE ~(k <= h) /\ k <= h + f
      <4>1. k = h + 1 /\ f = 1 /\ k - h = 1 /\ k \in 1 .. h + f
        BY <2>1, <3>2
      <4>2. all[k] = (Sent \o InFlight)[k]
        BY <2>6, <3>2
      <4>3. (Sent \o InFlight)[k] = InFlight[1]
        BY <2>5, <3>2, <4>1
      <4> QED BY <2>4, <4>1, <4>2, <4>3
    <3>3. CASE ~(k <= h + f)
      <4>1. k > h + f /\ k - (h + f) \in 1 .. p
        BY <2>1, <3>3
      <4> QED BY <2>3, <2>6, <3>3, <4>1
    <3> QED BY <2>1, <3>1, <3>2, <3>3
  <2> HIDE DEF all
  <2>9. ASSUME NEW i \in 1 .. h + f + p, NEW j \in 1 .. h + f + p, i < j
        PROVE  all[i] < all[j]
    <3>1. CASE i \in 1 .. h /\ all[i] = history[i].item.ticket
      <4>1. CASE j \in 1 .. h /\ all[j] = history[j].item.ticket
        BY <2>9, <3>1, <4>1 DEF Inv, Ordered, h
      <4>2. CASE Sending /\ all[j] = item.ticket
        BY <3>1, <4>2 DEF Inv, Ordered, h
      <4>3. CASE j - (h + f) \in 1 .. p /\ all[j] = pending[j - (h + f)].ticket
        BY <3>1, <4>3 DEF Inv, Ordered, h, p
      <4> QED BY <2>8, <4>1, <4>2, <4>3
    <3>2. CASE i = h + 1 /\ f = 1 /\ Sending /\ all[i] = item.ticket
      <4>1. j - (h + f) \in 1 .. p /\ all[j] = pending[j - (h + f)].ticket
        BY <2>1, <2>8, <2>9, <3>2
      <4> QED BY <3>2, <4>1 DEF Inv, Ordered, p
    <3>3. CASE i > h + f /\ i - (h + f) \in 1 .. p /\ all[i] = pending[i - (h + f)].ticket
      <4>1. /\ j - (h + f) \in 1 .. p /\ all[j] = pending[j - (h + f)].ticket
            /\ i - (h + f) < j - (h + f)
        BY <2>1, <2>8, <2>9, <3>3
      <4> QED BY <3>3, <4>1 DEF Inv, Ordered, p
    <3> QED BY <2>8, <3>1, <3>2, <3>3
  <2> QED BY <2>7, <2>9 DEF TicketsInOrder, all
<1> QED BY <1>1, Invariance, PTL

\* A frame of the running case is queued, on the line or done, and a case waits
\* only for a ticket of its own (tx_agent.cpp:114-127, 197-206, 216-236).
THEOREM FramesAccounted == Spec => []AllAccounted
<1>1. Inv => AllAccounted
  <2> SUFFICES ASSUME Inv PROVE AllAccounted
    OBVIOUS
  <2>1. ASSUME NEW t
        PROVE  (\E i \in DOMAIN (InFlight \o Queue) : (InFlight \o Queue)[i] = t) <=> Unsent(t)
    <3> DEFINE p == Len(pending)
    <3>1. /\ p \in Nat /\ DOMAIN pending = 1 .. p
          /\ \A j \in 1 .. p : pending[j].ticket \in Nat
          /\ Sending => item.ticket \in Nat
      BY TypeFacts, ItemFacts, LenProperties DEF Inv
    <3> HIDE DEF p
    <3>2. Queue \in Seq(Nat) /\ Len(Queue) = p /\ \A j \in 1 .. p : Queue[j] = pending[j].ticket
      <4>1. Queue = [j \in 1 .. p |-> pending[j].ticket]
        BY <3>1 DEF Queue
      <4> QED BY <3>1, <4>1
    <3>3. CASE Sending
      <4>1. InFlight \in Seq(Nat) /\ Len(InFlight) = 1 /\ InFlight[1] = item.ticket
        BY <3>1, <3>3 DEF InFlight
      <4>2. /\ InFlight \o Queue \in Seq(Nat) /\ Len(InFlight \o Queue) = Len(InFlight) + Len(Queue)
            /\ \A k \in 1 .. Len(InFlight) + Len(Queue) :
                 (InFlight \o Queue)[k] = IF k <= Len(InFlight) THEN InFlight[k]
                                          ELSE Queue[k - Len(InFlight)]
        <5>1. InFlight \in Seq(Nat) /\ Queue \in Seq(Nat)
          BY <3>2, <4>1
        <5> QED BY <5>1, ConcatProperties
      <4>3. DOMAIN (InFlight \o Queue) = 1 .. p + 1
        BY <3>2, <4>1, <4>2, LenProperties
      <4>4. \A k \in 1 .. p + 1 : (InFlight \o Queue)[k] =
                                     IF k = 1 THEN item.ticket ELSE pending[k - 1].ticket
        BY <3>1, <3>2, <4>1, <4>2
      <4>5. \A j \in 1 .. p : j + 1 \in 1 .. p + 1 /\ j + 1 # 1 /\ (j + 1) - 1 = j
        BY <3>1
      <4>6. \A k \in 1 .. p + 1 : k # 1 => k - 1 \in 1 .. p
        <5>1. p \in Nat
          BY <3>1
        <5> QED BY <5>1
      <4>7. 1 \in 1 .. p + 1
        BY <3>1
      <4>8. Unsent(t) <=> item.ticket = t \/ \E j \in 1 .. p : pending[j].ticket = t
        BY <3>3 DEF Unsent, p
      <4>9. ASSUME NEW i \in 1 .. p + 1, (InFlight \o Queue)[i] = t PROVE Unsent(t)
        <5>1. CASE i = 1
          BY <4>4, <4>8, <4>9, <5>1
        <5>2. CASE i # 1
          BY <4>4, <4>6, <4>8, <4>9, <5>2
        <5> QED BY <5>1, <5>2
      <4>10. ASSUME item.ticket = t PROVE \E i \in 1 .. p + 1 : (InFlight \o Queue)[i] = t
        BY <4>4, <4>7, <4>10
      <4>11. ASSUME NEW j \in 1 .. p, pending[j].ticket = t
             PROVE  \E i \in 1 .. p + 1 : (InFlight \o Queue)[i] = t
        <5>1. (InFlight \o Queue)[j + 1] = t
          BY <4>4, <4>5, <4>11
        <5> QED BY <4>5, <5>1
      <4> QED BY <4>3, <4>8, <4>9, <4>10, <4>11
    <3>4. CASE ~Sending
      <4>1. InFlight \o Queue = Queue
        BY <3>2, <3>4, ConcatEmptySeq DEF InFlight
      <4>2. DOMAIN Queue = 1 .. p
        BY <3>2, LenProperties
      <4> QED BY <3>2, <3>4, <4>1, <4>2 DEF Unsent, p
    <3> QED BY <3>3, <3>4
  <2> QED BY <2>1 DEF AllAccounted, Inv, Accounted
<1> QED BY <1>1, Invariance, PTL

\* No frame of the running case is lost, and none is doubled or overtaken
\* (tx_coroutines.cpp:31-71, tx_agent.cpp:197-206).
THEOREM TicketsAreKept == Spec => []TicketsKept
<1>1. TicketsInOrder /\ AllAccounted => TicketsKept
  BY DEF TicketsKept
<1> QED BY <1>1, FramesInOrder, FramesAccounted, PTL

\* A frame is driven symbol by symbol as it was asked for, with the errors that
\* were armed, unless set_params comes between; resets and RTS do not cut it
\* short (tx_coroutines.cpp:147-198).
THEOREM FramesDrivenWhole == Spec => []FramesWhole
<1>1. Inv => FramesWhole
  <2> SUFFICES ASSUME Inv PROVE FramesWhole
    OBVIOUS
  <2>1. DOMAIN history = 1 .. Len(history)
    BY TypeFacts, LenProperties DEF Inv
  <2> QED BY <2>1 DEF FramesWhole, Inv, Whole
<1> QED BY <1>1, Invariance, PTL

-----------------------------------------------------------------------------
(* The agent at the parallel interface of the core, for every depth of its  *)
(* FIFOs, every time-out and every number of calls and characters.  The     *)
(* invariant says, for each point at which a call is suspended, what the    *)
(* clock, the inputs and the history are.                                   *)
PushPoints == {"push_read", "push_edge", "push_ends"}
Points     == Calls \cup PushPoints \cup {"case", "pop_read", "pop_ready", "pop_ends", "pulse_ends"}

IntfTypes ==
  /\ IntfTypeOK
  /\ at \in Points /\ op \in Calls \cup {"none"}
  /\ entered \in Nat /\ accepted \in Nat /\ gone \in Nat /\ popped \in Seq(1 .. MaxChars)
  /\ dropped \in Nat /\ rx_overrun \in Nat /\ ops \in Nat /\ chars \in 0 .. MaxChars

\* Which inputs are driven where.
IntfDriven ==
  /\ tx_byte_valid <=> at \in PushPoints
  /\ clear_rx \/ clear_tx => at = "pulse_ends"
  /\ at \in {"pop_read", "pop_ready"} => ~rx_byte_ready
  /\ at = "pop_ends" => rx_byte_ready
  /\ at = "case" /\ op = "pop_rx_byte" => ~rx_byte_ready

\* Where the call is, and after which edge it goes on.
IntfPlaces ==
  /\ at \in Calls => op = at /\ result = 0 /\ entered = 0
  /\ at \in PushPoints => op = "try_push_tx_byte"
  /\ at \in {"pop_read", "pop_ready", "pop_ends"} => op = "pop_rx_byte"
  /\ at = "pulse_ends" => op \in {"pulse_rx_fifo_clear", "pulse_tx_fifo_clear"}
  /\ at \in Calls \ {"wait_tx_idle"} =>
       cycle = 0 /\ << wait, clk >> \in {<< "now", 0 >>, << "fall", 1 >>, << "fall", 0 >>}
  /\ at = "wait_tx_idle" => cycle <= Timeout
  /\ at \in {"push_read", "pop_read"} => cycle <= Timeout
  /\ at \in {"push_edge", "push_ends"} => cycle < Timeout

\* A push, from the falling edge that begins it.
Pushing ==
  /\ at = "push_read" => /\ result = 0 /\ entered = 0
                         /\ << wait, clk >> \in {<< "now", 0 >>, << "fall", 1 >>}
  /\ at = "push_edge" => /\ result = 0
                         /\ \/ wait = "rise" /\ clk = 0 /\ entered = 0
                               /\ ready_for_edge = tx_byte_ready
                            \/ wait = "now" /\ clk = 1
                               /\ entered = IF ready_for_edge THEN 1 ELSE 0
  /\ at = "push_ends" => /\ result = 1 /\ entered = 1
                         /\ << wait, clk >> \in {<< "now", 0 >>, << "fall", 1 >>}

\* A pop: the record that was read stays the oldest until it is popped.
AtHead == rxq # << >> /\ result = Head(rxq) /\ popped = << >>
Taken  == result \in 1 .. MaxChars /\ popped = << result >>

Popping ==
  /\ at = "pop_read"  => result = 0 /\ popped = << >>
  /\ at = "pop_ready" => AtHead /\ << wait, clk >> \in {<< "now", 0 >>, << "fall", 1 >>, << "fall", 0 >>}
  /\ at = "pop_ends"  => \/ wait = "fall" /\ clk = 0 /\ AtHead
                         \/ << wait, clk >> \in {<< "now", 0 >>, << "fall", 1 >>} /\ Taken

\* A record that is about to be lost to a full FIFO has been counted.
Counting ==
  /\ DropsCounted
  /\ arrived # 0 /\ Len(rxq) >= RxDepth => dropped < rx_overrun

\* Every byte that calls have pushed, the running one's included, is gone, queued or
\* being sent.
BeingPushed == IF at \in PushPoints THEN entered ELSE 0
BeingSent   == IF busy THEN 1 ELSE 0
Conserved   == accepted + BeingPushed = gone + Len(txq) + BeingSent

FoundIdle == at = "case" /\ op = "wait_tx_idle" /\ result = 1 => txq = << >> /\ ~busy

Promised == PushOnce /\ PopsWhatItReads /\ FoundIdle

IntfInv == IntfTypes /\ IntfDriven /\ IntfPlaces /\ Pushing /\ Popping /\ Counting /\ Conserved
           /\ Promised

-----------------------------------------------------------------------------
LEMMA IntfInitInv == IntfInit => IntfInv
<1> SUFFICES ASSUME IntfInit PROVE IntfInv
  OBVIOUS
<1>1. IntfTypes
  <2>1. IntfTypeOK
    <3>1. {busy, tick, tx_byte_valid, rx_byte_ready, clear_rx, clear_tx, ready_for_edge}
             \subseteq BOOLEAN
      BY DEF IntfInit
    <3>2. txq \in Seq({1}) /\ Len(txq) <= TxDepth /\ rxq \in Seq(1 .. MaxChars) /\ Len(rxq) <= RxDepth
      BY IntfAssumption, EmptySeq DEF IntfInit
    <3>3. (at = "case") = (wait = "case")
      BY DEF IntfInit
    <3> QED BY <3>1, <3>2, <3>3, IntfAssumption DEF IntfInit, IntfTypeOK, Calls
  <2> QED BY <2>1, IntfAssumption DEF IntfInit, IntfTypes, Points, PushPoints, Calls
<1>2. IntfDriven
  <2>1. at = "case" /\ "case" \notin PushPoints /\ tx_byte_valid = FALSE
    BY DEF IntfInit, PushPoints
  <2> QED BY <2>1 DEF IntfInit, IntfDriven
<1>3. IntfPlaces
  BY IntfAssumption DEF IntfInit, IntfPlaces, Points, PushPoints, Calls
<1>4. Pushing
  BY IntfAssumption DEF IntfInit, Pushing, tx_byte_ready, tx_start, Points, PushPoints, Calls
<1>5. Popping
  BY IntfAssumption DEF IntfInit, Popping, AtHead, Taken, Points, PushPoints, Calls
<1>6. Counting
  BY IntfAssumption DEF IntfInit, Counting, DropsCounted, Points, PushPoints, Calls
<1>7. Promised
  BY IntfAssumption DEF IntfInit, Promised, PushOnce, PopsWhatItReads, FoundIdle, Points,
     PushPoints, Calls
<1>8. Conserved
  <2>1. accepted = 0 /\ gone = 0 /\ Len(txq) = 0 /\ BeingSent = 0 /\ BeingPushed = 0
    BY EmptySeq DEF IntfInit, BeingSent, BeingPushed, PushPoints
  <2> QED BY <2>1 DEF Conserved
<1> QED BY <1>1, <1>2, <1>3, <1>4, <1>5, <1>6, <1>7, <1>8 DEF IntfInv

LEMMA IntfPushBeginsInv == IntfInv /\ PushBegins => IntfInv'
<1> SUFFICES ASSUME IntfInv, PushBegins PROVE IntfInv'
  OBVIOUS
<1> USE IntfAssumption DEF IntfInv, PushBegins, At, Then, Quiet, Calm, device, Points, PushPoints, Calls
<1>1. IntfTypes'
  BY DEF IntfTypes, IntfTypeOK
<1>2. IntfDriven'
  BY DEF IntfDriven
<1>3. IntfPlaces'
  BY DEF IntfPlaces
<1>4. Pushing'
  <2>1. /\ at = "try_push_tx_byte" /\ at' = "push_read" /\ wait' = "now" /\ clk' = clk
        /\ result' = result /\ entered' = entered
    OBVIOUS
  <2>2. result = 0 /\ entered = 0
    BY <2>1 DEF IntfPlaces
  <2>3. clk = 0
    BY <2>1, wait = "now" DEF IntfPlaces
  <2> QED BY <2>1, <2>2, <2>3 DEF Pushing
<1>5. Popping'
  BY DEF Popping
<1>6. Counting'
  BY DEF Counting, DropsCounted
<1>7. Promised'
  BY DEF Promised, PushOnce, PopsWhatItReads, FoundIdle
<1>8. Conserved'
  BY DEF Conserved, BeingPushed, BeingSent, IntfPlaces
<1> QED BY <1>1, <1>2, <1>3, <1>4, <1>5, <1>6, <1>7, <1>8 DEF IntfInv

LEMMA IntfPushReadsInv == IntfInv /\ PushReads => IntfInv'
<1> SUFFICES ASSUME IntfInv, PushReads PROVE IntfInv'
  OBVIOUS
<1> USE IntfAssumption DEF IntfInv, PushReads, At, Then, Quiet, Calm, device, inputs, Points,
   PushPoints, Calls
<1>1. IntfTypes'
  <2>1. ready_for_edge' \in BOOLEAN
    BY DEF tx_byte_ready
  <2> QED BY <2>1 DEF IntfTypes, IntfTypeOK, IntfPlaces
<1>2. IntfDriven'
  BY DEF IntfDriven
<1>3. IntfPlaces'
  BY DEF IntfPlaces
<1>4. Pushing'
  BY DEF Pushing, tx_byte_ready, tx_start
<1>5. Popping'
  BY DEF Popping
<1>6. Counting'
  BY DEF Counting, DropsCounted
<1>7. Promised'
  BY DEF Promised, PushOnce, PopsWhatItReads, FoundIdle
<1>8. Conserved'
  BY DEF Conserved, BeingPushed, BeingSent
<1> QED BY <1>1, <1>2, <1>3, <1>4, <1>5, <1>6, <1>7, <1>8 DEF IntfInv

LEMMA IntfPushEdgeInv == IntfInv /\ PushEdge => IntfInv'
<1> SUFFICES ASSUME IntfInv, PushEdge PROVE IntfInv'
  OBVIOUS
<1> USE IntfAssumption DEF IntfInv, PushEdge, At, Then, Quiet, Calm, device, inputs, Points, PushPoints,
   Calls
<1>1. IntfTypes'
  BY DEF IntfTypes, IntfTypeOK, IntfPlaces
<1>2. IntfDriven'
  BY DEF IntfDriven
<1>3. IntfPlaces'
  BY DEF IntfPlaces, IntfTypes, IntfTypeOK
<1>4. Pushing'
  BY DEF Pushing
<1>5. Popping'
  BY DEF Popping
<1>6. Counting'
  BY DEF Counting, DropsCounted
<1>7. Promised'
  BY DEF Promised, PushOnce, PopsWhatItReads, FoundIdle
<1>8. Conserved'
  BY DEF Conserved, BeingPushed, BeingSent
<1> QED BY <1>1, <1>2, <1>3, <1>4, <1>5, <1>6, <1>7, <1>8 DEF IntfInv

LEMMA IntfPushEndsInv == IntfInv /\ PushEnds => IntfInv'
<1> SUFFICES ASSUME IntfInv, PushEnds PROVE IntfInv'
  OBVIOUS
<1> USE IntfAssumption DEF IntfInv, PushEnds, At, Then, Return, Quiet, Calm, device, Points, PushPoints,
   Calls
<1>1. IntfTypes'
  <2>1. accepted \in Nat /\ result \in Nat
    BY DEF IntfTypes, IntfTypeOK
  <2>2. accepted' \in Nat
    BY <2>1
  <2> QED BY <2>2 DEF IntfTypes, IntfTypeOK
<1>2. IntfDriven'
  <2>1. at' = "case" /\ "case" \notin PushPoints /\ tx_byte_valid' = FALSE /\ op' = op
        /\ clear_rx' = clear_rx /\ clear_tx' = clear_tx
    OBVIOUS
  <2>2. op = "try_push_tx_byte" /\ ~clear_rx /\ ~clear_tx
    BY DEF IntfPlaces, IntfDriven
  <2> QED BY <2>1, <2>2 DEF IntfDriven
<1>3. IntfPlaces'
  BY DEF IntfPlaces
<1>4. Pushing'
  BY DEF Pushing
<1>5. Popping'
  BY DEF Popping
<1>6. Counting'
  BY DEF Counting, DropsCounted
<1>7. Promised'
  BY DEF Promised, PushOnce, PopsWhatItReads, FoundIdle, IntfPlaces, Pushing
<1>8. Conserved'
  <2>1. BeingPushed = entered /\ BeingPushed' = 0 /\ entered = result
    BY DEF BeingPushed, Pushing
  <2>2. accepted' = accepted + result /\ UNCHANGED << txq, busy, gone >>
    OBVIOUS
  <2> QED BY <2>1, <2>2 DEF Conserved, BeingSent
<1> QED BY <1>1, <1>2, <1>3, <1>4, <1>5, <1>6, <1>7, <1>8 DEF IntfInv

LEMMA IntfPopBeginsInv == IntfInv /\ PopBegins => IntfInv'
<1> SUFFICES ASSUME IntfInv, PopBegins PROVE IntfInv'
  OBVIOUS
<1> USE IntfAssumption DEF IntfInv, PopBegins, At, Then, Quiet, Calm, device, Points, PushPoints, Calls
<1>1. IntfTypes'
  <2>1. popped' \in Seq(1 .. MaxChars)
    BY EmptySeq
  <2>2. IntfTypeOK'
    BY DEF IntfTypes, IntfTypeOK
  <2> QED BY <2>1, <2>2 DEF IntfTypes
<1>2. IntfDriven'
  BY DEF IntfDriven
<1>3. IntfPlaces'
  BY DEF IntfPlaces
<1>4. Pushing'
  BY DEF Pushing
<1>5. Popping'
  BY DEF Popping, IntfPlaces
<1>6. Counting'
  BY DEF Counting, DropsCounted
<1>7. Promised'
  BY DEF Promised, PushOnce, PopsWhatItReads, FoundIdle
<1>8. Conserved'
  BY DEF Conserved, BeingPushed, BeingSent
<1> QED BY <1>1, <1>2, <1>3, <1>4, <1>5, <1>6, <1>7, <1>8 DEF IntfInv

LEMMA IntfPopReadsInv == IntfInv /\ PopReads => IntfInv'
<1> SUFFICES ASSUME IntfInv, PopReads PROVE IntfInv'
  OBVIOUS
<1>1. /\ at = "pop_read" /\ wait = "now" /\ op = "pop_rx_byte" /\ result = 0 /\ popped = << >>
      /\ ~tx_byte_valid /\ ~rx_byte_ready /\ ~clear_rx /\ ~clear_tx /\ cycle \in 0 .. Timeout
  BY DEF IntfInv, PopReads, At, IntfPlaces, IntfDriven, Popping, IntfTypes, IntfTypeOK
<1>2. UNCHANGED << clk, txq, busy, tick, rxq, arrived, tx_byte_valid, rx_byte_ready, clear_rx,
                   clear_tx, op, ready_for_edge, rx_overrun, entered, accepted, gone, popped,
                   dropped, ops, chars >>
  BY DEF PopReads, Quiet, Calm, device, inputs
<1>3. \/ at' = "case" /\ wait' = "case" /\ result' = 0 /\ cycle' = cycle
      \/ at' = "pop_ready" /\ wait' = "fall" /\ rxq # << >> /\ result' = Head(rxq) /\ cycle' = cycle
      \/ at' = "pop_read" /\ wait' = "rise" /\ result' = 0 /\ cycle' = cycle + 1 /\ cycle < Timeout
  <2>1. CASE cycle >= Timeout
    BY <1>1, <2>1 DEF PopReads, Then, Return
  <2>2. CASE ~(cycle >= Timeout) /\ rxq # << >>
    <3>1. cycle < Timeout /\ ~(cycle >= Timeout) /\ (rxq = << >>) = FALSE
      BY <1>1, <2>2, IntfAssumption
    <3> QED BY <1>1, <2>2, <3>1 DEF PopReads, Then, Return
  <2>3. CASE ~(cycle >= Timeout) /\ ~(rxq # << >>)
    <3>1. cycle < Timeout /\ ~(cycle >= Timeout) /\ rxq = << >>
      BY <1>1, <2>3, IntfAssumption
    <3> QED BY <1>1, <2>3, <3>1 DEF PopReads, Then, Return
  <2> QED BY <2>1, <2>2, <2>3
<1>4. rxq \in Seq(1 .. MaxChars) /\ clk \in {0, 1} /\ IntfTypes /\ Counting
  BY DEF IntfInv, IntfTypes, IntfTypeOK
<1>5. rxq # << >> => Head(rxq) \in 1 .. MaxChars
  BY <1>4, HeadTailProperties
<1> USE <1>1, <1>2, <1>3, <1>4, <1>5, IntfAssumption DEF Points, PushPoints, Calls
<1>6. IntfTypes'
  BY DEF IntfTypes, IntfTypeOK
<1>7. IntfDriven'
  BY DEF IntfDriven
<1>8. IntfPlaces'
  BY DEF IntfPlaces
<1>9. Pushing'
  BY DEF Pushing
<1>10. Popping'
  BY DEF Popping, AtHead
<1>11. Counting'
  BY DEF Counting, DropsCounted
<1>12. Promised'
  BY DEF Promised, PushOnce, PopsWhatItReads, FoundIdle
<1>13. Conserved'
  <2>1. Conserved
    BY DEF IntfInv
  <2> QED BY <2>1 DEF Conserved, BeingPushed, BeingSent
<1> QED BY <1>6, <1>7, <1>8, <1>9, <1>10, <1>11, <1>12, <1>13 DEF IntfInv

LEMMA IntfPopReadyInv == IntfInv /\ PopReady => IntfInv'
<1> SUFFICES ASSUME IntfInv, PopReady PROVE IntfInv'
  OBVIOUS
<1> USE IntfAssumption DEF IntfInv, PopReady, At, Then, Quiet, Calm, device, Points, PushPoints, Calls
<1>1. IntfTypes'
  BY DEF IntfTypes, IntfTypeOK
<1>2. IntfDriven'
  BY DEF IntfDriven
<1>3. IntfPlaces'
  BY DEF IntfPlaces
<1>4. Pushing'
  BY DEF Pushing
<1>5. Popping'
  BY DEF Popping, AtHead
<1>6. Counting'
  BY DEF Counting, DropsCounted
<1>7. Promised'
  BY DEF Promised, PushOnce, PopsWhatItReads, FoundIdle
<1>8. Conserved'
  BY DEF Conserved, BeingPushed, BeingSent
<1> QED BY <1>1, <1>2, <1>3, <1>4, <1>5, <1>6, <1>7, <1>8 DEF IntfInv

LEMMA IntfPopEndsInv == IntfInv /\ PopEnds => IntfInv'
<1> SUFFICES ASSUME IntfInv, PopEnds PROVE IntfInv'
  OBVIOUS
<1> USE IntfAssumption DEF IntfInv, PopEnds, At, Then, Return, Quiet, Calm, device, Points, PushPoints,
   Calls
<1>1. IntfTypes'
  BY DEF IntfTypes, IntfTypeOK
<1>2. IntfDriven'
  BY DEF IntfDriven
<1>3. IntfPlaces'
  BY DEF IntfPlaces
<1>4. Pushing'
  BY DEF Pushing
<1>5. Popping'
  BY DEF Popping
<1>6. Counting'
  BY DEF Counting, DropsCounted
<1>7. Promised'
  BY DEF Promised, PushOnce, PopsWhatItReads, FoundIdle, IntfPlaces, Popping, Taken
<1>8. Conserved'
  BY DEF Conserved, BeingPushed, BeingSent
<1> QED BY <1>1, <1>2, <1>3, <1>4, <1>5, <1>6, <1>7, <1>8 DEF IntfInv

LEMMA IntfPulseBeginsInv == IntfInv /\ PulseBegins => IntfInv'
<1> SUFFICES ASSUME IntfInv, PulseBegins PROVE IntfInv'
  OBVIOUS
<1> USE IntfAssumption DEF IntfInv, PulseBegins, At, Then, Quiet, Calm, device, Points, PushPoints, Calls
<1>1. IntfTypes'
  BY DEF IntfTypes, IntfTypeOK
<1>2. IntfDriven'
  BY DEF IntfDriven
<1>3. IntfPlaces'
  BY DEF IntfPlaces
<1>4. Pushing'
  BY DEF Pushing
<1>5. Popping'
  BY DEF Popping
<1>6. Counting'
  BY DEF Counting, DropsCounted
<1>7. Promised'
  BY DEF Promised, PushOnce, PopsWhatItReads, FoundIdle
<1>8. Conserved'
  BY DEF Conserved, BeingPushed, BeingSent
<1> QED BY <1>1, <1>2, <1>3, <1>4, <1>5, <1>6, <1>7, <1>8 DEF IntfInv

LEMMA IntfPulseEndsInv == IntfInv /\ PulseEnds => IntfInv'
<1> SUFFICES ASSUME IntfInv, PulseEnds PROVE IntfInv'
  OBVIOUS
<1> USE IntfAssumption DEF IntfInv, PulseEnds, At, Then, Return, Quiet, Calm, device, Points,
   PushPoints, Calls
<1>1. IntfTypes'
  BY DEF IntfTypes, IntfTypeOK
<1>2. IntfDriven'
  BY DEF IntfDriven, IntfPlaces
<1>3. IntfPlaces'
  BY DEF IntfPlaces
<1>4. Pushing'
  BY DEF Pushing
<1>5. Popping'
  BY DEF Popping
<1>6. Counting'
  BY DEF Counting, DropsCounted
<1>7. Promised'
  BY DEF Promised, PushOnce, PopsWhatItReads, FoundIdle, IntfPlaces
<1>8. Conserved'
  BY DEF Conserved, BeingPushed, BeingSent
<1> QED BY <1>1, <1>2, <1>3, <1>4, <1>5, <1>6, <1>7, <1>8 DEF IntfInv

LEMMA IntfIdleReadsInv == IntfInv /\ IdleReads => IntfInv'
<1> SUFFICES ASSUME IntfInv, IdleReads PROVE IntfInv'
  OBVIOUS
<1> USE IntfAssumption DEF IntfInv, IdleReads, At, Then, Return, Quiet, Calm, device, inputs, Points,
   PushPoints, Calls
<1>1. IntfTypes'
  BY DEF IntfTypes, IntfTypeOK, IntfPlaces
<1>2. IntfDriven'
  BY DEF IntfDriven, IntfPlaces
<1>3. IntfPlaces'
  BY DEF IntfPlaces, IntfTypes, IntfTypeOK
<1>4. Pushing'
  BY DEF Pushing
<1>5. Popping'
  BY DEF Popping
<1>6. Counting'
  BY DEF Counting, DropsCounted
<1>7. Promised'
  BY DEF Promised, PushOnce, PopsWhatItReads, FoundIdle, IntfPlaces
<1>8. Conserved'
  BY DEF Conserved, BeingPushed, BeingSent
<1> QED BY <1>1, <1>2, <1>3, <1>4, <1>5, <1>6, <1>7, <1>8 DEF IntfInv

LEMMA IntfFallInv == IntfInv /\ Fall => IntfInv'
<1> SUFFICES ASSUME IntfInv, Fall PROVE IntfInv'
  OBVIOUS
<1> USE IntfAssumption DEF IntfInv, Fall, Wakes, device, inputs, account, Points, PushPoints, Calls
<1>1. IntfTypes'
  BY DEF IntfTypes, IntfTypeOK
<1>2. IntfDriven'
  BY DEF IntfDriven
<1>3. IntfPlaces'
  BY DEF IntfPlaces
<1>4. Pushing'
  BY DEF Pushing
<1>5. Popping'
  BY DEF Popping, AtHead, Taken
<1>6. Counting'
  BY DEF Counting, DropsCounted
<1>7. Promised'
  BY DEF Promised, PushOnce, PopsWhatItReads, FoundIdle
<1>8. Conserved'
  BY DEF Conserved, BeingPushed, BeingSent
<1> QED BY <1>1, <1>2, <1>3, <1>4, <1>5, <1>6, <1>7, <1>8 DEF IntfInv

LEMMA IntfCallInv == ASSUME IntfInv, NEW o \in Calls, Call(o) PROVE IntfInv'
<1> USE IntfAssumption DEF IntfInv, Call, device, inputs, Points, PushPoints, Calls
<1>1. IntfTypes'
  BY DEF IntfTypes, IntfTypeOK
<1>2. IntfDriven'
  BY DEF IntfDriven
<1>3. IntfPlaces'
  BY DEF IntfPlaces, IntfTypes, IntfTypeOK
<1>4. Pushing'
  BY DEF Pushing
<1>5. Popping'
  BY DEF Popping
<1>6. Counting'
  BY DEF Counting, DropsCounted
<1>7. Promised'
  BY DEF Promised, PushOnce, PopsWhatItReads, FoundIdle
<1>8. Conserved'
  BY DEF Conserved, BeingPushed, BeingSent
<1> QED BY <1>1, <1>2, <1>3, <1>4, <1>5, <1>6, <1>7, <1>8 DEF IntfInv

LEMMA IntfSetRxReadyInv == ASSUME IntfInv, NEW ready \in BOOLEAN, SetRxReady(ready) PROVE IntfInv'
<1> USE IntfAssumption DEF IntfInv, SetRxReady, At, Then, Return, Quiet, Calm, device, Points,
   PushPoints, Calls
<1>1. IntfTypes'
  BY DEF IntfTypes, IntfTypeOK
<1>2. IntfDriven'
  BY DEF IntfDriven, IntfPlaces
<1>3. IntfPlaces'
  BY DEF IntfPlaces
<1>4. Pushing'
  BY DEF Pushing
<1>5. Popping'
  BY DEF Popping
<1>6. Counting'
  BY DEF Counting, DropsCounted
<1>7. Promised'
  BY DEF Promised, PushOnce, PopsWhatItReads, FoundIdle, IntfPlaces
<1>8. Conserved'
  BY DEF Conserved, BeingPushed, BeingSent
<1> QED BY <1>1, <1>2, <1>3, <1>4, <1>5, <1>6, <1>7, <1>8 DEF IntfInv

-----------------------------------------------------------------------------
(* A rising edge.                                                           *)

\* The transmit FIFO: a byte enters exactly when valid meets ready, and none is lost.
LEMMA RiseTx ==
  ASSUME IntfInv, NEW new_tick \in BOOLEAN, NEW end \in BOOLEAN, NEW arrival \in BOOLEAN,
         Rise(new_tick, end, arrival)
  PROVE  /\ txq' \in Seq({1}) /\ Len(txq') <= TxDepth /\ busy' \in BOOLEAN
         /\ entered' = IF tx_byte_valid /\ tx_byte_ready THEN entered + 1 ELSE entered
         /\ txq = << >> /\ ~busy /\ ~tx_byte_valid => txq' = << >> /\ ~busy'
         /\ gone' \in Nat
         /\ gone' + Len(txq') + BeingSent' =
              gone + Len(txq) + BeingSent + (IF tx_byte_valid /\ tx_byte_ready THEN 1 ELSE 0)
<1> DEFINE left == IF tx_start THEN Tail(txq) ELSE txq
           pushed == IF tx_byte_valid /\ tx_byte_ready THEN 1 ELSE 0
           launched == IF tx_start THEN 1 ELSE 0
           ended == IF busy /\ end THEN 1 ELSE 0
           taken == IF clear_tx THEN Len(left) ELSE 0
<1>1. txq \in Seq({1}) /\ Len(txq) <= TxDepth /\ Len(txq) \in Nat /\ TxDepth \in Nat
  BY IntfAssumption DEF IntfInv, IntfTypes, IntfTypeOK
<1>2. /\ left \in Seq({1}) /\ Len(left) <= TxDepth /\ Len(left) \in Nat
      /\ tx_byte_ready => Len(left) < TxDepth
      /\ txq = << >> => left = << >>
      /\ Len(left) + launched = Len(txq)
  <2>1. CASE tx_start
    BY <1>1, <2>1, HeadTailProperties DEF tx_start, tx_byte_ready
  <2>2. CASE ~tx_start
    BY <1>1, <2>2 DEF tx_byte_ready
  <2> QED BY <2>1, <2>2
<1>3. Append(left, 1) \in Seq({1}) /\ Len(Append(left, 1)) = Len(left) + 1
  BY <1>2, AppendProperties
<1>4. /\ txq' = IF clear_tx THEN << >>
                ELSE IF tx_byte_valid /\ tx_byte_ready THEN Append(left, 1) ELSE left
      /\ entered' = IF (tx_byte_valid /\ tx_byte_ready) /\ ~clear_tx THEN entered + 1 ELSE entered
      /\ busy' = (tx_start \/ (busy /\ ~end))
      /\ gone' = gone + ended + taken
  BY DEF Rise, BusyNext
<1> HIDE DEF left
<1>5. /\ << >> \in Seq({1}) /\ Len(<< >>) = 0
  BY EmptySeq
<1>6. txq' \in Seq({1}) /\ Len(txq') <= TxDepth
  BY <1>1, <1>2, <1>3, <1>4, <1>5
<1>7. entered' = IF tx_byte_valid /\ tx_byte_ready THEN entered + 1 ELSE entered
  BY <1>4 DEF tx_byte_ready
<1>8. txq = << >> /\ ~busy /\ ~tx_byte_valid => txq' = << >> /\ ~busy'
  BY <1>2, <1>4 DEF tx_start
<1>9. busy' \in BOOLEAN
  BY <1>4
<1>10. /\ pushed \in {0, 1} /\ ended \in {0, 1} /\ launched \in {0, 1}
       /\ BeingSent \in {0, 1} /\ BeingSent' \in {0, 1} /\ gone \in Nat
  BY DEF BeingSent, IntfInv, IntfTypes
<1>11. taken \in Nat /\ Len(txq') + taken = Len(left) + pushed
  <2>1. CASE clear_tx
    BY <1>2, <1>4, <1>5, <2>1 DEF tx_byte_ready
  <2>2. CASE ~clear_tx /\ tx_byte_valid /\ tx_byte_ready
    <3>1. txq' = Append(left, 1) /\ pushed = 1
      BY <1>4, <2>2
    <3> QED BY <1>2, <1>3, <2>2, <3>1
  <2>3. CASE ~clear_tx /\ ~(tx_byte_valid /\ tx_byte_ready)
    <3>1. txq' = left /\ pushed = 0
      BY <1>4, <2>3
    <3> QED BY <1>2, <2>3, <3>1
  <2> QED BY <2>1, <2>2, <2>3
<1>12. BeingSent' + ended = BeingSent + launched
  <2>1. CASE tx_start
    <3>1. busy' /\ ~busy
      BY <1>4, <2>1 DEF tx_start
    <3>2. BeingSent' = 1 /\ ended = 0 /\ BeingSent = 0 /\ launched = 1
      BY <2>1, <3>1, Zenon DEF BeingSent
    <3> QED BY <3>2
  <2>2. CASE ~tx_start /\ busy /\ end
    <3>1. ~busy'
      BY <1>4, <2>2
    <3>2. BeingSent' = 0 /\ ended = 1 /\ BeingSent = 1 /\ launched = 0
      BY <2>2, <3>1, Zenon DEF BeingSent
    <3> QED BY <3>2
  <2>3. CASE ~tx_start /\ ~(busy /\ end)
    <3>1. busy' <=> busy
      BY <1>4, <2>3
    <3>2. BeingSent' = BeingSent /\ ended = 0 /\ launched = 0
      BY <2>3, <3>1, Zenon DEF BeingSent
    <3> QED BY <1>10, <3>2
  <2> QED BY <2>1, <2>2, <2>3
<1> HIDE DEF ended, launched, taken, pushed
<1>13. gone' \in Nat
  BY <1>4, <1>10, <1>11
<1>14. gone' + Len(txq') + BeingSent' = gone + Len(txq) + BeingSent + pushed
  <2>1. Len(txq') \in Nat /\ Len(txq) \in Nat /\ Len(left) \in Nat /\ taken \in Nat
    BY <1>1, <1>2, <1>6, <1>11
  <2>2. gone' = gone + ended + taken
    BY <1>4
  <2>3. Len(left) + launched = Len(txq) /\ Len(txq') + taken = Len(left) + pushed
    BY <1>2, <1>11
  <2>4. /\ gone \in Nat /\ pushed \in Nat /\ ended \in Nat /\ launched \in Nat
        /\ BeingSent \in Nat /\ BeingSent' \in Nat
    BY <1>10
  <2>5. gone' + Len(txq') + BeingSent' = gone + (Len(txq') + taken) + (BeingSent' + ended)
    BY <2>1, <2>2, <2>4
  <2>6. gone' + Len(txq') + BeingSent' = gone + (Len(left) + pushed) + (BeingSent + launched)
    BY <1>12, <2>3, <2>5, Zenon
  <2>7. gone + (Len(left) + pushed) + (BeingSent + launched)
          = gone + (Len(left) + launched) + BeingSent + pushed
    BY <2>1, <2>4
  <2> QED BY <2>3, <2>6, <2>7, Zenon
<1>15. gone' + Len(txq') + BeingSent' =
         gone + Len(txq) + BeingSent + (IF tx_byte_valid /\ tx_byte_ready THEN 1 ELSE 0)
  BY <1>14 DEF pushed
<1> QED BY <1>6, <1>7, <1>8, <1>9, <1>13, <1>15, Zenon

\* The receive FIFO: without a clear only a pop takes records, and the oldest.
LEMMA RiseRx ==
  ASSUME IntfInv, NEW new_tick \in BOOLEAN, NEW end \in BOOLEAN, NEW arrival \in BOOLEAN,
         Rise(new_tick, end, arrival)
  PROVE  /\ rxq' \in Seq(1 .. MaxChars) /\ Len(rxq') <= RxDepth
         /\ arrived = 0 /\ pop_fire => Len(rxq') < RxDepth
         /\ ~rx_byte_ready /\ ~clear_rx /\ rxq # << >> => rxq' # << >> /\ Head(rxq') = Head(rxq)
         /\ popped' = IF pop_fire /\ ~clear_rx THEN Append(popped, Head(rxq)) ELSE popped
<1> DEFINE left == IF pop_fire THEN Tail(rxq) ELSE rxq
<1>1. /\ rxq \in Seq(1 .. MaxChars) /\ Len(rxq) <= RxDepth /\ Len(rxq) \in Nat
      /\ RxDepth \in Nat \ {0} /\ arrived \in 0 .. MaxChars
  BY IntfAssumption DEF IntfInv, IntfTypes, IntfTypeOK
<1>2. /\ left \in Seq(1 .. MaxChars) /\ Len(left) <= RxDepth /\ Len(left) \in Nat
      /\ push_ready => Len(left) < RxDepth
      /\ pop_fire => Len(left) < RxDepth
  <2>1. CASE pop_fire
    BY <1>1, <2>1, HeadTailProperties DEF pop_fire
  <2>2. CASE ~pop_fire
    BY <1>1, <2>2 DEF push_ready
  <2> QED BY <2>1, <2>2
<1>3. arrived # 0 => /\ Append(left, arrived) \in Seq(1 .. MaxChars)
                     /\ Len(Append(left, arrived)) = Len(left) + 1
                     /\ Append(left, arrived) # << >>
                     /\ left # << >> => Head(Append(left, arrived)) = Head(left)
  <2> SUFFICES ASSUME arrived # 0
               PROVE  /\ Append(left, arrived) \in Seq(1 .. MaxChars)
                      /\ Len(Append(left, arrived)) = Len(left) + 1
                      /\ Append(left, arrived) # << >>
                      /\ left # << >> => Head(Append(left, arrived)) = Head(left)
    OBVIOUS
  <2>1. arrived \in 1 .. MaxChars
    BY <1>1, IntfAssumption
  <2> HIDE DEF left
  <2>2. /\ Append(left, arrived) \in Seq(1 .. MaxChars) /\ Append(left, arrived) # << >>
        /\ Len(Append(left, arrived)) = Len(left) + 1
    BY <1>2, <2>1, AppendProperties
  <2>3. left # << >> => Head(Append(left, arrived)) = Head(left)
    BY <1>2, <2>1, HeadTailAppend
  <2> QED BY <2>2, <2>3
<1>4. /\ rxq' = IF clear_rx THEN << >>
                ELSE IF arrived # 0 /\ push_ready THEN Append(left, arrived) ELSE left
      /\ popped' = IF pop_fire /\ ~clear_rx THEN Append(popped, Head(rxq)) ELSE popped
  BY DEF Rise
<1>5. << >> \in Seq(1 .. MaxChars) /\ Len(<< >>) = 0
  BY EmptySeq
<1>6. ~rx_byte_ready => left = rxq
  BY DEF pop_fire
<1> HIDE DEF left
<1>7. rxq' \in Seq(1 .. MaxChars) /\ Len(rxq') <= RxDepth
  <2>1. CASE clear_rx
    BY <1>1, <1>4, <1>5, <2>1
  <2>2. CASE ~clear_rx /\ arrived # 0 /\ push_ready
    <3>1. rxq' = Append(left, arrived)
      BY <1>4, <2>2
    <3> QED BY <1>1, <1>2, <1>3, <2>2, <3>1
  <2>3. CASE ~clear_rx /\ ~(arrived # 0 /\ push_ready)
    <3>1. rxq' = left
      BY <1>4, <2>3
    <3> QED BY <1>2, <3>1
  <2> QED BY <2>1, <2>2, <2>3
<1>8. arrived = 0 /\ pop_fire => Len(rxq') < RxDepth
  BY <1>1, <1>2, <1>4, <1>5
<1>9. ~rx_byte_ready /\ ~clear_rx /\ rxq # << >> => rxq' # << >> /\ Head(rxq') = Head(rxq)
  BY <1>3, <1>4, <1>6
<1> QED BY <1>4, <1>7, <1>8, <1>9

\* Whatever will be dropped at the next edge is counted now.
LEMMA RiseCounts ==
  ASSUME IntfInv, NEW new_tick \in BOOLEAN, NEW end \in BOOLEAN, NEW arrival \in BOOLEAN,
         Rise(new_tick, end, arrival)
  PROVE  Counting' /\ dropped' \in Nat /\ rx_overrun' \in Nat
<1>1. /\ dropped \in Nat /\ rx_overrun \in Nat /\ dropped <= rx_overrun
      /\ arrived # 0 /\ Len(rxq) >= RxDepth => dropped < rx_overrun
      /\ Len(rxq) \in Nat /\ RxDepth \in Nat \ {0} /\ Len(rxq') \in Nat
      /\ MaxChars \in Nat /\ chars \in 0 .. MaxChars
  <2>1. rxq \in Seq(1 .. MaxChars) /\ rxq' \in Seq(1 .. MaxChars)
    BY RiseRx DEF IntfInv, IntfTypes, IntfTypeOK
  <2> QED BY <2>1, IntfAssumption DEF IntfInv, IntfTypes, IntfTypeOK, Counting, DropsCounted
<1>2. /\ dropped' = IF event_rx_overrun THEN dropped + 1 ELSE dropped
      /\ arrived' # 0 => arrived = 0
      /\ rx_overrun' = IF arrived' # 0 /\ ~clear_rx
                          /\ Len(rxq') = RxDepth /\ ~(rxq' # << >> /\ rx_byte_ready)
                       THEN rx_overrun + 1 ELSE rx_overrun
  BY DEF Rise, OverrunCounted
<1>3. event_rx_overrun => arrived # 0 /\ Len(rxq) >= RxDepth
  BY <1>1 DEF event_rx_overrun, push_ready
<1>4. Len(rxq') <= RxDepth /\ (arrived = 0 /\ pop_fire => Len(rxq') < RxDepth)
  BY RiseRx
<1>5. clear_rx => Len(rxq') = 0
  BY EmptySeq DEF Rise
\* A FIFO that is full after the edge was not popped, and not by a ready that is
\* taken away before the next edge.
<1>6. arrived = 0 /\ Len(rxq') >= RxDepth /\ rx_byte_ready => rxq' = << >>
  <2> SUFFICES ASSUME arrived = 0, Len(rxq') >= RxDepth, rx_byte_ready PROVE rxq' = << >>
    OBVIOUS
  <2>1. ~pop_fire
    BY <1>1, <1>4
  <2>2. rxq = << >>
    BY <2>1 DEF pop_fire
  <2> QED BY <2>1, <2>2 DEF Rise
<1>7. rxq' = << >> => Len(rxq') = 0
  BY EmptySeq
<1>8. arrived' # 0 /\ Len(rxq') >= RxDepth => rx_overrun' = rx_overrun + 1 /\ dropped' = dropped
  BY <1>1, <1>2, <1>3, <1>4, <1>5, <1>6, <1>7
<1>9. dropped' <= rx_overrun' /\ dropped' \in Nat /\ rx_overrun' \in Nat
  BY <1>1, <1>2, <1>3
<1> QED BY <1>1, <1>8, <1>9 DEF Counting, DropsCounted

LEMMA IntfRiseInv ==
  ASSUME IntfInv, NEW new_tick \in BOOLEAN, NEW end \in BOOLEAN, NEW arrival \in BOOLEAN,
         Rise(new_tick, end, arrival)
  PROVE  IntfInv'
<1>1. /\ clk = 0 /\ clk' = 1 /\ wait # "now" /\ wait' = (IF wait = "rise" THEN "now" ELSE wait)
      /\ tick' = new_tick /\ arrived' \in {0, chars'}
      /\ chars' \in {chars, chars + 1} /\ (chars' = chars + 1 => chars < MaxChars)
      /\ (chars' = chars => arrived' = 0)
      /\ UNCHANGED << tx_byte_valid, rx_byte_ready, clear_rx, clear_tx, op, at, cycle,
                      ready_for_edge, result, accepted, ops >>
  <2>1. chars \in Nat
    BY IntfAssumption DEF IntfInv, IntfTypes
  <2>2. arrival => chars < MaxChars /\ chars' = chars + 1 /\ arrived' = chars + 1
    BY DEF Rise
  <2>3. ~arrival => arrived' = 0 /\ chars' = chars
    BY DEF Rise
  <2> QED BY <2>1, <2>2, <2>3 DEF Rise, Wakes, inputs
<1>2. Counting' /\ dropped' \in Nat /\ rx_overrun' \in Nat
  BY RiseCounts
<1>3. /\ txq' \in Seq({1}) /\ Len(txq') <= TxDepth /\ busy' \in BOOLEAN
      /\ entered' = IF tx_byte_valid /\ tx_byte_ready THEN entered + 1 ELSE entered
      /\ txq = << >> /\ ~busy /\ ~tx_byte_valid => txq' = << >> /\ ~busy'
      /\ gone' \in Nat
      /\ gone' + Len(txq') + BeingSent' =
           gone + Len(txq) + BeingSent + (IF tx_byte_valid /\ tx_byte_ready THEN 1 ELSE 0)
  BY RiseTx
<1>4. /\ rxq' \in Seq(1 .. MaxChars) /\ Len(rxq') <= RxDepth
      /\ ~rx_byte_ready /\ ~clear_rx /\ rxq # << >> => rxq' # << >> /\ Head(rxq') = Head(rxq)
      /\ popped' = IF pop_fire /\ ~clear_rx THEN Append(popped, Head(rxq)) ELSE popped
  BY RiseRx
<1>5. popped' \in Seq(1 .. MaxChars)
  <2>1. pop_fire => Head(rxq) \in 1 .. MaxChars
    BY HeadTailProperties DEF pop_fire, IntfInv, IntfTypes, IntfTypeOK
  <2>2. popped \in Seq(1 .. MaxChars)
    BY DEF IntfInv, IntfTypes
  <2>3. pop_fire => Append(popped, Head(rxq)) \in Seq(1 .. MaxChars)
    BY <2>1, <2>2, AppendProperties
  <2> QED BY <1>4, <2>2, <2>3
<1>6. arrived' \in 0 .. MaxChars /\ chars' \in 0 .. MaxChars /\ entered' \in Nat
  BY <1>1, <1>3, IntfAssumption DEF IntfInv, IntfTypes
<1>7. IntfTypes'
  BY <1>1, <1>2, <1>3, <1>4, <1>5, <1>6 DEF IntfInv, IntfTypes, IntfTypeOK
<1>8. IntfDriven'
  BY <1>1 DEF IntfInv, IntfDriven
<1>9. IntfPlaces'
  BY <1>1, <1>3 DEF IntfInv, IntfPlaces, IntfDriven, PushPoints, Calls
<1>10. Pushing'
  BY <1>1, <1>3 DEF IntfInv, Pushing, IntfDriven, PushPoints
<1>11. Popping'
  <2>1. at = "pop_ends" /\ wait = "fall" => popped' = << result >> /\ result \in 1 .. MaxChars
    <3> SUFFICES ASSUME at = "pop_ends", wait = "fall"
                 PROVE  popped' = << result >> /\ result \in 1 .. MaxChars
      OBVIOUS
    <3>1. AtHead /\ rx_byte_ready /\ ~clear_rx
      BY <1>1 DEF IntfInv, Popping, IntfDriven
    <3>2. popped' = Append(<< >>, result)
      BY <1>4, <3>1 DEF AtHead, pop_fire
    <3>3. rxq # << >> /\ result = Head(rxq) /\ rxq \in Seq(1 .. MaxChars)
      BY <3>1 DEF AtHead, IntfInv, IntfTypes, IntfTypeOK
    <3>4. result \in 1 .. MaxChars
      BY <3>3, HeadTailProperties
    <3> QED BY <3>2, <3>4
  <2>2. at \in {"pop_read", "pop_ready"} =>
          popped' = popped /\ (rxq # << >> => rxq' # << >> /\ Head(rxq') = Head(rxq))
    BY <1>4 DEF pop_fire, IntfInv, IntfDriven
  <2> QED BY <1>1, <2>1, <2>2 DEF IntfInv, Popping, AtHead, Taken
<1>12. Promised'
  <2>1. at = "case" => ~tx_byte_valid /\ entered' = entered
    BY <1>3 DEF IntfInv, IntfDriven, PushPoints
  <2>2. at = "case" /\ op = "pop_rx_byte" => popped' = popped
    BY <1>4 DEF pop_fire, IntfInv, IntfDriven
  <2> QED BY <1>1, <1>3, <2>1, <2>2
          DEF IntfInv, Promised, PushOnce, PopsWhatItReads, FoundIdle
<1>13. Conserved'
  <2>1. BeingPushed' = BeingPushed + (IF tx_byte_valid /\ tx_byte_ready THEN 1 ELSE 0)
    BY <1>1, <1>3 DEF BeingPushed, IntfInv, IntfDriven
  <2>2. /\ BeingPushed \in Nat /\ BeingSent \in Nat /\ BeingSent' \in Nat /\ accepted \in Nat
        /\ gone \in Nat /\ Len(txq) \in Nat /\ Len(txq') \in Nat
    BY <1>3 DEF BeingPushed, BeingSent, IntfInv, IntfTypes, IntfTypeOK
  <2>3. accepted + BeingPushed = gone + Len(txq) + BeingSent
    BY DEF IntfInv, Conserved
  <2>4. accepted' + BeingPushed' = gone' + Len(txq') + BeingSent'
    BY <1>1, <1>3, <2>1, <2>2, <2>3
  <2> QED BY <2>4 DEF Conserved
<1> QED BY <1>2, <1>7, <1>8, <1>9, <1>10, <1>11, <1>12, <1>13 DEF IntfInv

-----------------------------------------------------------------------------
LEMMA IntfInvariance == IntfSpec => []IntfInv
<1>1. IntfInv /\ [IntfNext]_intf_vars => IntfInv'
  <2> SUFFICES ASSUME IntfInv, [IntfNext]_intf_vars PROVE IntfInv'
    OBVIOUS
  <2>1. CASE Edges
    BY <2>1, IntfFallInv, IntfRiseInv DEF Edges
  <2>2. CASE Steps
    BY <2>2, IntfPushBeginsInv, IntfPushReadsInv, IntfPushEdgeInv, IntfPushEndsInv,
       IntfPopBeginsInv, IntfPopReadsInv, IntfPopReadyInv, IntfPopEndsInv, IntfSetRxReadyInv,
       IntfPulseBeginsInv, IntfPulseEndsInv, IntfIdleReadsInv DEF Steps
  <2>3. CASE \E o \in Calls : Call(o)
    BY <2>3, IntfCallInv
  <2>4. CASE UNCHANGED intf_vars
    <3>1. UNCHANGED << clk, txq, busy, tick, rxq, arrived, tx_byte_valid, rx_byte_ready, clear_rx,
                       clear_tx, op, at, wait, cycle, ready_for_edge, result, rx_overrun,
                       entered, accepted, gone, popped, dropped, ops, chars >>
      BY <2>4 DEF intf_vars, device, inputs, caller, account
    <3> QED BY <3>1 DEF IntfInv, IntfTypes, IntfTypeOK, IntfDriven, IntfPlaces, Pushing,
       tx_byte_ready, tx_start, Popping, AtHead, Taken, Counting, DropsCounted, Conserved,
       BeingPushed, BeingSent, Promised, PushOnce, PopsWhatItReads, FoundIdle
  <2> QED BY <2>1, <2>2, <2>3, <2>4 DEF IntfNext
<1> QED BY IntfInitInv, <1>1, PTL DEF IntfSpec

\* Every variable of the interface agent keeps its type (intf.cpp:45-338).
THEOREM IntfTypeCorrect == IntfSpec => []IntfTypeOK
<1>1. IntfInv => IntfTypeOK
  BY DEF IntfInv, IntfTypes
<1> QED BY <1>1, IntfInvariance, PTL

\* try_push_tx_byte (intf.cpp:130-168) never pushes a byte twice, and says what it
\* did, for every depth of the FIFO and every time-out.
THEOREM PushesOnce == IntfSpec => []PushOnce
<1>1. IntfInv => PushOnce
  BY DEF IntfInv, Promised
<1> QED BY <1>1, IntfInvariance, PTL

\* pop_rx_byte (intf.cpp:170-230) takes the record that it reports and no other.
THEOREM PopsTheRecordRead == IntfSpec => []PopsWhatItReads
<1>1. IntfInv => PopsWhatItReads
  BY DEF IntfInv, Promised
<1> QED BY <1>1, IntfInvariance, PTL

\* After wait_tx_idle (intf.cpp:283-298) every byte that try_push_tx_byte said was
\* accepted, and no other, has been sent or was taken by a clear, for every depth of
\* the FIFO, every time-out and every launch, clear and end of a character between.
THEOREM IdleMeansAllSent == IntfSpec => []IdleMeansSent
<1>1. IntfInv => IdleMeansSent
  <2> SUFFICES ASSUME IntfInv, at = "case", op = "wait_tx_idle", result = 1
               PROVE  accepted = gone
    BY DEF IdleMeansSent
  <2>1. txq = << >> /\ ~busy
    BY DEF IntfInv, Promised, FoundIdle
  <2>2. Len(txq) = 0 /\ BeingSent = 0 /\ BeingPushed = 0
    BY <2>1, EmptySeq DEF BeingSent, BeingPushed, PushPoints
  <2>3. accepted \in Nat /\ gone \in Nat /\ accepted + BeingPushed = gone + Len(txq) + BeingSent
    BY DEF IntfInv, IntfTypes, Conserved
  <2> QED BY <2>2, <2>3
<1> QED BY <1>1, IntfInvariance, PTL

\* monitor_events (intf.cpp:49-77) misses no overrun: no record is lost to a full
\* FIFO uncounted, wherever the case changes ready or clears a FIFO.  A record that
\* arrives in the cycle of a clear is lost without an overrun, and is not meant.
THEOREM EveryDropCounted == IntfSpec => []DropsCounted
<1>1. IntfInv => DropsCounted
  BY DEF IntfInv, Counting
<1> QED BY <1>1, IntfInvariance, PTL
==============================================================================
