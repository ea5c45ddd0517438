----------------------------- MODULE ClockAgent ------------------------------
(***************************************************************************)
(* vip_common/agents/clock: the coroutine clk_run that toggles a clock net,*)
(* and the requests test cases make of it at any time.  Time is counted in *)
(* ticks of the simulator; a write takes none.  duration_to_ticks has been *)
(* applied to the periods.                                                 *)
(***************************************************************************)
EXTENDS Integers

CONSTANTS
  Periods,          \* periods that test cases ask for
  IDLE_POLL_TICKS,  \* how long clk_run sleeps while stopped
  MaxRequests,      \* bound on the requests
  MaxHeld           \* where the count of ticks since the last change stops

ASSUME ClockAssumption ==
  Periods \subseteq Nat /\ IDLE_POLL_TICKS \in Nat \ {0} /\ MaxRequests \in Nat
  /\ MaxHeld \in Nat

VARIABLES
  running_req, period_req,  \* running_req_, period_req_ticks_
  running,                  \* running_applied_
  period,                   \* period_applied_ticks_
  pc,                       \* where clk_run is
  left,                     \* ticks until its delay ends
  low_ticks,                \* its local of that name
  net,                      \* the clock net, unknown before the first write but taken as low
  requests,                 \* requests made
  held,                     \* ticks since the net last changed
  cycle,                    \* the period that was applied at the last rise, 0 before the first
  asked                     \* whether a stop has been asked for since

clock_vars == << running_req, period_req, running, period, pc, left, low_ticks, net, requests,
                 held, cycle, asked >>
request    == << running_req, period_req, requests, asked >>
history    == << held, cycle, asked >>

DefaultPeriod == 10
AtLeastTwo(ticks) == IF ticks < 2 THEN 2 ELSE ticks

\* The count of ticks does not stop before half a cycle is over.
ASSUME HeldAssumption == \A p \in Periods \cup {DefaultPeriod} : AtLeastTwo(p) <= MaxHeld

ClockInit ==
  /\ running_req = FALSE /\ period_req = DefaultPeriod /\ requests = 0
  /\ running = FALSE /\ period = DefaultPeriod
  /\ pc = "init" /\ left = 0 /\ low_ticks = 0 /\ net = 0
  /\ held = 0 /\ cycle = 0 /\ asked = FALSE

-----------------------------------------------------------------------------
(* Requests: they only leave a note for clk_run.                            *)

Request == requests < MaxRequests /\ requests' = requests + 1

start ==
  /\ Request
  /\ \E p \in Periods : period_req' = AtLeastTwo(p)
  /\ running_req' = TRUE
  /\ UNCHANGED << running, period, pc, left, low_ticks, net, history >>

stop ==
  /\ Request
  /\ running_req' = FALSE /\ asked' = TRUE
  /\ UNCHANGED << period_req, running, period, pc, left, low_ticks, net, held, cycle >>

set_period ==
  /\ Request
  /\ \E p \in Periods : period_req' = AtLeastTwo(p)
  /\ UNCHANGED << running_req, running, period, pc, left, low_ticks, net, history >>

-----------------------------------------------------------------------------
(* clk_run.  A step goes from one co_await to the next.                     *)

Drive(value) ==
  /\ net' = value
  /\ held' = IF value = net THEN held ELSE 0

DriveLow ==
  /\ pc = "init"
  /\ Drive(0) /\ pc' = "apply"
  /\ UNCHANGED << running, period, left, low_ticks, cycle, request >>

\* apply_requests_: the period is taken over, and so is the wish to run.
Apply ==
  /\ period' = AtLeastTwo(period_req)
  /\ running' = running_req

Stopping == running /\ ~running_req

\* At the top of the loop.
ApplyTop ==
  /\ pc = "apply" /\ Apply
  /\ pc' = IF Stopping THEN "park" ELSE IF running' THEN "rise" ELSE "sleep"
  /\ left' = IF pc' = "sleep" THEN IDLE_POLL_TICKS ELSE 0
  /\ UNCHANGED << low_ticks, net, held, cycle, request >>

\* Parks the clock; running_applied_ then has it sleep.
ParkTop ==
  /\ pc = "park" /\ Drive(0)
  /\ pc' = "sleep" /\ left' = IDLE_POLL_TICKS
  /\ UNCHANGED << running, period, low_ticks, cycle, request >>

\* The halves of the cycle are laid down here; neither is 0, as a period is 2 at least.
Rise ==
  /\ pc = "rise" /\ Drive(1)
  /\ pc' = "high" /\ left' = period \div 2 /\ low_ticks' = period - period \div 2
  /\ cycle' = period /\ asked' = ~running_req
  /\ UNCHANGED << running, period, running_req, period_req, requests >>

\* Seeded fault: a stop takes effect in the middle of the high half.
MutApplyMiddle ==
  /\ pc = "high" /\ (left = 0 \/ Stopping) /\ Apply
  /\ pc' = IF Stopping THEN "park_middle" ELSE "fall"
  /\ left' = 0
  /\ UNCHANGED << low_ticks, net, held, cycle, request >>

\* Half way, running_applied_ holds.
ApplyMiddle ==
  /\ pc = "high" /\ left = 0 /\ Apply
  /\ pc' = IF Stopping THEN "park_middle" ELSE "fall"
  /\ UNCHANGED << left, low_ticks, net, held, cycle, request >>

\* Parks the clock, and looks at the requests again at once.
ParkMiddle ==
  /\ pc = "park_middle" /\ Drive(0)
  /\ pc' = "apply"
  /\ UNCHANGED << running, period, left, low_ticks, cycle, request >>

Fall ==
  /\ pc = "fall" /\ Drive(0)
  /\ pc' = "low" /\ left' = low_ticks
  /\ UNCHANGED << running, period, low_ticks, cycle, request >>

\* Seeded fault: a stopped clock does not look at the requests again.
MutAgain ==
  /\ pc \in {"low", "sleep"} /\ left = 0
  /\ pc' = IF pc = "low" THEN "apply" ELSE "sleep"
  /\ left' = IF pc = "low" THEN 0 ELSE IDLE_POLL_TICKS
  /\ UNCHANGED << running, period, low_ticks, net, held, cycle, request >>

\* The delay at the end of the loop, or that of a stopped clock, is over.
Again ==
  /\ pc \in {"low", "sleep"} /\ left = 0
  /\ pc' = "apply"
  /\ UNCHANGED << running, period, left, low_ticks, net, held, cycle, request >>

clk_run == DriveLow \/ ApplyTop \/ ParkTop \/ Rise \/ ApplyMiddle \/ ParkMiddle \/ Fall \/ Again

\* Time passes only while clk_run waits for it.
Tick ==
  /\ left > 0
  /\ left' = left - 1 /\ held' = IF held < MaxHeld THEN held + 1 ELSE held
  /\ UNCHANGED << running, period, pc, low_ticks, net, cycle, request >>

ClockNext == start \/ stop \/ set_period \/ clk_run \/ Tick

ClockSpec     == ClockInit /\ [][ClockNext]_clock_vars
ClockFairSpec == ClockSpec /\ WF_clock_vars(clk_run) /\ WF_clock_vars(Tick)

-----------------------------------------------------------------------------
(* Properties.                                                              *)

\* Types, and where the net stands at each point of clk_run.
ClockTypeOK ==
  /\ pc \in {"init", "apply", "park", "rise", "high", "park_middle", "fall", "low", "sleep"}
  /\ left \in Nat /\ held \in Nat /\ {running, running_req, asked} \subseteq BOOLEAN
  /\ period >= 2 /\ period_req >= 2
  /\ net = IF pc \in {"high", "park_middle", "fall"} THEN 1 ELSE 0

\* However requests fall, the clock is high for half of the period that held at
\* its rise, no less and no more.  A cycle during which no stop was asked for has
\* the rest of that period as its low half: a new period waits for the next cycle.
WholeCycles ==
  [][/\ net = 1 /\ net' = 0 => held = cycle \div 2
     /\ pc = "rise" /\ pc' = "high" /\ cycle # 0 /\ ~asked => held = cycle - cycle \div 2]_clock_vars

\* A clock that is asked to stop is low from some time on, unless asked to run
\* again, and one that is asked to run rises again and again.
DoesAsAsked ==
  /\ <>[]~running_req => <>[](net = 0)
  /\ <>[]running_req => []<>(net = 0) /\ []<>(net = 1)
=============================================================================
