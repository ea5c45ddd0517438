---------------------------- MODULE VpiScheduler ----------------------------
(***************************************************************************)
(* The heart of RapidVPI: the coroutines of a testbench, the awaitables    *)
(* that suspend them (main/src/testbase) and the four VPI callbacks that   *)
(* resume them (main/src/scheduler), on top of a simulator kernel.         *)
(*                                                                         *)
(* Everything runs on one thread.  What interleaves is the order in which  *)
(* the simulator calls back, and the calls nest: a write callback resumes  *)
(* a coroutine whose vpi_put_value makes the simulator call a value-change *)
(* callback, which resumes a second coroutine, before the first returns.   *)
(* `stack' is that C++ call stack, bottom first.                           *)
(*                                                                         *)
(* The simulator is external code: its part (when a callback may be        *)
(* called, what vpi_put_value and vpi_remove_cb do to the callbacks) is    *)
(* modelled from the VPI contract that the sources use.                    *)
(***************************************************************************)
EXTENDS Integers, Sequences, FiniteSets

CONSTANTS
  Tests,        \* top-level test coroutines (RunTask frames)
  Tasks,        \* user coroutine frames that can be co_awaited (RunUserTask)
  Nets,         \* names added with addNet
  Data,         \* heap blocks for SchedulerCallbackData
  None,         \* the null pointer
  WriteValues,  \* the values testbench code writes (numbers: "0", "1")
  DutValues,    \* the values the design drives (may include "x", "z")
  Delays,       \* delays in ticks that testbench code asks for
  MaxTime,      \* bound: last tick of the simulation
  MaxWork       \* bound: awaits, calls and DUT changes in a behaviour

Coros  == Tests \cup Tasks
Values == {"0", "1", "x", "z"}

ASSUME ConstantsAssumption ==
  /\ Tests \cap Tasks = {}
  /\ Coros \cap Data = {}
  /\ None \notin Coros \cup Data \cup Nets \cup Values
  /\ WriteValues \subseteq Values
  /\ DutValues \subseteq Values
  /\ Delays \subseteq Nat
  /\ MaxTime \in Nat
  /\ MaxWork \in Nat

VARIABLES
  phase,       \* "init" (cbStartOfSimulation), "active" or "readonly" region
  now,         \* simulation time in ticks
  val,         \* value of each net
  stack,       \* C++ activations, innermost last
  frame,       \* state of each coroutine frame
  parent,      \* promise_type::parentHandle of each task frame
  group,       \* AwaitWrite::grouped_writes of the awaiter in each frame
  data,        \* SchedulerCallbackData blocks
  registered,  \* blocks that the simulator holds as user_data
  todo,        \* tests that sim_init has not started yet
  readAt,      \* history: tick of the latest read_callback
  work         \* how much of MaxWork is used up

vars == << phase, now, val, stack, frame, parent, group, data, registered,
           todo, readAt, work >>

-----------------------------------------------------------------------------
(* Callback kinds.  "write" and "read" are timers; "change" and "target"    *)
(* watch a net.                                                             *)

Kinds   == {"write", "read", "change", "target"}
Reasons == {"cbAfterDelay", "cbReadOnlySynch", "cbValueChange"}

\* Seeded fault: AwaitRead registers an active-region timer.
MutReason(kind) == IF kind \in {"write", "read"} THEN "cbAfterDelay" ELSE "cbValueChange"

\* The VPI reason each await_suspend registers with.
Reason(kind) == CASE kind = "write" -> "cbAfterDelay"
                  [] kind = "read"  -> "cbReadOnlySynch"
                  [] OTHER          -> "cbValueChange"

\* The region of a tick in which the simulator makes a timer callback.
Region(reason) == IF reason = "cbReadOnlySynch" THEN "readonly" ELSE "active"

\* aval of one four-state bit, the only half the target comparison looks at.
Aval(v) == IF v \in {"1", "x"} THEN 1 ELSE 0

\* A block is free, armed (its callback is still to come) or firing (its
\* callback has started and is to free it).  `hit' says that the watched net
\* changed and the simulator has not called back yet.
Block == [st : {"free", "armed", "firing"}, kind : Kinds \cup {None},
          co : Coros \cup {None}, due : 0 .. MaxTime, net : Nets \cup {None},
          target : Values \cup {None}, hit : BOOLEAN]

Freed == [st |-> "free", kind |-> None, co |-> None, due |-> 0,
          net |-> None, target |-> None, hit |-> FALSE]

\* Seeded fault: the delay is rounded down by a tick.
MutTimerBlock(kind, c, delay) ==
  [st |-> "armed", kind |-> kind, co |-> c,
   due |-> IF now + delay = 0 THEN 0 ELSE now + delay - 1,
   net |-> None, target |-> None, hit |-> FALSE]

TimerBlock(kind, c, delay) ==
  [st |-> "armed", kind |-> kind, co |-> c, due |-> now + delay,
   net |-> None, target |-> None, hit |-> FALSE]

WatchBlock(c, n, t) ==
  [st |-> "armed", kind |-> IF t = None THEN "change" ELSE "target", co |-> c,
   due |-> 0, net |-> n, target |-> t, hit |-> FALSE]

\* Activations: a callback that waits for the resume it made to return, a
\* coroutine in AwaitWrite::await_resume, one that runs its body, and the
\* final_suspend of a task that waits for its parent's resume to return.
Activation == [fn : {"callback"}, id : Data]
                \cup [fn : {"put", "run", "final"}, id : Coros]
Callback(d) == [fn |-> "callback", id |-> d]
Put(c)      == [fn |-> "put",      id |-> c]
Run(c)      == [fn |-> "run",      id |-> c]
Final(k)    == [fn |-> "final",    id |-> k]

\* Frame states: no frame; on the stack; suspended in a Await{Write,Read,
\* Change} that is registered, or that could not be; suspended in the co_await
\* of a task; at its final suspend point.
FrameStates == {"none", "running", "awaiting", "lost", "calling", "final"}

WriteGroups == UNION {[S -> WriteValues] : S \in SUBSET Nets}
NoWrites    == [n \in {} |-> None]

Idle         == stack = << >>
Top          == stack[Len(stack)]
OnTop(a)     == ~Idle /\ Top = a
Pop          == SubSeq(stack, 1, Len(stack) - 1)
ReplaceTop(a) == [stack EXCEPT ![Len(stack)] = a]

\* The simulator reacts between its own events and inside vpi_put_value.
SimulatorInControl == Idle \/ \E c \in Coros : OnTop(Put(c))

Hits == {d \in registered : data[d].hit}

\* vpi_put_value or a DUT assignment: a net that changes hits its watchers.
SetNet(n, v) ==
  /\ val'  = [val EXCEPT ![n] = v]
  /\ data' = [d \in Data |->
               IF d \in registered /\ data[d].net = n /\ v # val[n]
               THEN [data[d] EXCEPT !.hit = TRUE] ELSE data[d]]

-----------------------------------------------------------------------------
Init ==
  /\ phase = "init"
  /\ now = 0
  /\ val = [n \in Nets |-> "x"]
  /\ stack = << >>
  /\ frame = [c \in Coros |-> "none"]
  /\ parent = [c \in Coros |-> None]
  /\ group = [c \in Coros |-> NoWrites]
  /\ data = [d \in Data |-> Freed]
  /\ registered = {}
  /\ todo = Tests
  /\ readAt = -1
  /\ work = 0

(* sim_init: every registered test function is called; the body of the     *)
(* coroutine runs at once, up to its first suspension.                      *)
StartTest(t) ==
  /\ phase = "init" /\ Idle /\ t \in todo
  /\ todo'  = todo \ {t}
  /\ frame' = [frame EXCEPT ![t] = "running"]
  /\ stack' = << Run(t) >>
  /\ UNCHANGED << phase, now, val, parent, group, data, registered, readAt, work >>

SimInitReturns ==
  /\ phase = "init" /\ Idle /\ todo = {}
  /\ phase' = "active"
  /\ UNCHANGED << now, val, stack, frame, parent, group, data, registered,
                  todo, readAt, work >>

-----------------------------------------------------------------------------
(* The awaitables: what await_suspend does before control goes back to     *)
(* whoever resumed the coroutine.                                           *)

Spend == work < MaxWork /\ work' = work + 1

\* vpi_register_cb succeeded: the block is handed over to the callback.
Register(c, block) ==
  \E d \in Data : /\ data[d] = Freed
                  /\ data' = [data EXCEPT ![d] = block]
                  /\ registered' = registered \cup {d}
                  /\ frame' = [frame EXCEPT ![c] = "awaiting"]

\* It returned NULL (or the net has no handle): the unique_ptr frees the
\* block, and nothing will ever resume the coroutine.
RegistrationFails(c) ==
  /\ frame' = [frame EXCEPT ![c] = "lost"]
  /\ UNCHANGED << data, registered >>

\* Seeded fault: a write without delay is applied at once, from await_suspend.
MutAwaitWriteSuspend(c, delay, g) ==
  /\ OnTop(Run(c)) /\ Spend
  /\ now + delay <= MaxTime
  /\ group' = [group EXCEPT ![c] = g]
  /\ IF delay = 0
     THEN stack' = ReplaceTop(Put(c)) /\ UNCHANGED << frame, data, registered >>
     ELSE stack' = Pop /\ Register(c, TimerBlock("write", c, delay))
  /\ UNCHANGED << phase, now, val, parent, todo, readAt >>

AwaitWriteSuspend(c, delay, g) ==
  /\ OnTop(Run(c)) /\ Spend
  /\ now + delay <= MaxTime
  /\ \/ /\ ~(phase = "readonly" /\ delay = 0)  \* no write event in that region
        /\ Register(c, TimerBlock("write", c, delay))
        /\ group' = [group EXCEPT ![c] = g]
     \/ RegistrationFails(c) /\ UNCHANGED group
  /\ stack' = Pop
  /\ UNCHANGED << phase, now, val, parent, todo, readAt >>

AwaitReadSuspend(c, delay) ==
  /\ OnTop(Run(c)) /\ Spend
  /\ now + delay <= MaxTime
  /\ Register(c, TimerBlock("read", c, delay)) \/ RegistrationFails(c)
  /\ stack' = Pop
  /\ UNCHANGED << phase, now, val, parent, group, todo, readAt >>

\* t = None: any change; otherwise the target value 0 or 1.
AwaitChangeSuspend(c, n, t) ==
  /\ OnTop(Run(c)) /\ Spend
  /\ Register(c, WatchBlock(c, n, t)) \/ RegistrationFails(c)
  /\ stack' = Pop
  /\ UNCHANGED << phase, now, val, parent, group, todo, readAt >>

-----------------------------------------------------------------------------
(* The callbacks.                                                           *)

Resume(d) == frame' = [frame EXCEPT ![data[d].co] = "running"]
Fire(d)   == data'  = [data EXCEPT ![d].st = "firing", ![d].hit = FALSE]

\* Timers are one-shot: the simulator drops the registration when it calls.
DueTimer(d, kind) ==
  /\ d \in registered /\ data[d].kind = kind
  /\ data[d].due = now
  /\ phase = Region(Reason(kind))

\* The resumed coroutine enters AwaitWrite::await_resume.
WriteCallback(d) ==
  /\ Idle /\ DueTimer(d, "write")
  /\ registered' = registered \ {d}
  /\ Fire(d) /\ Resume(d)
  /\ stack' = << Callback(d), Put(data[d].co) >>
  /\ UNCHANGED << phase, now, val, parent, group, todo, readAt, work >>

ReadCallback(d) ==
  /\ Idle /\ DueTimer(d, "read")
  /\ registered' = registered \ {d}
  /\ Fire(d) /\ Resume(d)
  /\ stack' = << Callback(d), Run(data[d].co) >>
  /\ readAt' = now
  /\ UNCHANGED << phase, now, val, parent, group, todo, work >>

\* Seeded fault: a not targeted wait takes the branch that compares values.
MutChangeCallback(d) ==
  /\ SimulatorInControl
  /\ d \in Hits /\ data[d].kind = "change"
  /\ Aval(val[data[d].net]) = 0
  /\ Fire(d) /\ Resume(d)
  /\ stack' = Append(Append(stack, Callback(d)), Run(data[d].co))
  /\ UNCHANGED << phase, now, val, parent, group, registered, todo, readAt, work >>

\* Not targeted: resume first; the registration stays until the return.
ChangeCallback(d) ==
  /\ SimulatorInControl
  /\ d \in Hits /\ data[d].kind = "change"
  /\ Fire(d) /\ Resume(d)
  /\ stack' = Append(Append(stack, Callback(d)), Run(data[d].co))
  /\ UNCHANGED << phase, now, val, parent, group, registered, todo, readAt, work >>

\* Seeded fault: the block is freed, the callback is not removed.
MutReturnsRegistered ==
  /\ ~Idle /\ Top.fn = "callback"
  /\ data' = [data EXCEPT ![Top.id] = Freed]
  /\ stack' = Pop
  /\ UNCHANGED << phase, now, val, frame, parent, group, registered, todo, readAt, work >>

\* What the three callbacks above do after h.resume(): remove a value-change
\* callback, free the block.
CallbackReturns ==
  /\ ~Idle /\ Top.fn = "callback"
  /\ data' = [data EXCEPT ![Top.id] = Freed]
  /\ registered' = registered \ {Top.id}
  /\ stack' = Pop
  /\ UNCHANGED << phase, now, val, frame, parent, group, todo, readAt, work >>

\* The comparison that decides whether a targeted wait is over.
Matches(d) == Aval(val[data[d].net]) = Aval(data[d].target)

\* Seeded fault: a change that does not match ends the wait.
MutChangeCallbackTargetedKeeps(d) ==
  /\ SimulatorInControl
  /\ d \in Hits /\ data[d].kind = "target" /\ ~Matches(d)
  /\ registered' = registered \ {d}
  /\ data' = [data EXCEPT ![d] = Freed]
  /\ UNCHANGED << phase, now, val, stack, frame, parent, group, todo, readAt, work >>

\* Targeted, no match: keep the callback.
ChangeCallbackTargetedKeeps(d) ==
  /\ SimulatorInControl
  /\ d \in Hits /\ data[d].kind = "target" /\ ~Matches(d)
  /\ data' = [data EXCEPT ![d].hit = FALSE]
  /\ UNCHANGED << phase, now, val, stack, frame, parent, group, registered,
                  todo, readAt, work >>

\* Targeted, match: remove the callback and free the block, then resume.
ChangeCallbackTargetedFires(d) ==
  /\ SimulatorInControl
  /\ d \in Hits /\ data[d].kind = "target" /\ Matches(d)
  /\ registered' = registered \ {d}
  /\ data' = [data EXCEPT ![d] = Freed]
  /\ Resume(d)
  /\ stack' = Append(stack, Run(data[d].co))
  /\ UNCHANGED << phase, now, val, parent, group, todo, readAt, work >>

-----------------------------------------------------------------------------
(* AwaitWrite::await_resume: one vpi_put_value per grouped net, in the      *)
(* order of an unordered_map, then the coroutine body goes on.              *)
PutValue(c, n) ==
  /\ OnTop(Put(c)) /\ n \in DOMAIN group[c]
  /\ SetNet(n, group[c][n])
  /\ group' = [group EXCEPT ![c] = [m \in DOMAIN @ \ {n} |-> @[m]]]
  /\ UNCHANGED << phase, now, stack, frame, parent, registered, todo, readAt, work >>

PutsDone(c) ==
  /\ OnTop(Put(c)) /\ DOMAIN group[c] = {}
  /\ stack' = ReplaceTop(Run(c))
  /\ UNCHANGED << phase, now, val, frame, parent, group, data, registered,
                  todo, readAt, work >>

-----------------------------------------------------------------------------
(* Nested user coroutines.                                                  *)

\* Seeded fault: the child's promise does not learn its parent.
MutCallTask(c, k) ==
  /\ OnTop(Run(c)) /\ Spend
  /\ frame[k] = "none"
  /\ frame'  = [frame EXCEPT ![c] = "calling", ![k] = "running"]
  /\ stack'  = ReplaceTop(Run(k))
  /\ UNCHANGED << phase, now, val, parent, group, data, registered, todo, readAt >>

\* co_await task(...): a new frame, which runs at once.  The caller's
\* await_suspend stays below it, but has nothing left to do.
CallTask(c, k) ==
  /\ OnTop(Run(c)) /\ Spend
  /\ frame[k] = "none"
  /\ frame'  = [frame EXCEPT ![c] = "calling", ![k] = "running"]
  /\ parent' = [parent EXCEPT ![k] = c]
  /\ stack'  = ReplaceTop(Run(k))
  /\ UNCHANGED << phase, now, val, group, data, registered, todo, readAt >>

\* Seeded fault: the child destroys its frame, then resumes its parent.
MutDestroysFirst(k) ==
  /\ k \in Tasks /\ OnTop(Run(k))
  /\ frame' = [frame EXCEPT ![k] = "none", ![parent[k]] = "running"]
  /\ stack' = Append(ReplaceTop(Final(k)), Run(parent[k]))
  /\ UNCHANGED << phase, now, val, parent, group, data, registered, todo,
                  readAt, work >>

\* RunUserTask final_suspend: resume the parent from within the child.
TaskReturns(k) ==
  /\ k \in Tasks /\ OnTop(Run(k))
  /\ frame' = [frame EXCEPT ![k] = "final", ![parent[k]] = "running"]
  /\ stack' = Append(ReplaceTop(Final(k)), Run(parent[k]))
  /\ UNCHANGED << phase, now, val, parent, group, data, registered, todo,
                  readAt, work >>

\* The parent's resume returned: the child destroys its own frame.
TaskDestroyed(k) ==
  /\ OnTop(Final(k))
  /\ frame'  = [frame EXCEPT ![k] = "none"]
  /\ parent' = [parent EXCEPT ![k] = None]
  /\ stack'  = Pop
  /\ UNCHANGED << phase, now, val, group, data, registered, todo, readAt, work >>

\* RunTask final_suspend.
TestReturns(t) ==
  /\ t \in Tests /\ OnTop(Run(t))
  /\ frame' = [frame EXCEPT ![t] = "none"]
  /\ stack' = Pop
  /\ UNCHANGED << phase, now, val, parent, group, data, registered, todo,
                  readAt, work >>

-----------------------------------------------------------------------------
(* The simulator kernel.                                                    *)

DutChange(n, v) ==
  /\ Idle /\ phase = "active" /\ v # val[n] /\ Spend
  /\ SetNet(n, v)
  /\ UNCHANGED << phase, now, stack, frame, parent, group, registered, todo, readAt >>

DueIn(region) == {d \in registered : /\ data[d].kind \in {"write", "read"}
                                     /\ data[d].due = now
                                     /\ Region(Reason(data[d].kind)) = region}

\* No event of this tick is left.
EnterReadOnly ==
  /\ Idle /\ phase = "active"
  /\ DueIn("active") = {} /\ Hits = {}
  /\ phase' = "readonly"
  /\ UNCHANGED << now, val, stack, frame, parent, group, data, registered,
                  todo, readAt, work >>

AdvanceTime ==
  /\ Idle /\ phase = "readonly" /\ DueIn("readonly") = {}
  /\ now < MaxTime
  /\ now' = now + 1 /\ phase' = "active"
  /\ UNCHANGED << val, stack, frame, parent, group, data, registered, todo,
                  readAt, work >>

-----------------------------------------------------------------------------
CoroutineStep ==
  \E c \in Coros :
    \/ \E delay \in Delays : \/ \E g \in WriteGroups : AwaitWriteSuspend(c, delay, g)
                             \/ AwaitReadSuspend(c, delay)
    \/ \E n \in Nets, t \in {"0", "1", None} : AwaitChangeSuspend(c, n, t)
    \/ \E n \in Nets : PutValue(c, n)
    \/ PutsDone(c)
    \/ \E k \in Tasks : CallTask(c, k)
    \/ TaskReturns(c) \/ TaskDestroyed(c) \/ TestReturns(c)

CallbackStep ==
  \/ \E d \in Data : \/ WriteCallback(d) \/ ReadCallback(d) \/ ChangeCallback(d)
                     \/ ChangeCallbackTargetedKeeps(d)
                     \/ ChangeCallbackTargetedFires(d)
  \/ CallbackReturns

SimulatorStep ==
  \/ \E t \in Tests : StartTest(t)
  \/ SimInitReturns \/ EnterReadOnly \/ AdvanceTime

DutStep == \E n \in Nets, v \in DutValues : DutChange(n, v)

Next == CoroutineStep \/ CallbackStep \/ SimulatorStep \/ DutStep

Spec == Init /\ [][Next]_vars

(* The program is one thread that never blocks, and the simulator calls back *)
(* whatever is due; the design alone is free not to move.                    *)
Fairness == /\ WF_vars(CoroutineStep)
            /\ WF_vars(CallbackStep)
            /\ WF_vars(SimulatorStep)

FairSpec == Spec /\ Fairness

-----------------------------------------------------------------------------
(* Properties.                                                              *)

Indices == 1 .. Len(stack)

\* Types of the variables.
TypeOK ==
  /\ phase \in {"init", "active", "readonly"}
  /\ now \in 0 .. MaxTime
  /\ val \in [Nets -> Values]
  /\ stack \in Seq(Activation)
  /\ frame \in [Coros -> FrameStates]
  /\ parent \in [Coros -> Coros \cup {None}]
  /\ group \in [Coros -> WriteGroups]
  /\ data \in [Data -> Block]
  /\ registered \in SUBSET Data
  /\ todo \in SUBSET Tests
  /\ readAt \in -1 .. MaxTime
  /\ work \in 0 .. MaxWork

\* The user_data of a registered callback is never a freed block, and the
\* block that a running callback is going to free is freed by it alone:
\* no use after free and no double free of SchedulerCallbackData.
UserDataAlive ==
  /\ \A d \in registered : data[d].st # "free"
  /\ \A i \in Indices : stack[i].fn = "callback" =>
       /\ data[stack[i].id].st = "firing"
       /\ \A j \in Indices : stack[j] = stack[i] => j = i

\* No block leaks: each one is either owned by a registered callback or by
\* a callback that is on the stack and will free it.
NoLeak ==
  \A d \in Data :
    /\ data[d].st = "armed"  => d \in registered
    /\ data[d].st = "firing" => \E i \in Indices : stack[i] = Callback(d)

\* Every SchedulerCallbackData is freed once, after its last use.
BlocksSafe == UserDataAlive /\ NoLeak

\* A coroutine that is suspended in a registered awaitable is resumed by
\* exactly one callback, and no callback holds the handle of a coroutine
\* that runs, has finished or waits for something else.
OneWaker ==
  /\ \A d \in Data : data[d].st = "armed" =>
       /\ data[d].co \in Coros
       /\ frame[data[d].co] = "awaiting"
       /\ \A e \in Data : data[e].st = "armed" /\ data[e].co = data[d].co => e = d
  /\ \A c \in Coros : frame[c] = "awaiting" =>
       \E d \in Data : data[d].st = "armed" /\ data[d].co = c

\* A task frame between its first and its last instruction.
Live(k) == frame[k] \notin {"none", "final"}

\* The parentHandle of a live task is a coroutine suspended in the co_await
\* of that task and of no other, and such a coroutine has a live child: the
\* resume in final_suspend hits the right frame, and a caller is not forgotten.
CallersAndTasks ==
  /\ \A k \in Tasks : Live(k) =>
       /\ parent[k] \in Coros
       /\ frame[parent[k]] = "calling"
       /\ \A m \in Tasks : Live(m) /\ parent[m] = parent[k] => m = k
  /\ \A c \in Coros : frame[c] = "calling" => \E k \in Tasks : Live(k) /\ parent[k] = c

\* Every activation of a coroutine belongs to a frame that exists and is in
\* the matching state, and no frame has two: a frame is not resumed while it
\* runs, nor destroyed under an activation that still uses it.
FramesOnStack ==
  \A i \in Indices :
    /\ stack[i].fn \in {"put", "run"} => frame[stack[i].id] = "running"
    /\ stack[i].fn = "final"          => frame[stack[i].id] = "final"
    /\ \A j \in Indices : stack[j].id = stack[i].id => j = i

\* Tasks return to the caller that waits for them, through frames that exist.
FramesSafe == CallersAndTasks /\ FramesOnStack

\* Callbacks nest two deep at most: a write callback at the bottom, and over
\* its vpi_put_value one value-change callback, whose coroutine cannot write.
NestingBound ==
  \A i \in Indices :
    /\ stack[i].fn = "put"      => i = 2 /\ stack[1].fn = "callback"
    /\ stack[i].fn = "callback" => i = 1 \/ (i = 3 /\ stack[2].fn = "put")

\* A not targeted change callback stays registered while it resumes its
\* coroutine, but no net change reaches it a second time before it is removed.
NoReentry == \A d \in Data : data[d].st = "firing" => ~data[d].hit

\* Callbacks nest as deep as that and none re-enters itself.
NestingSafe == NestingBound /\ NoReentry

\* What an AwaitRead fetches is final for its tick: once a read callback was
\* called, no net changes before time advances (README.md:226 and 513).
ReadSeesSettled == [][val' # val => readAt < now]_vars

\* A timed await always ends: delays, writes and reads are not lost.
TimersFire ==
  \A d \in Data : data[d].st = "armed" /\ data[d].kind \in {"write", "read"}
                    ~> data[d].st # "armed"

\* A not targeted wait ends once its net has changed.
ChangesWake ==
  \A d \in Data : data[d].kind = "change" /\ data[d].hit ~> data[d].st # "armed"
=============================================================================
