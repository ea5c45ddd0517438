------------------------- MODULE VpiSchedulerProofs -------------------------
(***************************************************************************)
(* Machine-checked proofs about VpiScheduler, for any number of tests,     *)
(* tasks, nets and blocks and any bounds.  The argument: Inv below is      *)
(* inductive.  Its conjuncts need each other (a callback that frees a      *)
(* block relies on that block being on the stack once, which relies on     *)
(* callbacks nesting two deep, and so on), so they are proved together.    *)
(***************************************************************************)
EXTENDS VpiScheduler, SequenceTheorems, TLAPS

(* What pushing, popping and replacing the last element do to a sequence,    *)
(* index by index.                                                          *)

\* Popping keeps the elements below the top in place (the return of a
\* callback or of a coroutine's resume).
LEMMA PopFacts ==
  ASSUME NEW S, NEW s \in Seq(S), s # << >>
  PROVE  /\ SubSeq(s, 1, Len(s) - 1) \in Seq(S)
         /\ Len(SubSeq(s, 1, Len(s) - 1)) = Len(s) - 1
         /\ \A i \in 1 .. Len(s) - 1 : SubSeq(s, 1, Len(s) - 1)[i] = s[i]
<1>1. Len(s) \in Nat \ {0}
  OBVIOUS
<1> DEFINE n == Len(s) - 1
<1>2. /\ n \in Nat
      /\ \A i \in 1 .. n : s[i] \in S
  BY <1>1
<1> HIDE DEF n
<1>3. n - 1 + 1 = n
  BY <1>2
<1>4. (IF 1 <= n THEN n - 1 + 1 ELSE 0) = n
  <2>1. CASE 1 <= n
    BY <2>1, <1>3
  <2>2. CASE ~(1 <= n)
    BY <2>2, <1>2
  <2>3. QED
    BY <2>1, <2>2
<1>5. \A i \in 1 .. n : 1 + i - 1 = i
  BY <1>2
<1>6. /\ SubSeq(s, 1, n) \in Seq(S)
      /\ Len(SubSeq(s, 1, n)) = IF 1 <= n THEN n - 1 + 1 ELSE 0
      /\ \A i \in 1 .. n - 1 + 1 : SubSeq(s, 1, n)[i] = s[1 + i - 1]
  BY <1>2, SubSeqProperties, Z3
<1>7. QED
  BY <1>3, <1>4, <1>5, <1>6 DEF n

\* Pushing keeps every element in place (a call, a resume).
LEMMA PushFacts ==
  ASSUME NEW S, NEW s \in Seq(S), NEW a \in S
  PROVE  /\ Append(s, a) \in Seq(S)
         /\ Len(Append(s, a)) = Len(s) + 1
         /\ \A i \in 1 .. Len(s) : Append(s, a)[i] = s[i]
         /\ Append(s, a)[Len(s) + 1] = a
  OBVIOUS

\* Replacing the top keeps every other element in place (a coroutine that
\* goes on in another function of the same resume).
LEMMA ReplaceFacts ==
  ASSUME NEW S, NEW s \in Seq(S), s # << >>, NEW a \in S
  PROVE  /\ [s EXCEPT ![Len(s)] = a] \in Seq(S)
         /\ Len([s EXCEPT ![Len(s)] = a]) = Len(s)
         /\ \A i \in 1 .. Len(s) - 1 : [s EXCEPT ![Len(s)] = a][i] = s[i]
         /\ [s EXCEPT ![Len(s)] = a][Len(s)] = a
<1>1. Len(s) \in Nat \ {0}
  OBVIOUS
<1>2. [s EXCEPT ![Len(s)] = a] \in Seq(S)
  BY <1>1
<1>3. Len([s EXCEPT ![Len(s)] = a]) = Len(s)
  BY <1>1
<1>4. \A i \in 1 .. Len(s) - 1 : [s EXCEPT ![Len(s)] = a][i] = s[i]
  BY <1>1
<1>5. [s EXCEPT ![Len(s)] = a][Len(s)] = a
  BY <1>1
<1>6. QED
  BY <1>2, <1>3, <1>4, <1>5

-----------------------------------------------------------------------------
(* The invariant.                                                           *)

\* What ties the simulator's registrations to the blocks: a registration is
\* still to come, or is that of a not targeted change callback that runs; and
\* the callback below a vpi_put_value is a write callback.
Bookkeeping ==
  /\ \A d \in registered : \/ data[d].st = "armed"
                           \/ data[d].st = "firing" /\ data[d].kind = "change"
  /\ \A i \in Indices : stack[i].fn = "put" => data[stack[1].id].kind = "write"
  /\ \A t \in todo : frame[t] = "none"

Inv ==
  /\ TypeOK
  /\ FramesOnStack
  /\ CallersAndTasks
  /\ OneWaker
  /\ UserDataAlive
  /\ NoLeak
  /\ NestingBound
  /\ NoReentry
  /\ Bookkeeping

-----------------------------------------------------------------------------
(* Facts about the state.                                                   *)

LEMMA TopFacts ==
  ASSUME TypeOK, NEW a, OnTop(a)
  PROVE  /\ stack # << >>
         /\ Len(stack) \in Nat \ {0}
         /\ Len(stack) \in Indices
         /\ stack[Len(stack)] = a
         /\ stack \in Seq(Activation)
<1>1. stack # << >> /\ stack \in Seq(Activation) /\ stack[Len(stack)] = a
  BY DEF TypeOK, OnTop, Idle, Top
<1>2. Len(stack) \in Nat \ {0}
  BY <1>1
<1>3. QED
  BY <1>1, <1>2 DEF Indices

\* The three kinds of activation.
LEMMA ActivationFacts ==
  ASSUME TypeOK, NEW i \in Indices
  PROVE  /\ stack[i] \in Activation
         /\ stack[i].fn \in {"callback", "put", "run", "final"}
         /\ stack[i].fn = "callback"  => stack[i].id \in Data /\ stack[i].id \notin Coros
         /\ stack[i].fn # "callback"  => stack[i].id \in Coros /\ stack[i].id \notin Data
<1>1. stack \in Seq(Activation)
  BY DEF TypeOK
<1>2. stack[i] \in Activation
  BY <1>1 DEF Indices
<1>3. QED
  BY <1>2, ConstantsAssumption DEF Activation

LEMMA InitInv == Init => Inv
<1> SUFFICES ASSUME Init PROVE Inv
  OBVIOUS
<1>1. Indices = {}
  BY DEF Init, Indices
<1>2. NoWrites \in WriteGroups
  <2>1. NoWrites \in [{} -> WriteValues]
    BY DEF NoWrites
  <2>2. QED
    BY <2>1 DEF WriteGroups
<1>3. Freed \in Block
  BY ConstantsAssumption DEF Freed, Block
<1>4. TypeOK
  BY <1>2, <1>3, ConstantsAssumption DEF Init, TypeOK, Values, FrameStates
<1>5. FramesOnStack /\ UserDataAlive /\ NestingBound
  BY <1>1 DEF FramesOnStack, UserDataAlive, NestingBound, Init
<1>6. CallersAndTasks /\ OneWaker /\ NoLeak /\ NoReentry
  BY DEF CallersAndTasks, OneWaker, NoLeak, NoReentry, Init, Live, Freed, Coros
<1>7. Bookkeeping
  BY <1>1 DEF Bookkeeping, Init, Coros
<1>8. QED
  BY <1>4, <1>5, <1>6, <1>7 DEF Inv

-----------------------------------------------------------------------------
(* A coroutine suspends: it leaves the stack, and either one new block is   *)
(* armed for it or it is lost.                                              *)

LEMMA SuspendInv ==
  ASSUME Inv, NEW c \in Coros, OnTop(Run(c)),
         NEW block \in Block, block.st = "armed", block.co = c, ~block.hit,
         Register(c, block) \/ RegistrationFails(c),
         stack' = Pop,
         group' \in [Coros -> WriteGroups], work' \in 0 .. MaxWork,
         UNCHANGED << phase, now, val, parent, todo, readAt >>
  PROVE  Inv'
<1> USE DEF Inv
<1>1. /\ stack # << >> /\ Len(stack) \in Nat \ {0}
      /\ stack \in Seq(Activation)
      /\ Len(stack) \in Indices
      /\ stack[Len(stack)] = Run(c)
  BY TopFacts
<1>2. /\ stack' \in Seq(Activation)
      /\ Len(stack') = Len(stack) - 1
      /\ \A i \in 1 .. Len(stack) - 1 : stack'[i] = stack[i]
  BY <1>1, PopFacts DEF Pop
<1>3. \A i \in Indices' : i \in Indices /\ i # Len(stack) /\ stack'[i] = stack[i]
  BY <1>1, <1>2 DEF Indices
<1>4. frame[c] = "running" /\ \A i \in Indices' : stack'[i].id # c
  BY <1>1, <1>3 DEF FramesOnStack, Run
<1>5. \E t \in {"awaiting", "lost"} : frame' = [frame EXCEPT ![c] = t]
  BY DEF Register, RegistrationFails
<1>6. frame' \in [Coros -> FrameStates] /\ \A m \in Coros \ {c} : frame'[m] = frame[m]
  BY <1>5 DEF TypeOK, FrameStates
<1>7. frame'[c] \in {"awaiting", "lost"}
  BY <1>5 DEF TypeOK
<1>8. \/ /\ frame'[c] = "awaiting"
         /\ \E d \in Data : /\ data[d] = Freed
                            /\ data' = [data EXCEPT ![d] = block]
                            /\ registered' = registered \cup {d}
      \/ frame'[c] = "lost" /\ data' = data /\ registered' = registered
  BY DEF Register, RegistrationFails, TypeOK
<1>9. TypeOK'
  BY <1>2, <1>6, <1>8 DEF TypeOK
<1>10. FramesOnStack'
  <2>1. \A i \in Indices' : stack'[i].fn # "callback" => stack'[i].id \in Coros
    BY <1>3, ActivationFacts
  <2>2. QED
    BY <1>3, <1>4, <1>6, <2>1 DEF FramesOnStack
<1>11. CallersAndTasks'
  BY <1>4, <1>6, <1>7 DEF CallersAndTasks, Live, TypeOK, Coros
<1>12. OneWaker'
  BY <1>4, <1>6, <1>7, <1>8 DEF OneWaker, TypeOK, Freed
<1>19. /\ registered \subseteq registered'
       /\ \A e \in Data : \/ data'[e] = data[e]
                          \/ data[e].st = "free" /\ data'[e] = block /\ e \in registered'
       /\ \A e \in registered' : e \in registered \/ data'[e] = block
  BY <1>8 DEF TypeOK, Freed
<1>13. UserDataAlive'
  <2>1. ASSUME NEW d \in registered'
        PROVE  data'[d].st # "free"
    <3>1. d \in Data
      BY <1>9 DEF TypeOK
    <3>2. CASE data'[d] = block
      BY <3>2
    <3>3. CASE d \in registered
      BY <1>19, <3>1, <3>3 DEF UserDataAlive
    <3>4. QED
      BY <1>19, <3>2, <3>3
  <2>2. ASSUME NEW i \in Indices', stack'[i].fn = "callback"
        PROVE  /\ data'[stack'[i].id].st = "firing"
               /\ \A j \in Indices' : stack'[j] = stack'[i] => j = i
    <3>1. /\ i \in Indices /\ stack'[i] = stack[i] /\ stack[i].id \in Data
      BY <1>3, <2>2, ActivationFacts
    <3>2. data[stack[i].id].st = "firing"
      BY <2>2, <3>1 DEF UserDataAlive
    <3>3. \A j \in Indices' : stack'[j] = stack'[i] => j = i
      BY <1>3, <2>2, <3>1 DEF UserDataAlive
    <3>4. QED
      BY <1>19, <3>1, <3>2, <3>3
  <2>3. QED
    BY <2>1, <2>2 DEF UserDataAlive
<1>14. NoLeak'
  <2> SUFFICES ASSUME NEW d \in Data
               PROVE  /\ data'[d].st = "armed" => d \in registered'
                      /\ data'[d].st = "firing" => \E i \in Indices' : stack'[i] = Callback(d)
    BY DEF NoLeak
  <2>1. data'[d].st = "armed" => d \in registered'
    BY <1>19 DEF NoLeak
  <2>2. ASSUME data'[d].st = "firing"
        PROVE  \E i \in Indices' : stack'[i] = Callback(d)
    <3>1. data[d].st = "firing"
      BY <1>19, <2>2
    <3>2. PICK i \in Indices : stack[i] = Callback(d)
      BY <3>1 DEF NoLeak
    <3>3. i # Len(stack)
      BY <1>1, <3>2 DEF Callback, Run
    <3>4. i \in Indices'
      BY <1>1, <1>2, <3>3 DEF Indices
    <3>5. QED
      BY <1>3, <3>2, <3>4
  <2>3. QED
    BY <2>1, <2>2
<1>15. NestingBound'
  BY <1>1, <1>2, <1>3 DEF NestingBound, Indices
<1>16. NoReentry'
  BY <1>8 DEF NoReentry, TypeOK, Freed
<1>17. Bookkeeping'
  <2>1. ASSUME NEW d \in registered'
        PROVE  \/ data'[d].st = "armed"
               \/ data'[d].st = "firing" /\ data'[d].kind = "change"
    <3>1. d \in Data
      BY <1>9 DEF TypeOK
    <3>2. CASE data'[d] = block
      BY <3>2
    <3>3. CASE d \in registered
      BY <1>19, <3>1, <3>3 DEF UserDataAlive, Bookkeeping
    <3>4. QED
      BY <1>19, <3>2, <3>3
  <2>2. ASSUME NEW i \in Indices', stack'[i].fn = "put"
        PROVE  data'[stack'[1].id].kind = "write"
    <3>1. i \in Indices /\ stack[i].fn = "put" /\ i = 2 /\ 1 \in Indices'
      BY <1>1, <1>2, <1>3, <2>2 DEF NestingBound, Indices
    <3>2. /\ 1 \in Indices /\ stack'[1] = stack[1]
          /\ stack[1].fn = "callback" /\ data[stack[1].id].kind = "write"
      BY <1>3, <3>1 DEF NestingBound, Bookkeeping
    <3>3. stack[1].id \in Data /\ data[stack[1].id].st = "firing"
      BY <3>2, ActivationFacts DEF UserDataAlive
    <3>4. QED
      BY <1>19, <3>2, <3>3
  <2>3. \A t \in todo' : frame'[t] = "none"
    BY <1>4, <1>6 DEF Bookkeeping, TypeOK, Coros
  <2>4. QED
    BY <2>1, <2>2, <2>3 DEF Bookkeeping
<1>18. QED
  BY <1>9, <1>10, <1>11, <1>12, <1>13, <1>14, <1>15, <1>16, <1>17

-----------------------------------------------------------------------------
(* The callbacks: a block fires, its coroutine is resumed.                  *)

\* What the firing of block d, armed and registered, changes in the heap and
\* the frames; the stacks differ and are treated per callback.
LEMMA FiringFacts ==
  ASSUME Inv, NEW d \in registered, data[d].st = "armed", Fire(d), Resume(d)
  PROVE  /\ d \in Data /\ data[d].co \in Coros
         /\ data' \in [Data -> Block]
         /\ data'[d].st = "firing" /\ data'[d].kind = data[d].kind /\ ~data'[d].hit
         /\ \A e \in Data \ {d} : data'[e] = data[e]
         /\ frame[data[d].co] = "awaiting" /\ frame'[data[d].co] = "running"
         /\ frame' \in [Coros -> FrameStates]
         /\ \A m \in Coros \ {data[d].co} : frame'[m] = frame[m]
         /\ \A i \in Indices : stack[i].id # d /\ stack[i].id # data[d].co
<1> USE DEF Inv
<1>1. d \in Data /\ data[d].co \in Coros /\ frame[data[d].co] = "awaiting"
  BY DEF TypeOK, OneWaker
<1>2. data' = [data EXCEPT ![d] = [data[d] EXCEPT !.st = "firing", !.hit = FALSE]]
  BY DEF Fire
<1>3. [data[d] EXCEPT !.st = "firing", !.hit = FALSE] \in Block
  BY <1>1 DEF TypeOK, Block
<1>4. /\ data' \in [Data -> Block]
      /\ data'[d].st = "firing" /\ data'[d].kind = data[d].kind /\ ~data'[d].hit
      /\ \A e \in Data \ {d} : data'[e] = data[e]
  BY <1>1, <1>2, <1>3 DEF TypeOK, Block
<1>5. /\ frame'[data[d].co] = "running"
      /\ frame' \in [Coros -> FrameStates]
      /\ \A m \in Coros \ {data[d].co} : frame'[m] = frame[m]
  BY <1>1 DEF Resume, TypeOK, FrameStates
<1>6. ASSUME NEW i \in Indices
      PROVE  stack[i].id # d /\ stack[i].id # data[d].co
  <2>1. CASE stack[i].fn = "callback"
    BY <1>1, <2>1, ActivationFacts DEF UserDataAlive
  <2>2. CASE stack[i].fn # "callback"
    BY <1>1, <2>2, ActivationFacts DEF FramesOnStack
  <2>3. QED
    BY <2>1, <2>2
<1>7. QED
  BY <1>1, <1>4, <1>5, <1>6

\* Resuming an awaiting coroutine keeps the callers' relation.
LEMMA ResumeCallers ==
  ASSUME Inv, NEW c \in Coros, frame[c] = "awaiting", frame'[c] = "running",
         \A m \in Coros \ {c} : frame'[m] = frame[m], UNCHANGED parent
  PROVE  CallersAndTasks'
  BY DEF Inv, CallersAndTasks, Live, TypeOK, Coros

\* A timer callback finds an empty stack.
LEMMA TimerInv ==
  ASSUME Inv, NEW d \in registered, data[d].st = "armed", Fire(d), Resume(d),
         Idle, registered' = registered \ {d},
         NEW a, \/ a = Put(data[d].co) /\ data[d].kind = "write"
                \/ a = Run(data[d].co),
         stack' = << Callback(d), a >>,
         readAt' \in -1 .. MaxTime,
         UNCHANGED << phase, now, val, parent, group, todo, work >>
  PROVE  Inv'
<1> USE DEF Inv
<1>1. /\ d \in Data /\ data[d].co \in Coros
      /\ data' \in [Data -> Block]
      /\ data'[d].st = "firing" /\ data'[d].kind = data[d].kind /\ ~data'[d].hit
      /\ \A e \in Data \ {d} : data'[e] = data[e]
      /\ frame[data[d].co] = "awaiting" /\ frame'[data[d].co] = "running"
      /\ frame' \in [Coros -> FrameStates]
      /\ \A m \in Coros \ {data[d].co} : frame'[m] = frame[m]
  BY FiringFacts
<1>2. /\ Callback(d) \in Activation /\ a \in Activation
      /\ a.id = data[d].co /\ a.fn \in {"put", "run"}
      /\ a.fn = "put" => data[d].kind = "write"
  BY <1>1 DEF Callback, Put, Run, Activation
<1>3. /\ stack' \in Seq(Activation) /\ Indices' = {1, 2}
      /\ stack'[1] = Callback(d) /\ stack'[2] = a
  BY <1>2 DEF Indices
<1>4. Callback(d).fn = "callback" /\ Callback(d).id = d /\ d # data[d].co
  BY <1>1, ConstantsAssumption DEF Callback
<1>5. Indices = {}
  BY DEF Idle, Indices
<1>6. \A e \in Data : data[e].st # "firing"
  BY <1>5 DEF NoLeak
<1>7. TypeOK'
  BY <1>1, <1>3 DEF TypeOK
<1>8. FramesOnStack'
  BY <1>1, <1>2, <1>3, <1>4 DEF FramesOnStack
<1>9. CallersAndTasks'
  BY <1>1, ResumeCallers
<1>10. OneWaker'
  BY <1>1 DEF OneWaker
<1>11. UserDataAlive'
  BY <1>1, <1>2, <1>3, <1>4 DEF UserDataAlive, TypeOK
<1>12. NoLeak'
  BY <1>1, <1>3, <1>6 DEF NoLeak
<1>13. NestingBound'
  BY <1>2, <1>3, <1>4 DEF NestingBound
<1>14. NoReentry'
  BY <1>1, <1>6 DEF NoReentry
<1>15. Bookkeeping'
  BY <1>1, <1>2, <1>3, <1>4, <1>6 DEF Bookkeeping, TypeOK, Coros
<1>16. QED
  BY <1>7, <1>8, <1>9, <1>10, <1>11, <1>12, <1>13, <1>14, <1>15

LEMMA WriteCallbackInv == ASSUME Inv, NEW d \in Data, WriteCallback(d) PROVE Inv'
<1>1. d \in registered /\ data[d].kind = "write" /\ data[d].st = "armed"
  BY DEF Inv, WriteCallback, DueTimer, Bookkeeping
<1>2. readAt' \in -1 .. MaxTime
  BY DEF Inv, TypeOK, WriteCallback
<1>3. QED
  BY <1>1, <1>2, TimerInv DEF WriteCallback

LEMMA ReadCallbackInv == ASSUME Inv, NEW d \in Data, ReadCallback(d) PROVE Inv'
<1>1. d \in registered /\ data[d].kind = "read" /\ data[d].st = "armed"
  BY DEF Inv, ReadCallback, DueTimer, Bookkeeping
<1>2. readAt' \in -1 .. MaxTime
  BY ConstantsAssumption DEF Inv, TypeOK, ReadCallback
<1>3. QED
  BY <1>1, <1>2, TimerInv DEF ReadCallback

\* When the simulator is in control, the stack is empty, or it holds exactly
\* a write callback and the vpi_put_value below which nothing else can run.
LEMMA ControlFacts ==
  ASSUME Inv, SimulatorInControl
  PROVE  \/ Len(stack) = 0 /\ Indices = {} /\ stack = << >>
         \/ /\ Len(stack) = 2 /\ Indices = {1, 2}
            /\ stack[1].fn = "callback" /\ stack[1].id \in Data
            /\ data[stack[1].id].kind = "write"
            /\ stack[2].fn = "put" /\ stack[2].id \in Coros
<1> USE DEF Inv
<1>1. CASE Idle
  BY <1>1 DEF Idle, Indices
<1>2. ASSUME NEW c \in Coros, OnTop(Put(c))
      PROVE  /\ Len(stack) = 2 /\ Indices = {1, 2}
             /\ stack[1].fn = "callback" /\ stack[1].id \in Data
             /\ data[stack[1].id].kind = "write"
             /\ stack[2].fn = "put" /\ stack[2].id \in Coros
  <2>1. Len(stack) \in Indices /\ stack[Len(stack)] = Put(c)
    BY <1>2, TopFacts
  <2>2. Len(stack) = 2 /\ stack[1].fn = "callback"
    <3>1. stack[Len(stack)].fn = "put"
      BY <2>1 DEF Put
    <3>2. QED
      BY <2>1, <3>1 DEF NestingBound
  <2>3. Indices = {1, 2}
    BY <2>2 DEF Indices
  <2>4. QED
    BY <2>1, <2>2, <2>3, ActivationFacts DEF Bookkeeping, Put
<1>3. QED
  BY <1>1, <1>2 DEF SimulatorInControl

\* ... so no value-change callback is running at that moment.
LEMMA NoChangeRunning ==
  ASSUME Inv, SimulatorInControl, NEW d \in registered
  PROVE  data[d].st = "armed"
<1> USE DEF Inv
<1>1. SUFFICES ASSUME data[d].st = "firing", data[d].kind = "change" PROVE FALSE
  BY DEF Bookkeeping
<1>2. PICK i \in Indices : stack[i] = Callback(d)
  BY <1>1 DEF NoLeak, TypeOK
<1>3. stack[i].fn = "callback" /\ stack[i].id = d
  BY <1>2 DEF Callback
<1>4. QED
  BY <1>1, <1>2, <1>3, ControlFacts

LEMMA ChangeCallbackInv == ASSUME Inv, NEW d \in Data, ChangeCallback(d) PROVE Inv'
<1> USE DEF Inv
<1> DEFINE c == data[d].co
           n == Len(stack)
<1>1. /\ d \in registered /\ data[d].st = "armed" /\ data[d].kind = "change"
      /\ SimulatorInControl /\ Fire(d) /\ Resume(d)
      /\ stack' = Append(Append(stack, Callback(d)), Run(c))
      /\ UNCHANGED << phase, now, val, parent, group, registered, todo, readAt, work >>
  BY NoChangeRunning DEF ChangeCallback, Hits
<1>2. /\ c \in Coros
      /\ data' \in [Data -> Block]
      /\ data'[d].st = "firing" /\ data'[d].kind = "change" /\ ~data'[d].hit
      /\ \A e \in Data \ {d} : data'[e] = data[e]
      /\ frame[c] = "awaiting" /\ frame'[c] = "running"
      /\ frame' \in [Coros -> FrameStates]
      /\ \A m \in Coros \ {c} : frame'[m] = frame[m]
      /\ \A i \in Indices : stack[i].id # d /\ stack[i].id # c
  BY <1>1, FiringFacts
<1>3. /\ Callback(d) \in Activation /\ Run(c) \in Activation
      /\ Callback(d).fn = "callback" /\ Callback(d).id = d
      /\ Run(c).fn = "run" /\ Run(c).id = c /\ d # c
  BY <1>2, ConstantsAssumption DEF Callback, Run, Activation
<1> HIDE DEF c
<1>4. stack \in Seq(Activation) /\ n \in {0, 2}
  BY <1>1, ControlFacts DEF TypeOK
<1>5. /\ stack' \in Seq(Activation) /\ Len(stack') = n + 2
      /\ \A i \in Indices : stack'[i] = stack[i]
      /\ stack'[n + 1] = Callback(d) /\ stack'[n + 2] = Run(c)
  BY <1>1, <1>3, <1>4 DEF Indices
<1>6. Indices' = Indices \cup {n + 1, n + 2} /\ n + 1 \notin Indices /\ n + 2 \notin Indices
  BY <1>4, <1>5 DEF Indices
<1> HIDE DEF n
<1>7. TypeOK'
  BY <1>1, <1>2, <1>5 DEF TypeOK
<1>8. FramesOnStack'
  <2>1. \A i \in Indices : stack[i].fn # "callback" => stack[i].id \in Coros
    BY ActivationFacts
  <2>2. QED
    BY <1>2, <1>3, <1>5, <1>6, <2>1 DEF FramesOnStack
<1>9. CallersAndTasks'
  BY <1>1, <1>2, ResumeCallers
<1>10. OneWaker'
  BY <1>1, <1>2 DEF OneWaker, c
<1>11. UserDataAlive'
  <2>1. \A e \in registered' : data'[e].st # "free"
    BY <1>1, <1>2 DEF UserDataAlive, TypeOK
  <2>2. ASSUME NEW i \in Indices', stack'[i].fn = "callback"
        PROVE  data'[stack'[i].id].st = "firing"
    <3>1. CASE i \in Indices
      BY <1>2, <1>5, <2>2, <3>1, ActivationFacts DEF UserDataAlive
    <3>2. CASE i \notin Indices
      BY <1>2, <1>3, <1>5, <1>6, <2>2, <3>2
    <3>3. QED
      BY <3>1, <3>2
  <2>3. QED
    BY <1>8, <2>1, <2>2 DEF UserDataAlive, FramesOnStack
<1>12. NoLeak'
  BY <1>1, <1>2, <1>5, <1>6 DEF NoLeak
<1>13. NestingBound'
  BY <1>1, <1>3, <1>4, <1>5, <1>6, ControlFacts DEF NestingBound, n
<1>14. NoReentry'
  BY <1>2 DEF NoReentry
<1>15. Bookkeeping'
  <2>1. \A i \in Indices' : stack'[i].fn = "put" => data'[stack'[1].id].kind = "write"
    BY <1>1, <1>2, <1>3, <1>4, <1>5, <1>6, ControlFacts DEF n
  <2>2. QED
    BY <1>1, <1>2, <2>1 DEF Bookkeeping, TypeOK, Coros
<1>16. QED
  BY <1>7, <1>8, <1>9, <1>10, <1>11, <1>12, <1>13, <1>14, <1>15

-----------------------------------------------------------------------------
(* Steps that only mark or unmark hits.                                     *)

LEMMA HitsInv ==
  ASSUME Inv, data' \in [Data -> Block],
         \A e \in Data : /\ data'[e].st = data[e].st
                         /\ data'[e].kind = data[e].kind
                         /\ data'[e].co = data[e].co
                         /\ data'[e].hit => data[e].hit \/ data[e].st = "armed",
         val' \in [Nets -> Values], group' \in [Coros -> WriteGroups],
         work' \in 0 .. MaxWork,
         UNCHANGED << phase, now, stack, frame, parent, registered, todo, readAt >>
  PROVE  Inv'
<1> USE DEF Inv
<1>1. Indices' = Indices
  BY DEF Indices
<1>2. TypeOK'
  BY DEF TypeOK
<1>3. FramesOnStack' /\ CallersAndTasks' /\ NestingBound'
  BY <1>1 DEF FramesOnStack, CallersAndTasks, NestingBound, Live
<1>4. OneWaker' /\ NoLeak' /\ NoReentry'
  BY <1>1 DEF OneWaker, NoLeak, NoReentry
<1>5. \A i \in Indices : stack[i].fn = "callback" => stack[i].id \in Data
  BY ActivationFacts
<1>6. UserDataAlive'
  BY <1>1, <1>5 DEF UserDataAlive, TypeOK
<1>7. Bookkeeping'
  <2>1. \A i \in Indices : stack[i].fn = "put" => stack[1].id \in Data
    BY ActivationFacts DEF NestingBound, Indices
  <2>2. QED
    BY <1>1, <2>1 DEF Bookkeeping, TypeOK
<1>8. QED
  BY <1>2, <1>3, <1>4, <1>6, <1>7

LEMMA SetNetFacts ==
  ASSUME Inv, SimulatorInControl, NEW n \in Nets, NEW v \in Values, SetNet(n, v)
  PROVE  /\ val' \in [Nets -> Values]
         /\ data' \in [Data -> Block]
         /\ \A e \in Data : /\ data'[e].st = data[e].st
                            /\ data'[e].kind = data[e].kind
                            /\ data'[e].co = data[e].co
                            /\ data'[e].hit => data[e].hit \/ data[e].st = "armed"
<1> USE DEF Inv
<1>1. val' \in [Nets -> Values]
  BY DEF SetNet, TypeOK
<1>2. ASSUME NEW e \in Data
      PROVE  /\ [data[e] EXCEPT !.hit = TRUE] \in Block
             /\ [data[e] EXCEPT !.hit = TRUE].st = data[e].st
             /\ [data[e] EXCEPT !.hit = TRUE].kind = data[e].kind
             /\ [data[e] EXCEPT !.hit = TRUE].co = data[e].co
  BY DEF TypeOK, Block
<1>3. ASSUME NEW e \in Data
      PROVE  \/ data'[e] = data[e]
             \/ e \in registered /\ data'[e] = [data[e] EXCEPT !.hit = TRUE]
  BY DEF SetNet
<1>4. data' \in [Data -> Block]
  <2>1. data' = [e \in Data |-> data'[e]]
    BY DEF SetNet
  <2>2. \A e \in Data : data'[e] \in Block
    BY <1>2, <1>3 DEF TypeOK
  <2>3. QED
    BY <2>1, <2>2
<1>5. ASSUME NEW e \in Data
      PROVE  /\ data'[e].st = data[e].st
             /\ data'[e].kind = data[e].kind
             /\ data'[e].co = data[e].co
             /\ data'[e].hit => data[e].hit \/ data[e].st = "armed"
  BY <1>2, <1>3, NoChangeRunning
<1>6. QED
  BY <1>1, <1>4, <1>5

LEMMA KeepsInv ==
  ASSUME Inv, NEW d \in Data, ChangeCallbackTargetedKeeps(d) PROVE Inv'
<1> USE DEF Inv
<1>1. [data[d] EXCEPT !.hit = FALSE] \in Block
  BY DEF TypeOK, Block
<1>2. data' = [data EXCEPT ![d] = [data[d] EXCEPT !.hit = FALSE]]
  BY DEF ChangeCallbackTargetedKeeps
<1>3. /\ data' \in [Data -> Block]
      /\ \A e \in Data : /\ data'[e].st = data[e].st
                         /\ data'[e].kind = data[e].kind
                         /\ data'[e].co = data[e].co
                         /\ data'[e].hit => data[e].hit \/ data[e].st = "armed"
  BY <1>1, <1>2 DEF TypeOK, Block
<1>4. QED
  BY <1>3, HitsInv DEF ChangeCallbackTargetedKeeps, TypeOK

LEMMA PutValueInv ==
  ASSUME Inv, NEW c \in Coros, NEW n \in Nets, PutValue(c, n) PROVE Inv'
<1> USE DEF Inv
<1>1. group[c] \in WriteGroups /\ n \in DOMAIN group[c]
  BY DEF PutValue, TypeOK
<1>2. PICK S \in SUBSET Nets : group[c] \in [S -> WriteValues]
  BY <1>1 DEF WriteGroups
<1>3. group[c][n] \in Values
  BY <1>1, <1>2, ConstantsAssumption
<1>4. [m \in DOMAIN group[c] \ {n} |-> group[c][m]] \in WriteGroups
  <2>1. [m \in DOMAIN group[c] \ {n} |-> group[c][m]] \in [S \ {n} -> WriteValues]
    BY <1>2
  <2>2. S \ {n} \in SUBSET Nets
    OBVIOUS
  <2>3. QED
    BY <2>1, <2>2 DEF WriteGroups
<1>5. group' \in [Coros -> WriteGroups]
  BY <1>4 DEF PutValue, TypeOK
<1>6. SimulatorInControl
  BY DEF PutValue, SimulatorInControl
<1>7. QED
  BY <1>3, <1>5, <1>6, SetNetFacts, HitsInv DEF PutValue, TypeOK

LEMMA DutChangeInv ==
  ASSUME Inv, NEW n \in Nets, NEW v \in DutValues, DutChange(n, v) PROVE Inv'
<1> USE DEF Inv
<1>1. v \in Values
  BY ConstantsAssumption
<1>2. SimulatorInControl
  BY DEF DutChange, SimulatorInControl
<1>3. work' \in 0 .. MaxWork
  BY ConstantsAssumption DEF DutChange, Spend, TypeOK
<1>4. QED
  BY <1>1, <1>2, <1>3, SetNetFacts, HitsInv DEF DutChange, TypeOK

-----------------------------------------------------------------------------
(* A targeted change callback frees its block before it resumes.            *)

LEMMA FiresInv ==
  ASSUME Inv, NEW d \in Data, ChangeCallbackTargetedFires(d) PROVE Inv'
<1> USE DEF Inv
<1> DEFINE c == data[d].co
           n == Len(stack)
<1>1. /\ d \in registered /\ data[d].st = "armed"
      /\ SimulatorInControl /\ Resume(d)
      /\ data' = [data EXCEPT ![d] = Freed] /\ registered' = registered \ {d}
      /\ stack' = Append(stack, Run(c))
      /\ UNCHANGED << phase, now, val, parent, group, todo, readAt, work >>
  BY NoChangeRunning DEF ChangeCallbackTargetedFires, Hits
<1>2. /\ c \in Coros /\ frame[c] = "awaiting"
      /\ frame'[c] = "running" /\ frame' \in [Coros -> FrameStates]
      /\ \A m \in Coros \ {c} : frame'[m] = frame[m]
  BY <1>1 DEF OneWaker, Resume, TypeOK, FrameStates
<1>3. /\ Freed \in Block /\ Freed.st = "free" /\ ~Freed.hit
      /\ data' \in [Data -> Block] /\ data'[d] = Freed
      /\ \A e \in Data \ {d} : data'[e] = data[e]
  BY <1>1, ConstantsAssumption DEF TypeOK, Freed, Block
<1>4. \A i \in Indices : /\ stack[i].id # c /\ stack[i].id # d
                         /\ stack[i].fn = "callback" => stack[i].id \in Data
                         /\ stack[i].fn # "callback" => stack[i].id \in Coros
  BY <1>1, <1>2, ActivationFacts DEF FramesOnStack, UserDataAlive
<1>5. Run(c) \in Activation /\ Run(c).fn = "run" /\ Run(c).id = c
  BY <1>2 DEF Run, Activation
<1> HIDE DEF c
<1>6. stack \in Seq(Activation) /\ n \in {0, 2}
  BY <1>1, ControlFacts DEF TypeOK
<1>7. /\ stack' \in Seq(Activation)
      /\ \A i \in Indices : stack'[i] = stack[i]
      /\ stack'[n + 1] = Run(c)
      /\ Indices' = Indices \cup {n + 1} /\ n + 1 \notin Indices
  BY <1>1, <1>5, <1>6, PushFacts DEF Indices
<1> HIDE DEF n
<1>8. TypeOK'
  BY <1>1, <1>2, <1>3, <1>7 DEF TypeOK
<1>9. FramesOnStack'
  BY <1>2, <1>4, <1>5, <1>7 DEF FramesOnStack
<1>10. CallersAndTasks'
  BY <1>1, <1>2, ResumeCallers
<1>11. OneWaker'
  BY <1>1, <1>2, <1>3 DEF OneWaker, c
<1>12. UserDataAlive'
  <2>1. \A e \in registered' : data'[e].st # "free"
    BY <1>1, <1>3 DEF UserDataAlive, TypeOK
  <2>2. ASSUME NEW i \in Indices', stack'[i].fn = "callback"
        PROVE  data'[stack'[i].id].st = "firing"
    BY <1>3, <1>4, <1>5, <1>7, <2>2 DEF UserDataAlive
  <2>3. QED
    BY <1>9, <2>1, <2>2 DEF UserDataAlive, FramesOnStack
<1>13. NoLeak'
  BY <1>1, <1>3, <1>7 DEF NoLeak
<1>14. NestingBound'
  BY <1>5, <1>6, <1>7 DEF NestingBound, n, Indices
<1>15. NoReentry'
  BY <1>3 DEF NoReentry
<1>16. Bookkeeping'
  <2>1. ASSUME NEW i \in Indices', stack'[i].fn = "put"
        PROVE  data'[stack'[1].id].kind = "write"
    <3>1. i \in Indices /\ stack[i].fn = "put" /\ i = 2 /\ stack[1].fn = "callback"
      BY <1>5, <1>7, <2>1 DEF NestingBound
    <3>2. 1 \in Indices
      BY <3>1 DEF Indices
    <3>3. QED
      BY <1>3, <1>4, <1>7, <3>1, <3>2 DEF Bookkeeping
  <2>2. QED
    BY <1>1, <1>2, <1>3, <2>1 DEF Bookkeeping, TypeOK, Coros
<1>17. QED
  BY <1>8, <1>9, <1>10, <1>11, <1>12, <1>13, <1>14, <1>15, <1>16

-----------------------------------------------------------------------------
(* Returns: the top of the stack goes away.                                 *)

\* What a pop leaves of the stack.
LEMMA PoppedFacts ==
  ASSUME Inv, NEW a, OnTop(a), stack' = Pop
  PROVE  /\ stack' \in Seq(Activation)
         /\ Indices' = Indices \ {Len(stack)}
         /\ \A i \in Indices' : stack'[i] = stack[i] /\ stack[i].id # a.id
         /\ \A i \in Indices : i # Len(stack) => i \in Indices'
         /\ Len(stack) \in Indices /\ stack[Len(stack)] = a
         /\ \A i \in Indices' : stack[i].fn = "put" => 1 \in Indices'
         /\ NestingBound'
<1>1. /\ stack # << >> /\ Len(stack) \in Nat \ {0}
      /\ stack \in Seq(Activation)
      /\ Len(stack) \in Indices
      /\ stack[Len(stack)] = a
  BY TopFacts DEF Inv
<1>2. /\ stack' \in Seq(Activation)
      /\ Len(stack') = Len(stack) - 1
      /\ \A i \in 1 .. Len(stack) - 1 : stack'[i] = stack[i]
  BY <1>1, PopFacts DEF Pop
<1>3. Indices' = Indices \ {Len(stack)}
  BY <1>1, <1>2 DEF Indices
<1>4. \A i \in Indices' : stack'[i] = stack[i] /\ stack[i].id # a.id
  BY <1>1, <1>2, <1>3 DEF Indices, Inv, FramesOnStack
<1>5. \A i \in Indices' : stack[i].fn = "put" => 1 \in Indices'
  BY <1>1, <1>2, <1>3 DEF Indices, Inv, NestingBound
<1>6. NestingBound'
  BY <1>1, <1>2, <1>3 DEF Indices, Inv, NestingBound
<1>7. QED
  BY <1>1, <1>2, <1>3, <1>4, <1>5, <1>6

LEMMA CallbackReturnsInv == ASSUME Inv, CallbackReturns PROVE Inv'
<1> USE DEF Inv
<1> DEFINE a == stack[Len(stack)]
           d == a.id
<1>1. OnTop(a) /\ a.fn = "callback"
  BY DEF CallbackReturns, OnTop, Top
<1>2. /\ stack' = Pop /\ registered' = registered \ {d}
      /\ data' = [data EXCEPT ![d] = Freed]
      /\ UNCHANGED << phase, now, val, frame, parent, group, todo, readAt, work >>
  BY DEF CallbackReturns, Top
<1>3. /\ stack' \in Seq(Activation)
      /\ Indices' = Indices \ {Len(stack)}
      /\ \A i \in Indices' : stack'[i] = stack[i] /\ stack[i].id # d
      /\ \A i \in Indices : i # Len(stack) => i \in Indices'
      /\ Len(stack) \in Indices
      /\ \A i \in Indices' : stack[i].fn = "put" => 1 \in Indices'
  BY <1>1, <1>2, PoppedFacts
<1>4. d \in Data /\ data[d].st = "firing"
  BY <1>1, <1>3, ActivationFacts DEF UserDataAlive
<1>5. \A i \in Indices : stack[i].fn = "callback" => stack[i].id \in Data
  BY ActivationFacts
<1>6. \A i \in Indices : stack[i] = Callback(d) => i = Len(stack)
  BY <1>3 DEF FramesOnStack, Callback
<1> HIDE DEF d, a
<1>7. /\ Freed \in Block /\ Freed.st = "free" /\ ~Freed.hit
      /\ data' \in [Data -> Block] /\ data'[d] = Freed
      /\ \A e \in Data \ {d} : data'[e] = data[e]
  BY <1>2, <1>4, ConstantsAssumption DEF TypeOK, Freed, Block
<1>8. TypeOK'
  BY <1>2, <1>3, <1>7 DEF TypeOK
<1>9. FramesOnStack' /\ NestingBound'
  BY <1>1, <1>2, <1>3, PoppedFacts DEF FramesOnStack
<1>10. CallersAndTasks'
  BY <1>2 DEF CallersAndTasks, Live
<1>11. OneWaker'
  BY <1>2, <1>4, <1>7 DEF OneWaker
<1>12. UserDataAlive'
  BY <1>2, <1>3, <1>5, <1>7 DEF UserDataAlive, TypeOK
<1>13. NoLeak'
  <2> SUFFICES ASSUME NEW e \in Data
               PROVE  /\ data'[e].st = "armed" => e \in registered'
                      /\ data'[e].st = "firing" => \E i \in Indices' : stack'[i] = Callback(e)
    BY DEF NoLeak
  <2>1. CASE e = d
    BY <1>7, <2>1
  <2>2. CASE e # d
    <3>1. data'[e] = data[e] /\ (data[e].st = "armed" => e \in registered')
      BY <1>2, <1>7, <2>2 DEF NoLeak
    <3>2. ASSUME data[e].st = "firing"
          PROVE  \E i \in Indices' : stack'[i] = Callback(e)
      <4>1. PICK i \in Indices : stack[i] = Callback(e)
        BY <3>2 DEF NoLeak
      <4>2. i # Len(stack)
        BY <1>3, <2>2, <4>1 DEF Callback, d, a
      <4>3. QED
        BY <1>3, <4>1, <4>2
    <3>3. QED
      BY <3>1, <3>2
  <2>3. QED
    BY <2>1, <2>2
<1>14. NoReentry'
  BY <1>7 DEF NoReentry
<1>15. Bookkeeping'
  <2>1. ASSUME NEW i \in Indices', stack'[i].fn = "put"
        PROVE  data'[stack'[1].id].kind = "write"
    <3>1. i \in Indices /\ stack[i].fn = "put" /\ 1 \in Indices' /\ 1 \in Indices
      BY <1>3, <2>1
    <3>2. stack[1].fn = "callback" /\ stack[1].id \in Data /\ stack'[1].id = stack[1].id
          /\ stack[1].id # d
      BY <1>3, <1>5, <3>1 DEF NestingBound
    <3>3. QED
      BY <1>7, <3>1, <3>2 DEF Bookkeeping
  <2>2. QED
    BY <1>2, <1>7, <2>1 DEF Bookkeeping, TypeOK
<1>16. QED
  BY <1>8, <1>9, <1>10, <1>11, <1>12, <1>13, <1>14, <1>15

\* A coroutine activation leaves the stack and its frame goes (TestReturns,
\* TaskDestroyed).
LEMMA FramePoppedInv ==
  ASSUME Inv, NEW c \in Coros, NEW a, OnTop(a), a.id = c, a.fn # "callback",
         stack' = Pop, frame' = [frame EXCEPT ![c] = "none"],
         c \in Tests \/ frame[c] = "final",
         frame[c] \in {"running", "final"},
         \/ parent' = parent
         \/ parent' = [parent EXCEPT ![c] = None],
         UNCHANGED << phase, now, val, group, data, registered, todo, readAt, work >>
  PROVE  Inv'
<1> USE DEF Inv
<1>1. /\ stack' \in Seq(Activation)
      /\ Indices' = Indices \ {Len(stack)}
      /\ \A i \in Indices' : stack'[i] = stack[i] /\ stack[i].id # c
      /\ \A i \in Indices : i # Len(stack) => i \in Indices'
      /\ Len(stack) \in Indices /\ stack[Len(stack)] = a
      /\ \A i \in Indices' : stack[i].fn = "put" => 1 \in Indices'
      /\ NestingBound'
  BY PoppedFacts
<1>2. /\ frame'[c] = "none" /\ frame' \in [Coros -> FrameStates]
      /\ \A m \in Coros \ {c} : frame'[m] = frame[m]
  BY DEF TypeOK, FrameStates
<1>3. /\ parent' \in [Coros -> Coros \cup {None}]
      /\ \A m \in Coros \ {c} : parent'[m] = parent[m]
  BY DEF TypeOK
<1>4. TypeOK'
  BY <1>1, <1>2, <1>3 DEF TypeOK
<1>5. FramesOnStack'
  <2>1. \A i \in Indices : stack[i].fn # "callback" => stack[i].id \in Coros
    BY ActivationFacts
  <2>2. QED
    BY <1>1, <1>2, <2>1 DEF FramesOnStack
<1>6. CallersAndTasks'
  <2>1. ASSUME NEW k \in Tasks, Live(k)'
        PROVE  /\ parent'[k] \in Coros
               /\ frame'[parent'[k]] = "calling"
               /\ \A m \in Tasks : Live(m)' /\ parent'[m] = parent'[k] => m = k
    BY <1>2, <1>3, <2>1 DEF CallersAndTasks, Live, Coros
  <2>2. ASSUME NEW m \in Coros, frame'[m] = "calling"
        PROVE  \E k \in Tasks : Live(k)' /\ parent'[k] = m
    <3>1. frame[m] = "calling"
      BY <1>2, <2>2
    <3>2. PICK k \in Tasks : Live(k) /\ parent[k] = m
      BY <3>1 DEF CallersAndTasks
    <3>3. k # c
      BY <3>2, ConstantsAssumption DEF Live
    <3>4. QED
      BY <1>2, <1>3, <3>2, <3>3 DEF Live, Coros
  <2>3. QED
    BY <2>1, <2>2 DEF CallersAndTasks
<1>7. OneWaker'
  BY <1>2 DEF OneWaker
<1>8. \A i \in Indices : stack[i].fn = "callback" => stack[i].id \in Data
  BY ActivationFacts
<1>9. UserDataAlive'
  BY <1>1, <1>8 DEF UserDataAlive
<1>10. NoLeak'
  <2>1. ASSUME NEW d \in Data, data[d].st = "firing"
        PROVE  \E i \in Indices' : stack'[i] = Callback(d)
    <3>1. PICK i \in Indices : stack[i] = Callback(d)
      BY <2>1 DEF NoLeak
    <3>2. i # Len(stack)
      BY <1>1, <3>1 DEF Callback
    <3>3. QED
      BY <1>1, <3>1, <3>2
  <2>2. QED
    BY <2>1 DEF NoLeak
<1>11. NoReentry' /\ Bookkeeping'
  <2>1. ASSUME NEW i \in Indices', stack'[i].fn = "put"
        PROVE  data'[stack'[1].id].kind = "write"
    <3>1. i \in Indices /\ stack[i].fn = "put" /\ stack'[1] = stack[1]
      BY <1>1, <2>1
    <3>2. QED
      BY <3>1 DEF Bookkeeping
  <2>2. \A t \in todo' : frame'[t] = "none"
    BY <1>2 DEF Bookkeeping, TypeOK, Coros
  <2>3. QED
    BY <2>1, <2>2 DEF NoReentry, Bookkeeping
<1>12. QED
  BY <1>1, <1>4, <1>5, <1>6, <1>7, <1>9, <1>10, <1>11

LEMMA TestReturnsInv == ASSUME Inv, NEW t \in Coros, TestReturns(t) PROVE Inv'
<1>1. Run(t).id = t /\ Run(t).fn = "run"
  BY DEF Run
<1>2. frame[t] = "running"
  BY <1>1, TopFacts DEF TestReturns, Inv, FramesOnStack
<1>3. QED
  BY <1>1, <1>2, FramePoppedInv DEF TestReturns

LEMMA TaskDestroyedInv == ASSUME Inv, NEW k \in Coros, TaskDestroyed(k) PROVE Inv'
<1>1. Final(k).id = k /\ Final(k).fn = "final"
  BY DEF Final
<1>2. frame[k] = "final"
  BY <1>1, TopFacts DEF TaskDestroyed, Inv, FramesOnStack
<1>3. QED
  BY <1>1, <1>2, FramePoppedInv DEF TaskDestroyed

-----------------------------------------------------------------------------
(* The top of the stack is replaced.                                        *)

LEMMA ReplacedFacts ==
  ASSUME Inv, NEW a, OnTop(a), NEW b \in Activation, stack' = ReplaceTop(b),
         a.fn # "callback", b.fn \notin {"callback", "put"}
  PROVE  /\ stack' \in Seq(Activation)
         /\ Indices' = Indices
         /\ \A i \in Indices : i # Len(stack) => stack'[i] = stack[i] /\ stack[i].id # a.id
         /\ Len(stack) \in Indices /\ stack[Len(stack)] = a /\ stack'[Len(stack)] = b
         /\ stack # << >> /\ Len(stack') = Len(stack)
         /\ NestingBound'
         /\ \A i \in Indices : stack'[i].fn = "put" => stack[i].fn = "put" /\ stack'[1] = stack[1]
<1>1. /\ stack # << >> /\ Len(stack) \in Nat \ {0}
      /\ stack \in Seq(Activation)
      /\ Len(stack) \in Indices
      /\ stack[Len(stack)] = a
  BY TopFacts DEF Inv
<1>2. /\ stack' \in Seq(Activation)
      /\ Len(stack') = Len(stack)
      /\ \A i \in 1 .. Len(stack) - 1 : stack'[i] = stack[i]
      /\ stack'[Len(stack)] = b
  BY <1>1, ReplaceFacts DEF ReplaceTop
<1>3. \A i \in Indices : i # Len(stack) => stack'[i] = stack[i] /\ stack[i].id # a.id
  BY <1>1, <1>2 DEF Indices, Inv, FramesOnStack
<1>4. Indices' = Indices
  BY <1>2 DEF Indices
<1>5. ASSUME NEW i \in Indices, stack'[i].fn = "put"
      PROVE  i = 2 /\ stack[i].fn = "put" /\ stack'[1] = stack[1] /\ stack[1].fn = "callback"
  <2>1. i # Len(stack) /\ stack[i].fn = "put"
    BY <1>2, <1>3, <1>5
  <2>2. i = 2 /\ stack[1].fn = "callback"
    BY <2>1 DEF Inv, NestingBound
  <2>3. 1 \in Indices /\ 1 # Len(stack)
    BY <1>1, <2>1, <2>2 DEF Indices
  <2>4. QED
    BY <1>3, <2>1, <2>2, <2>3
<1>6. ASSUME NEW i \in Indices, stack'[i].fn = "callback"
      PROVE  i = 1 \/ (i = 3 /\ stack'[2].fn = "put")
  <2>1. i # Len(stack) /\ stack[i].fn = "callback"
    BY <1>2, <1>3, <1>6
  <2>2. i = 1 \/ (i = 3 /\ stack[2].fn = "put")
    BY <2>1 DEF Inv, NestingBound
  <2>3. i = 3 => 2 \in Indices /\ 2 # Len(stack)
    BY <1>1 DEF Indices
  <2>4. QED
    BY <1>3, <2>2, <2>3
<1>7. NestingBound'
  BY <1>4, <1>5, <1>6 DEF NestingBound
<1>8. QED
  BY <1>1, <1>2, <1>3, <1>4, <1>5, <1>7

LEMMA PutsDoneInv == ASSUME Inv, NEW c \in Coros, PutsDone(c) PROVE Inv'
<1> USE DEF Inv
<1>1. /\ Run(c) \in Activation /\ Run(c).fn = "run" /\ Run(c).id = c
      /\ Put(c).fn = "put" /\ Put(c).id = c
  BY DEF Run, Put, Activation
<1>2. /\ stack' \in Seq(Activation) /\ Indices' = Indices
      /\ \A i \in Indices : i # Len(stack) => stack'[i] = stack[i] /\ stack[i].id # c
      /\ Len(stack) \in Indices /\ stack[Len(stack)] = Put(c) /\ stack'[Len(stack)] = Run(c)
      /\ NestingBound'
      /\ \A i \in Indices : stack'[i].fn = "put" => stack[i].fn = "put" /\ stack'[1] = stack[1]
  BY <1>1, ReplacedFacts DEF PutsDone
<1>3. UNCHANGED << phase, now, val, frame, parent, group, data, registered,
                   todo, readAt, work >>
  BY DEF PutsDone
<1>5. TypeOK'
  BY <1>2, <1>3 DEF TypeOK
<1>6. FramesOnStack'
  BY <1>1, <1>2, <1>3 DEF FramesOnStack
<1>7. CallersAndTasks' /\ OneWaker' /\ NoReentry'
  BY <1>3 DEF CallersAndTasks, OneWaker, NoReentry, Live
<1>8. UserDataAlive'
  BY <1>1, <1>2, <1>3 DEF UserDataAlive
<1>9. NoLeak'
  BY <1>1, <1>2, <1>3 DEF NoLeak, Callback
<1>10. Bookkeeping'
  BY <1>2, <1>3 DEF Bookkeeping
<1>11. QED
  BY <1>2, <1>5, <1>6, <1>7, <1>8, <1>9, <1>10

LEMMA CallTaskInv ==
  ASSUME Inv, NEW c \in Coros, NEW k \in Tasks, CallTask(c, k) PROVE Inv'
<1> USE DEF Inv
<1>1. /\ Run(c).fn = "run" /\ Run(c).id = c /\ k \in Coros
      /\ Run(k) \in Activation /\ Run(k).fn = "run" /\ Run(k).id = k
  BY DEF Run, Activation, Coros
<1>2. /\ stack' \in Seq(Activation) /\ Indices' = Indices
      /\ \A i \in Indices : i # Len(stack) => stack'[i] = stack[i] /\ stack[i].id # c
      /\ Len(stack) \in Indices /\ stack[Len(stack)] = Run(c) /\ stack'[Len(stack)] = Run(k)
      /\ Len(stack') = Len(stack) /\ NestingBound'
      /\ \A i \in Indices : stack'[i].fn = "put" => stack[i].fn = "put" /\ stack'[1] = stack[1]
  BY <1>1, ReplacedFacts DEF CallTask
<1>3. /\ UNCHANGED << phase, now, val, group, data, registered, todo, readAt >>
      /\ frame[k] = "none" /\ frame[c] = "running"
  BY <1>1, <1>2 DEF CallTask, FramesOnStack
<1>4. /\ frame'[c] = "calling" /\ frame'[k] = "running"
      /\ frame' \in [Coros -> FrameStates]
      /\ \A m \in Coros \ {c, k} : frame'[m] = frame[m]
      /\ parent'[k] = c /\ parent' \in [Coros -> Coros \cup {None}]
      /\ \A m \in Coros \ {k} : parent'[m] = parent[m]
  BY <1>1, <1>3 DEF CallTask, TypeOK, FrameStates
<1>5. work' \in 0 .. MaxWork
  BY ConstantsAssumption DEF CallTask, Spend, TypeOK
<1>6. \A i \in Indices : /\ stack[i].fn # "callback" => stack[i].id \in Coros /\ stack[i].id # k
                         /\ stack[i].fn = "callback" => stack[i].id \in Data /\ stack[i].id # k
  BY <1>1, <1>3, ActivationFacts DEF FramesOnStack
<1>7. TypeOK'
  BY <1>2, <1>3, <1>4, <1>5 DEF TypeOK
<1>8. FramesOnStack'
  BY <1>1, <1>2, <1>4, <1>6 DEF FramesOnStack
<1>9. CallersAndTasks'
  <2>1. ASSUME NEW m \in Tasks, Live(m)'
        PROVE  /\ parent'[m] \in Coros
               /\ frame'[parent'[m]] = "calling"
               /\ \A l \in Tasks : Live(l)' /\ parent'[l] = parent'[m] => l = m
    <3>1. CASE m = k
      BY <1>1, <1>3, <1>4, <3>1 DEF CallersAndTasks, Live, Coros
    <3>2. CASE m # k
      BY <1>1, <1>3, <1>4, <2>1, <3>2 DEF CallersAndTasks, Live, Coros
    <3>3. QED
      BY <3>1, <3>2
  <2>2. ASSUME NEW m \in Coros, frame'[m] = "calling"
        PROVE  \E l \in Tasks : Live(l)' /\ parent'[l] = m
    <3>1. CASE m = c
      BY <1>4, <3>1 DEF Live
    <3>2. CASE m # c
      <4>1. frame[m] = "calling"
        BY <1>4, <2>2, <3>2
      <4>2. PICK l \in Tasks : Live(l) /\ parent[l] = m
        BY <4>1 DEF CallersAndTasks
      <4>3. l # k
        BY <1>3, <4>2 DEF Live
      <4>4. QED
        BY <1>4, <4>2, <4>3 DEF Live, Coros
    <3>3. QED
      BY <3>1, <3>2
  <2>3. QED
    BY <2>1, <2>2 DEF CallersAndTasks
<1>10. OneWaker' /\ NoReentry'
  BY <1>3, <1>4 DEF OneWaker, NoReentry
<1>11. UserDataAlive'
  BY <1>1, <1>2, <1>3 DEF UserDataAlive
<1>12. NoLeak'
  BY <1>1, <1>2, <1>3 DEF NoLeak, Callback
<1>14. Bookkeeping'
  <2>1. \A i \in Indices' : stack'[i].fn = "put" => data'[stack'[1].id].kind = "write"
    BY <1>2, <1>3 DEF Bookkeeping
  <2>2. \A t \in todo' : frame'[t] = "none"
    BY <1>3, <1>4, ConstantsAssumption DEF Bookkeeping, TypeOK, Coros
  <2>3. QED
    BY <1>3, <2>1, <2>2 DEF Bookkeeping
<1>15. QED
  BY <1>2, <1>7, <1>8, <1>9, <1>10, <1>11, <1>12, <1>14

LEMMA TaskReturnsInv == ASSUME Inv, NEW k \in Coros, TaskReturns(k) PROVE Inv'
<1> USE DEF Inv
<1> DEFINE p == parent[k]
           n == Len(stack)
<1>1. /\ k \in Tasks /\ k \in Coros
      /\ Run(k).fn = "run" /\ Run(k).id = k
      /\ Final(k) \in Activation /\ Final(k).fn = "final" /\ Final(k).id = k
  BY DEF Run, Final, Activation, Coros, TaskReturns
<1>2. stack # << >> /\ n \in Nat \ {0} /\ n \in Indices /\ stack[n] = Run(k)
      /\ stack \in Seq(Activation)
  BY TopFacts DEF TaskReturns
<1>3. frame[k] = "running"
  BY <1>1, <1>2 DEF FramesOnStack
<1>4. p \in Coros /\ frame[p] = "calling" /\ p # k
  BY <1>1, <1>3 DEF CallersAndTasks, Live
<1>5. Run(p) \in Activation /\ Run(p).fn = "run" /\ Run(p).id = p
  BY <1>4 DEF Run, Activation
<1>6. /\ UNCHANGED << phase, now, val, parent, group, data, registered, todo, readAt, work >>
      /\ frame' = [frame EXCEPT ![k] = "final", ![p] = "running"]
      /\ stack' = Append(ReplaceTop(Final(k)), Run(p))
  BY DEF TaskReturns
<1>7. /\ frame'[k] = "final" /\ frame'[p] = "running"
      /\ frame' \in [Coros -> FrameStates]
      /\ \A m \in Coros \ {k, p} : frame'[m] = frame[m]
  BY <1>1, <1>4, <1>6 DEF TypeOK, FrameStates
<1>8. /\ stack' \in Seq(Activation) /\ Len(stack') = n + 1
      /\ \A i \in 1 .. n - 1 : stack'[i] = stack[i]
      /\ stack'[n] = Final(k) /\ stack'[n + 1] = Run(p)
  <2>1. /\ ReplaceTop(Final(k)) \in Seq(Activation) /\ Len(ReplaceTop(Final(k))) = n
        /\ \A i \in 1 .. n - 1 : ReplaceTop(Final(k))[i] = stack[i]
        /\ ReplaceTop(Final(k))[n] = Final(k)
    BY <1>1, <1>2, ReplaceFacts DEF ReplaceTop
  <2>2. QED
    BY <1>2, <1>5, <1>6, <2>1, PushFacts
<1>9. \A i \in Indices : /\ i # n => stack[i].id # k
                         /\ stack[i].id # p
                         /\ stack[i].fn = "callback" => stack[i].id \in Data /\ i # n
                         /\ stack[i].fn # "callback" => stack[i].id \in Coros
  BY <1>1, <1>2, <1>3, <1>4, ActivationFacts, ConstantsAssumption DEF FramesOnStack
<1> HIDE DEF p, n
<1>10. /\ \A i \in Indices' : i \in Indices \/ i = n + 1
       /\ \A i \in Indices : i \in Indices' /\ n + 1 \notin Indices /\ n + 1 \in Indices'
       /\ \A i \in Indices : i # n => stack'[i] = stack[i]
  BY <1>2, <1>8 DEF Indices, n
<1> DEFINE Same(i) == /\ i \in Indices \ {n} /\ stack'[i] = stack[i]
                      /\ stack[i].id # k /\ stack[i].id # p
<1>10b. \A i \in Indices' : \/ i = n + 1 /\ stack'[i] = Run(p)
                            \/ i = n /\ stack'[i] = Final(k)
                            \/ Same(i)
  <2>1. ASSUME NEW i \in Indices, i # n PROVE Same(i)
    BY <1>9, <1>10, <2>1
  <2>2. QED
    BY <1>8, <1>10, <2>1
<1>11. TypeOK'
  BY <1>6, <1>7, <1>8 DEF TypeOK
<1>12. FramesOnStack'
  <2>1. \A i \in Indices' : /\ stack'[i].fn \in {"put", "run"} => frame'[stack'[i].id] = "running"
                            /\ stack'[i].fn = "final" => frame'[stack'[i].id] = "final"
    BY <1>1, <1>5, <1>7, <1>9, <1>10b DEF FramesOnStack
  <2>2. ASSUME NEW i \in Indices', NEW j \in Indices', stack'[j].id = stack'[i].id
        PROVE  j = i
    <3>1. CASE Same(i) /\ Same(j)
      BY <2>2, <3>1 DEF FramesOnStack
    <3>2. CASE ~(Same(i) /\ Same(j))
      BY <1>1, <1>4, <1>5, <1>10b, <2>2, <3>2
    <3>3. QED
      BY <3>1, <3>2
  <2>3. QED
    BY <2>1, <2>2 DEF FramesOnStack
<1>13. CallersAndTasks'
  <2>1. ASSUME NEW m \in Tasks, Live(m)'
        PROVE  /\ parent'[m] \in Coros
               /\ frame'[parent'[m]] = "calling"
               /\ \A l \in Tasks : Live(l)' /\ parent'[l] = parent'[m] => l = m
    <3>1. \A l \in Tasks : Live(l)' => Live(l) /\ l # k
      BY <1>4, <1>7 DEF Live, Coros
    <3>2. Live(k) /\ Live(m) /\ m # k
      BY <1>3, <2>1, <3>1 DEF Live
    <3>3. parent[m] \in Coros /\ parent[m] # p /\ parent[m] # k /\ frame[parent[m]] = "calling"
      BY <1>1, <1>3, <3>2 DEF CallersAndTasks, p
    <3>4. QED
      BY <1>6, <1>7, <3>1, <3>2, <3>3 DEF CallersAndTasks
  <2>2. ASSUME NEW m \in Coros, frame'[m] = "calling"
        PROVE  \E l \in Tasks : Live(l)' /\ parent'[l] = m
    <3>1. frame[m] = "calling" /\ m # p
      BY <1>7, <2>2
    <3>2. PICK l \in Tasks : Live(l) /\ parent[l] = m
      BY <3>1 DEF CallersAndTasks
    <3>3. l # k
      BY <3>1, <3>2 DEF p
    <3>4. QED
      BY <1>6, <1>7, <3>2, <3>3 DEF Live, Coros
  <2>3. QED
    BY <2>1, <2>2 DEF CallersAndTasks
<1>14. OneWaker' /\ NoReentry'
  BY <1>3, <1>4, <1>6, <1>7 DEF OneWaker, NoReentry
<1>15. UserDataAlive'
  <2>1. \A i \in Indices' : stack'[i].fn = "callback" => Same(i)
    BY <1>1, <1>5, <1>10b
  <2>2. \A i \in Indices' : stack'[i].fn = "callback" => data'[stack'[i].id].st = "firing"
    BY <1>6, <2>1 DEF UserDataAlive
  <2>3. \A d \in registered' : data'[d].st # "free"
    BY <1>6 DEF UserDataAlive
  <2>4. QED
    BY <1>12, <2>2, <2>3 DEF UserDataAlive, FramesOnStack
<1>16. NoLeak'
  <2>1. ASSUME NEW d \in Data, data[d].st = "firing"
        PROVE  \E i \in Indices' : stack'[i] = Callback(d)
    <3>1. PICK i \in Indices : stack[i] = Callback(d)
      BY <2>1 DEF NoLeak
    <3>2. i # n
      BY <1>9, <3>1 DEF Callback
    <3>3. QED
      BY <1>10, <3>1, <3>2
  <2>2. QED
    BY <1>6, <2>1 DEF NoLeak
<1>17. \A i \in Indices' : stack'[i].fn \in {"put", "callback"} =>
         i \in Indices /\ i # n /\ stack'[i] = stack[i]
  BY <1>1, <1>5, <1>8, <1>10
<1>18. \A i \in Indices' : stack'[i].fn = "put" =>
         i = 2 /\ stack'[1] = stack[1] /\ stack[1].fn = "callback" /\ stack[i].fn = "put"
  <2>1. ASSUME NEW i \in Indices', stack'[i].fn = "put"
        PROVE  i = 2 /\ stack'[1] = stack[1] /\ stack[1].fn = "callback" /\ stack[i].fn = "put"
    <3>1. i \in Indices /\ stack[i].fn = "put" /\ i = 2 /\ stack[1].fn = "callback"
      BY <1>17, <2>1 DEF NestingBound
    <3>2. 1 \in Indices /\ 1 # n
      BY <1>9, <3>1 DEF Indices
    <3>3. QED
      BY <1>10, <3>1, <3>2
  <2>2. QED
    BY <2>1
<1>19. NestingBound'
  <2>1. ASSUME NEW i \in Indices', stack'[i].fn = "callback"
        PROVE  i = 1 \/ (i = 3 /\ stack'[2].fn = "put")
    <3>1. i \in Indices /\ (i = 1 \/ (i = 3 /\ stack[2].fn = "put"))
      BY <1>17, <2>1 DEF NestingBound
    <3>2. i = 3 => 2 \in Indices /\ 2 # n
      BY <1>1, <1>2, <1>17, <2>1, <3>1 DEF Indices, Run
    <3>3. QED
      BY <1>10, <3>1, <3>2
  <2>2. QED
    BY <1>18, <2>1 DEF NestingBound
<1>20. Bookkeeping'
  <2>1. \A i \in Indices' : stack'[i].fn = "put" => data'[stack'[1].id].kind = "write"
    BY <1>6, <1>17, <1>18 DEF Bookkeeping
  <2>2. \A t \in todo' : frame'[t] = "none"
    BY <1>3, <1>4, <1>6, <1>7 DEF Bookkeeping, TypeOK, Coros
  <2>3. QED
    BY <1>6, <2>1, <2>2 DEF Bookkeeping
<1>21. QED
  BY <1>11, <1>12, <1>13, <1>14, <1>15, <1>16, <1>19, <1>20

-----------------------------------------------------------------------------
(* The start of a test, and the steps of the simulator.                     *)

LEMMA StartTestInv == ASSUME Inv, NEW t \in Tests, StartTest(t) PROVE Inv'
<1> USE DEF Inv
<1>1. /\ stack = << >> /\ Indices = {} /\ t \in Coros /\ t \notin Tasks
      /\ frame[t] = "none"
      /\ Run(t) \in Activation /\ Run(t).fn = "run" /\ Run(t).id = t
  BY ConstantsAssumption DEF StartTest, Idle, Indices, Coros, Run, Activation, Bookkeeping
<1>2. /\ stack' \in Seq(Activation) /\ Indices' = {1} /\ stack'[1] = Run(t)
      /\ UNCHANGED << phase, now, val, parent, group, data, registered, readAt, work >>
      /\ todo' = todo \ {t}
  BY <1>1 DEF StartTest, Indices
<1>3. /\ frame'[t] = "running" /\ frame' \in [Coros -> FrameStates]
      /\ \A m \in Coros \ {t} : frame'[m] = frame[m]
  BY <1>1 DEF StartTest, TypeOK, FrameStates
<1>4. TypeOK'
  BY <1>2, <1>3 DEF TypeOK
<1>5. FramesOnStack' /\ UserDataAlive' /\ NestingBound'
  BY <1>1, <1>2, <1>3 DEF FramesOnStack, UserDataAlive, NestingBound
<1>6. CallersAndTasks'
  BY <1>1, <1>2, <1>3 DEF CallersAndTasks, Live, Coros
<1>7. OneWaker' /\ NoReentry'
  BY <1>1, <1>2, <1>3 DEF OneWaker, NoReentry
<1>8. NoLeak'
  BY <1>1, <1>2 DEF NoLeak
<1>9. Bookkeeping'
  BY <1>1, <1>2, <1>3 DEF Bookkeeping, TypeOK, Coros
<1>10. QED
  BY <1>4, <1>5, <1>6, <1>7, <1>8, <1>9

\* Time and region do not matter to the other conjuncts.
LEMMA ClockInv ==
  ASSUME Inv, phase' \in {"init", "active", "readonly"}, now' \in 0 .. MaxTime,
         UNCHANGED << val, stack, frame, parent, group, data, registered,
                      todo, readAt, work >>
  PROVE  Inv'
BY DEF Inv, TypeOK, FramesOnStack, CallersAndTasks, OneWaker, UserDataAlive,
       NoLeak, NestingBound, NoReentry, Bookkeeping, Indices, Live

-----------------------------------------------------------------------------
(* The three suspensions.                                                   *)

LEMMA TimerBlockFacts ==
  ASSUME Inv, NEW c \in Coros, NEW delay \in Nat, now + delay <= MaxTime,
         NEW kind \in {"write", "read"}
  PROVE  /\ TimerBlock(kind, c, delay) \in Block
         /\ TimerBlock(kind, c, delay).st = "armed"
         /\ TimerBlock(kind, c, delay).co = c
         /\ ~TimerBlock(kind, c, delay).hit
<1>1. now + delay \in 0 .. MaxTime
  BY ConstantsAssumption DEF Inv, TypeOK
<1>2. QED
  BY <1>1 DEF TimerBlock, Block, Kinds

LEMMA WatchBlockFacts ==
  ASSUME NEW c \in Coros, NEW n \in Nets, NEW t \in {"0", "1", None}
  PROVE  /\ WatchBlock(c, n, t) \in Block
         /\ WatchBlock(c, n, t).st = "armed"
         /\ WatchBlock(c, n, t).co = c
         /\ ~WatchBlock(c, n, t).hit
BY ConstantsAssumption DEF WatchBlock, Block, Kinds, Values

LEMMA SpendFacts == ASSUME Inv, Spend PROVE work' \in 0 .. MaxWork
BY ConstantsAssumption DEF Inv, TypeOK, Spend

LEMMA AwaitWriteSuspendInv ==
  ASSUME Inv, NEW c \in Coros, NEW delay \in Delays, NEW g \in WriteGroups,
         AwaitWriteSuspend(c, delay, g)
  PROVE  Inv'
<1>1. delay \in Nat /\ now + delay <= MaxTime /\ work' \in 0 .. MaxWork
  BY ConstantsAssumption, SpendFacts DEF AwaitWriteSuspend
<1>2. group' \in [Coros -> WriteGroups]
  BY DEF AwaitWriteSuspend, Inv, TypeOK
<1>3. /\ OnTop(Run(c)) /\ stack' = Pop
      /\ Register(c, TimerBlock("write", c, delay)) \/ RegistrationFails(c)
      /\ UNCHANGED << phase, now, val, parent, todo, readAt >>
  BY DEF AwaitWriteSuspend
<1>4. QED
  BY <1>1, <1>2, <1>3, TimerBlockFacts, SuspendInv

LEMMA AwaitReadSuspendInv ==
  ASSUME Inv, NEW c \in Coros, NEW delay \in Delays, AwaitReadSuspend(c, delay)
  PROVE  Inv'
<1>1. delay \in Nat /\ now + delay <= MaxTime /\ work' \in 0 .. MaxWork
  BY ConstantsAssumption, SpendFacts DEF AwaitReadSuspend
<1>2. /\ OnTop(Run(c)) /\ stack' = Pop
      /\ Register(c, TimerBlock("read", c, delay)) \/ RegistrationFails(c)
      /\ UNCHANGED << phase, now, val, parent, todo, readAt >>
      /\ group' \in [Coros -> WriteGroups]
  BY DEF AwaitReadSuspend, Inv, TypeOK
<1>3. QED
  BY <1>1, <1>2, TimerBlockFacts, SuspendInv

LEMMA AwaitChangeSuspendInv ==
  ASSUME Inv, NEW c \in Coros, NEW n \in Nets, NEW t \in {"0", "1", None},
         AwaitChangeSuspend(c, n, t)
  PROVE  Inv'
<1>1. /\ OnTop(Run(c)) /\ stack' = Pop /\ work' \in 0 .. MaxWork
      /\ Register(c, WatchBlock(c, n, t)) \/ RegistrationFails(c)
      /\ UNCHANGED << phase, now, val, parent, todo, readAt >>
      /\ group' \in [Coros -> WriteGroups]
  BY SpendFacts DEF AwaitChangeSuspend, Inv, TypeOK
<1>2. QED
  BY <1>1, WatchBlockFacts, SuspendInv

-----------------------------------------------------------------------------
(* The induction.                                                           *)

\* Every step keeps Inv.
LEMMA NextInv == Inv /\ [Next]_vars => Inv'
<1> SUFFICES ASSUME Inv, [Next]_vars PROVE Inv'
  OBVIOUS
<1>1. CASE CoroutineStep
  <2> SUFFICES ASSUME NEW c \in Coros,
        \/ \E delay \in Delays : \/ \E g \in WriteGroups : AwaitWriteSuspend(c, delay, g)
                                 \/ AwaitReadSuspend(c, delay)
        \/ \E n \in Nets, t \in {"0", "1", None} : AwaitChangeSuspend(c, n, t)
        \/ \E n \in Nets : PutValue(c, n)
        \/ PutsDone(c)
        \/ \E k \in Tasks : CallTask(c, k)
        \/ TaskReturns(c) \/ TaskDestroyed(c) \/ TestReturns(c)
      PROVE Inv'
    BY <1>1 DEF CoroutineStep
  <2>1. ASSUME NEW delay \in Delays, NEW g \in WriteGroups, AwaitWriteSuspend(c, delay, g)
        PROVE  Inv'
    BY <2>1, AwaitWriteSuspendInv
  <2>2. ASSUME NEW delay \in Delays, AwaitReadSuspend(c, delay) PROVE Inv'
    BY <2>2, AwaitReadSuspendInv
  <2>3. ASSUME NEW n \in Nets, NEW t \in {"0", "1", None}, AwaitChangeSuspend(c, n, t)
        PROVE  Inv'
    BY <2>3, AwaitChangeSuspendInv
  <2>4. ASSUME NEW n \in Nets, PutValue(c, n) PROVE Inv'
    BY <2>4, PutValueInv
  <2>5. ASSUME NEW k \in Tasks, CallTask(c, k) PROVE Inv'
    BY <2>5, CallTaskInv
  <2>6. QED
    BY <2>1, <2>2, <2>3, <2>4, <2>5, PutsDoneInv, TaskReturnsInv, TaskDestroyedInv,
       TestReturnsInv
<1>2. CASE CallbackStep
  <2>1. ASSUME NEW d \in Data,
               \/ WriteCallback(d) \/ ReadCallback(d) \/ ChangeCallback(d)
               \/ ChangeCallbackTargetedKeeps(d) \/ ChangeCallbackTargetedFires(d)
        PROVE  Inv'
    BY <2>1, WriteCallbackInv, ReadCallbackInv, ChangeCallbackInv, KeepsInv, FiresInv
  <2>2. QED
    BY <1>2, <2>1, CallbackReturnsInv DEF CallbackStep
<1>3. CASE SimulatorStep
  <2>1. ASSUME NEW t \in Tests, StartTest(t) PROVE Inv'
    BY <2>1, StartTestInv
  <2>2. CASE SimInitReturns \/ EnterReadOnly
    <3>1. now' \in 0 .. MaxTime
      BY <2>2 DEF SimInitReturns, EnterReadOnly, Inv, TypeOK
    <3>2. QED
      BY <2>2, <3>1, ClockInv DEF SimInitReturns, EnterReadOnly
  <2>3. CASE AdvanceTime
    <3>1. now' \in 0 .. MaxTime
      BY <2>3, ConstantsAssumption DEF AdvanceTime, Inv, TypeOK
    <3>2. QED
      BY <2>3, <3>1, ClockInv DEF AdvanceTime
  <2>4. QED
    BY <1>3, <2>1, <2>2, <2>3 DEF SimulatorStep
<1>4. CASE DutStep
  <2>1. ASSUME NEW n \in Nets, NEW v \in DutValues, DutChange(n, v) PROVE Inv'
    BY <2>1, DutChangeInv
  <2>2. QED
    BY <1>4, <2>1 DEF DutStep
<1>5. CASE UNCHANGED vars
  <2>1. phase' \in {"init", "active", "readonly"} /\ now' \in 0 .. MaxTime
    BY <1>5 DEF vars, Inv, TypeOK
  <2>2. QED
    BY <1>5, <2>1, ClockInv DEF vars
<1>6. QED
  BY <1>1, <1>2, <1>3, <1>4, <1>5 DEF Next

\* Inv holds in every reachable state.
THEOREM Invariance == Spec => []Inv
<1>1. Init => Inv
  BY InitInv
<1>2. Inv /\ [Next]_vars => Inv'
  BY NextInv
<1>3. QED
  BY <1>1, <1>2, PTL DEF Spec

\* Every variable keeps its type.
THEOREM TypeCorrect == Spec => []TypeOK
<1>1. Inv => TypeOK
  BY DEF Inv
<1>2. QED
  BY <1>1, Invariance, PTL

\* No SchedulerCallbackData is used after it was freed, freed twice or leaked,
\* however the callbacks of scheduler.cpp nest.
THEOREM CallbackDataSafe == Spec => []BlocksSafe
<1>1. Inv => BlocksSafe
  BY DEF Inv, BlocksSafe
<1>2. QED
  BY <1>1, Invariance, PTL

\* Every suspended coroutine has exactly one callback that resumes it.
THEOREM ExactlyOneWaker == Spec => []OneWaker
<1>1. Inv => OneWaker
  BY DEF Inv
<1>2. QED
  BY <1>1, Invariance, PTL

\* A task's final_suspend resumes the coroutine that waits for it, and no frame
\* is resumed while it runs or destroyed while it is in use.
THEOREM CallersAndFrames == Spec => []FramesSafe
<1>1. Inv => FramesSafe
  BY DEF Inv, FramesSafe
<1>2. QED
  BY <1>1, Invariance, PTL

\* Callbacks nest two deep at most, and a value-change callback does not
\* re-enter itself.
THEOREM BoundedNesting == Spec => []NestingSafe
<1>1. Inv => NestingSafe
  BY DEF Inv, NestingSafe
<1>2. QED
  BY <1>1, Invariance, PTL

-----------------------------------------------------------------------------
(* What a read callback saw stays: within a tick, reads come after writes.  *)

\* The latest read was made in the read-only region of its tick, and writes
\* are applied in the active region only.
ReadsAfterWrites ==
  /\ readAt <= now
  /\ readAt = now => phase = "readonly"
  /\ \A i \in Indices : stack[i].fn = "put" => phase = "active"

\* No new Put on the stack.
NoNewPut == \A i \in Indices' : stack'[i].fn = "put" =>
              \E j \in Indices : stack[j].fn = "put"

LEMMA PopNoNewPut == ASSUME Inv, stack # << >>, stack' = Pop PROVE NoNewPut
<1>1. stack \in Seq(Activation) /\ Len(stack) \in Nat \ {0}
  BY DEF Inv, TypeOK
<1>2. Len(stack') = Len(stack) - 1 /\ \A i \in 1 .. Len(stack) - 1 : stack'[i] = stack[i]
  BY <1>1, PopFacts DEF Pop
<1>3. QED
  BY <1>1, <1>2 DEF NoNewPut, Indices

LEMMA PushNoNewPut ==
  ASSUME Inv, NEW s \in Seq(Activation), NEW a \in Activation, a.fn # "put",
         Len(s) = Len(stack),
         \A i \in 1 .. Len(s) : s[i].fn = "put" => s[i] = stack[i],
         stack' = Append(s, a)
  PROVE  NoNewPut
<1>1. stack \in Seq(Activation) /\ Len(stack) \in Nat
  BY DEF Inv, TypeOK
<1>2. /\ Len(stack') = Len(stack) + 1
      /\ \A i \in 1 .. Len(stack) : stack'[i] = s[i]
      /\ stack'[Len(stack) + 1] = a
  BY PushFacts
<1>3. QED
  BY <1>1, <1>2 DEF NoNewPut, Indices

LEMMA ReplaceNoNewPut ==
  ASSUME Inv, stack # << >>, NEW a \in Activation, a.fn # "put", stack' = ReplaceTop(a)
  PROVE  NoNewPut
<1>1. stack \in Seq(Activation) /\ Len(stack) \in Nat \ {0}
  BY DEF Inv, TypeOK
<1>2. /\ Len(stack') = Len(stack)
      /\ \A i \in 1 .. Len(stack) - 1 : stack'[i] = stack[i]
      /\ stack'[Len(stack)] = a
  BY <1>1, ReplaceFacts DEF ReplaceTop
<1>3. QED
  BY <1>1, <1>2 DEF NoNewPut, Indices

\* A coroutine's step does not start an await_resume.
LEMMA CoroutineNoNewPut ==
  ASSUME Inv, NEW c \in Coros,
         PutsDone(c) \/ TaskReturns(c) \/ (\E k \in Tasks : CallTask(c, k))
  PROVE  NoNewPut
<1>1. stack # << >> /\ stack \in Seq(Activation) /\ Len(stack) \in Nat \ {0}
  BY DEF CallTask, PutsDone, TaskReturns, OnTop, Idle, Inv, TypeOK
<1>2. Run(c) \in Activation /\ Run(c).fn = "run"
  BY DEF Run, Activation
<1>4. CASE PutsDone(c)
  BY <1>1, <1>2, <1>4, ReplaceNoNewPut DEF PutsDone
<1>5. CASE \E k \in Tasks : CallTask(c, k)
  <2>1. PICK k \in Tasks : CallTask(c, k)
    BY <1>5
  <2>2. Run(k) \in Activation /\ Run(k).fn = "run"
    BY DEF Run, Activation, Coros
  <2>3. QED
    BY <1>1, <2>1, <2>2, ReplaceNoNewPut DEF CallTask
<1>6. CASE TaskReturns(c)
  <2>1. c \in Tasks /\ OnTop(Run(c)) /\ Final(c) \in Activation /\ Final(c).fn = "final"
    BY <1>6 DEF TaskReturns, Final, Activation
  <2>2. frame[c] = "running"
    BY <1>2, <2>1, TopFacts DEF Inv, FramesOnStack, Run
  <2>3. parent[c] \in Coros
    BY <2>1, <2>2 DEF Inv, CallersAndTasks, Live
  <2>4. Run(parent[c]) \in Activation /\ Run(parent[c]).fn = "run"
    BY <2>3 DEF Run, Activation
  <2>5. /\ ReplaceTop(Final(c)) \in Seq(Activation)
        /\ Len(ReplaceTop(Final(c))) = Len(stack)
        /\ \A i \in 1 .. Len(stack) - 1 : ReplaceTop(Final(c))[i] = stack[i]
        /\ ReplaceTop(Final(c))[Len(stack)] = Final(c)
    BY <1>1, <2>1, ReplaceFacts DEF ReplaceTop
  <2>6. \A i \in 1 .. Len(stack) : ReplaceTop(Final(c))[i].fn = "put" =>
          ReplaceTop(Final(c))[i] = stack[i]
    BY <1>1, <2>1, <2>5
  <2>7. stack' = Append(ReplaceTop(Final(c)), Run(parent[c]))
    BY <1>6 DEF TaskReturns
  <2>8. QED
    BY <2>4, <2>5, <2>6, <2>7, PushNoNewPut
<1>7. QED
  BY <1>4, <1>5, <1>6

LEMMA KeepReads ==
  ASSUME ReadsAfterWrites, NoNewPut, UNCHANGED << phase, now, readAt >>
  PROVE  ReadsAfterWrites'
BY DEF ReadsAfterWrites, NoNewPut

LEMMA CoroutineReads ==
  ASSUME Inv, ReadsAfterWrites, CoroutineStep PROVE ReadsAfterWrites'
<1>1. PICK c \in Coros :
        \/ \E delay \in Delays : \/ \E g \in WriteGroups : AwaitWriteSuspend(c, delay, g)
                                 \/ AwaitReadSuspend(c, delay)
        \/ \E n \in Nets, t \in {"0", "1", None} : AwaitChangeSuspend(c, n, t)
        \/ \E n \in Nets : PutValue(c, n)
        \/ PutsDone(c)
        \/ \E k \in Tasks : CallTask(c, k)
        \/ TaskReturns(c) \/ TaskDestroyed(c) \/ TestReturns(c)
  BY DEF CoroutineStep
<1>2. UNCHANGED << phase, now, readAt >>
  BY <1>1 DEF AwaitWriteSuspend, AwaitReadSuspend, AwaitChangeSuspend, PutValue, PutsDone,
     CallTask, TaskReturns, TaskDestroyed, TestReturns
<1>3. CASE \E n \in Nets : PutValue(c, n)
  BY <1>2, <1>3, KeepReads DEF PutValue, NoNewPut, Indices
<1>4. CASE (OnTop(Run(c)) \/ OnTop(Final(c))) /\ stack' = Pop
  BY <1>2, <1>4, PopNoNewPut, KeepReads DEF OnTop, Idle
<1>5. CASE PutsDone(c) \/ TaskReturns(c) \/ (\E k \in Tasks : CallTask(c, k))
  BY <1>2, <1>5, CoroutineNoNewPut, KeepReads
<1>6. QED
  BY <1>1, <1>3, <1>4, <1>5 DEF AwaitWriteSuspend, AwaitReadSuspend, AwaitChangeSuspend,
                               TaskDestroyed, TestReturns

LEMMA CallbackReads ==
  ASSUME Inv, ReadsAfterWrites, CallbackStep PROVE ReadsAfterWrites'
<1>1. CASE \E d \in Data : WriteCallback(d)
  BY <1>1 DEF WriteCallback, DueTimer, Region, Reason, ReadsAfterWrites
<1>2. CASE \E d \in Data : ReadCallback(d)
  <2>1. PICK d \in Data : ReadCallback(d)
    BY <1>2
  <2>2. /\ phase = "readonly" /\ phase' = phase /\ now' = now /\ readAt' = now
        /\ stack' = << Callback(d), Run(data[d].co) >>
    BY <2>1 DEF ReadCallback, DueTimer, Region, Reason
  <2>3. \A i \in Indices' : stack'[i].fn # "put"
    BY <2>2 DEF Indices, Callback, Run
  <2>4. QED
    BY <2>2, <2>3 DEF ReadsAfterWrites, Inv, TypeOK
<1>3. CASE \E d \in Data : ChangeCallback(d)
  <2>1. PICK d \in Data : ChangeCallback(d)
    BY <1>3
  <2>2. d \in registered /\ data[d].st = "armed" /\ data[d].co \in Coros
    BY <2>1, NoChangeRunning DEF ChangeCallback, Hits, Inv, OneWaker
  <2>3. /\ Callback(d) \in Activation /\ Callback(d).fn # "put"
        /\ Run(data[d].co) \in Activation /\ Run(data[d].co).fn # "put"
    BY <2>2 DEF Callback, Run, Activation
  <2>4. /\ stack \in Seq(Activation)
        /\ stack' = Append(Append(stack, Callback(d)), Run(data[d].co))
        /\ UNCHANGED << phase, now, readAt >>
    BY <2>1 DEF ChangeCallback, Inv, TypeOK
  <2>5. \A i \in Indices' : stack'[i].fn = "put" => i \in Indices /\ stack'[i] = stack[i]
    BY <2>3, <2>4 DEF Indices
  <2>6. NoNewPut
    BY <2>5 DEF NoNewPut
  <2>7. QED
    BY <2>4, <2>6, KeepReads
<1>4. CASE \E d \in Data : ChangeCallbackTargetedKeeps(d)
  BY <1>4, KeepReads DEF ChangeCallbackTargetedKeeps, NoNewPut, Indices
<1>5. CASE \E d \in Data : ChangeCallbackTargetedFires(d)
  <2>1. PICK d \in Data : ChangeCallbackTargetedFires(d)
    BY <1>5
  <2>2. data[d].st = "armed" /\ data[d].co \in Coros
    BY <2>1 DEF ChangeCallbackTargetedFires, Hits, Inv, Bookkeeping, OneWaker
  <2>3. Run(data[d].co) \in Activation /\ Run(data[d].co).fn # "put"
    BY <2>2 DEF Run, Activation
  <2>4. /\ stack \in Seq(Activation)
        /\ stack' = Append(stack, Run(data[d].co))
        /\ UNCHANGED << phase, now, readAt >>
    BY <2>1 DEF ChangeCallbackTargetedFires, Inv, TypeOK
  <2>5. QED
    BY <2>3, <2>4, PushNoNewPut, KeepReads
<1>6. CASE CallbackReturns
  BY <1>6, PopNoNewPut, KeepReads DEF CallbackReturns, Idle
<1>7. QED
  BY <1>1, <1>2, <1>3, <1>4, <1>5, <1>6 DEF CallbackStep

\* Every step keeps the order of reads and writes.
LEMMA NextReads == Inv /\ ReadsAfterWrites /\ [Next]_vars => ReadsAfterWrites'
<1> SUFFICES ASSUME Inv, ReadsAfterWrites, [Next]_vars PROVE ReadsAfterWrites'
  OBVIOUS
<1>1. CASE SimulatorStep
  <2>1. CASE \E t \in Tests : StartTest(t)
    BY <2>1 DEF StartTest, ReadsAfterWrites, Indices, Run
  <2>2. CASE SimInitReturns \/ EnterReadOnly
    BY <2>2 DEF SimInitReturns, EnterReadOnly, ReadsAfterWrites, Indices, Idle
  <2>3. CASE AdvanceTime
    BY <2>3 DEF AdvanceTime, ReadsAfterWrites, Indices, Idle, Inv, TypeOK
  <2>4. QED
    BY <1>1, <2>1, <2>2, <2>3 DEF SimulatorStep
<1>2. CASE DutStep
  BY <1>2 DEF DutStep, DutChange, ReadsAfterWrites, Indices
<1>3. CASE UNCHANGED vars
  BY <1>3 DEF vars, ReadsAfterWrites, Indices
<1>4. QED
  BY <1>1, <1>2, <1>3, CoroutineReads, CallbackReads DEF Next

\* No step changes a net in a tick that a read callback has already sampled.
THEOREM ReadsSettle == Spec => ReadSeesSettled
<1>1. Init => ReadsAfterWrites
  BY DEF Init, ReadsAfterWrites, Indices
<1>2. ASSUME Inv, ReadsAfterWrites, [Next]_vars
      PROVE  [val' # val => readAt < now]_vars
  <2>1. CASE phase = "active"
    BY <1>2, <2>1 DEF ReadsAfterWrites, Inv, TypeOK
  <2>2. CASE phase # "active"
    <3>1. SUFFICES val' = val
      OBVIOUS
    <3>2. CASE CoroutineStep
      <4>1. \A c \in Coros, n \in Nets : ~PutValue(c, n)
        BY <1>2, <2>2, TopFacts DEF PutValue, ReadsAfterWrites, Put, Inv
      <4>2. QED
        BY <3>2, <4>1 DEF CoroutineStep, AwaitWriteSuspend, AwaitReadSuspend,
           AwaitChangeSuspend, PutsDone, CallTask, TaskReturns, TaskDestroyed, TestReturns
    <3>3. CASE CallbackStep
      BY <3>3 DEF CallbackStep, WriteCallback, ReadCallback, ChangeCallback,
         ChangeCallbackTargetedKeeps, ChangeCallbackTargetedFires, CallbackReturns
    <3>4. CASE SimulatorStep
      BY <3>4 DEF SimulatorStep, StartTest, SimInitReturns, EnterReadOnly, AdvanceTime
    <3>5. CASE DutStep
      BY <2>2, <3>5 DEF DutStep, DutChange
    <3>6. QED
      BY <1>2, <3>2, <3>3, <3>4, <3>5 DEF Next, vars
  <2>3. QED
    BY <2>1, <2>2
<1>3. QED
  BY <1>1, <1>2, InitInv, NextInv, NextReads, PTL DEF Spec, ReadSeesSettled
=============================================================================
