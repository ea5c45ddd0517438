------------------------------- MODULE Runner --------------------------------
(***************************************************************************)
(* vip_common/runner: the registry of cases, the ways to select some of    *)
(* them, the order they run in, and the coroutine that runs them between   *)
(* the hooks.  Logging is left out.  The iteration order of the unordered  *)
(* containers does not matter, as ranks are distinct.                      *)
(***************************************************************************)
EXTENDS Integers, Sequences, FiniteSets

CONSTANTS
  Registrations,  \* the calls of add_case, in their order: [name, enabled, tags, fn]
  PlanCalls,      \* what set_plan may be given: sequences of names
  TagCalls,       \* what set_plan_tagged may be given: [tags, include_disabled]
  AfterNames,     \* names that add_after may be given
  MaxAfter        \* bound on the calls of add_after

Elements(seq) == {seq[i] : i \in DOMAIN seq}

ASSUME RunnerAssumption ==
  /\ Registrations \in Seq(Elements(Registrations))
  /\ \A c \in Elements(Registrations) : c.fn \in BOOLEAN /\ c.enabled \in BOOLEAN
  /\ \A p \in PlanCalls : p \in Seq(Elements(p))

VARIABLES
  cases,      \* cases_
  plan,       \* plan_
  prereq,     \* prereq_, as a set of pairs << case_name, after_name >>
  calls,      \* how often add_case was called
  phase,      \* "setup", "between", "in_case" or "done"
  order,      \* what compute_execution_order returned, as names
  next,       \* the index k of case_runner
  hooks,      \* calls of the hooks and of fn, in their order
  after_all   \* how often after_all_ was called

vars == << cases, plan, prereq, calls, phase, order, next, hooks, after_all >>
progress == << phase, order, next, hooks, after_all >>

Names(seq)        == {seq[i].name : i \in DOMAIN seq}
case_exists(name) == name \in Names(cases)
CaseOf(name)      == cases[CHOOSE i \in DOMAIN cases : cases[i].name = name]

Init ==
  /\ cases = << >> /\ plan = << >> /\ prereq = {} /\ calls = 0
  /\ phase = "setup" /\ order = << >> /\ next = 1 /\ hooks = << >> /\ after_all = 0

-----------------------------------------------------------------------------
(* Setting up.                                                              *)

\* A name that is taken is refused.
add_case ==
  /\ phase = "setup" /\ calls < Len(Registrations)
  /\ calls' = calls + 1
  /\ LET c == Registrations[calls + 1]
     IN cases' = IF case_exists(c.name) THEN cases ELSE Append(cases, c)
  /\ UNCHANGED << plan, prereq, progress >>

set_plan ==
  /\ phase = "setup"
  /\ \E p \in PlanCalls : plan' = p
  /\ UNCHANGED << cases, prereq, calls, progress >>

clear_plan ==
  /\ phase = "setup"
  /\ plan' = << >>
  /\ UNCHANGED << cases, prereq, calls, progress >>

Hit(c, call) == (call.include_disabled \/ c.enabled) /\ c.tags \cap call.tags # {}

\* Only the cases that are registered by now are looked at.
set_plan_tagged ==
  /\ phase = "setup"
  /\ \E call \in TagCalls :
       LET hits   == {j \in DOMAIN cases : Hit(cases[j], call)}
           nth(i) == CHOOSE j \in hits : Cardinality({k \in hits : k < j}) = i - 1
       IN plan' = [i \in 1 .. Cardinality(hits) |-> cases[nth(i)].name]
  /\ UNCHANGED << cases, prereq, calls, progress >>

\* Names need not be registered.
add_after ==
  /\ phase = "setup" /\ Cardinality(prereq) < MaxAfter
  /\ \E pair \in AfterNames \X AfterNames : prereq' = prereq \cup {pair}
  /\ UNCHANGED << cases, plan, calls, progress >>

-----------------------------------------------------------------------------
(* compute_execution_order.                                                 *)

Prerequisites(names) == {pair[2] : pair \in {p \in prereq : p[1] \in names}} \cap Names(cases)

\* An empty plan selects the cases that are enabled by default.
Initial ==
  IF plan # << >> THEN Elements(plan) \cap Names(cases)
  ELSE {cases[i].name : i \in {j \in DOMAIN cases : cases[j].enabled}}

\* Seeded fault: prerequisites of prerequisites are not selected.
MutSelected == Initial \cup Prerequisites(Initial)

Grow(names) == names \cup Prerequisites(names)

\* What k rounds select.
Grown[k \in Nat] == IF k = 0 THEN Initial ELSE Grow(Grown[k - 1])

\* The closure under prerequisites: a path has at most Len(cases) cases.
Selected == Grown[Len(cases)]

FirstIn(seq, name) == CHOOSE i \in DOMAIN seq : seq[i] = name /\ \A j \in 1 .. i - 1 : seq[j] # name
Registered(name)   == CHOOSE i \in DOMAIN cases : cases[i].name = name

\* Planned cases by their first place in the plan, then the others as registered.
rank(name) ==
  IF \E i \in DOMAIN plan : plan[i] = name THEN FirstIn(plan, name) ELSE Len(plan) + Registered(name)

MinRank(names) == CHOOSE n \in names : \A m \in names : rank(n) <= rank(m)

\* Seeded fault: a case is ready as soon as one of its prerequisites has run.
MutReady(done, names) ==
  {n \in names \ done : Prerequisites({n}) # {} => Prerequisites({n}) \cap done # {}}

\* Cases whose in-degree has come down to 0.
Ready(done, names) == {n \in names \ done : Prerequisites({n}) \subseteq done}

\* Seeded fault: the ready case that was registered first.
MutPick(ordered, names) ==
  LET ready == Ready(Elements(ordered), names)
  IN IF ready = {} THEN ordered
     ELSE Append(ordered, CHOOSE n \in ready : \A m \in ready : Registered(n) <= Registered(m))

Pick(ordered, names) ==
  LET ready == Ready(Elements(ordered), names)
  IN IF ready = {} THEN ordered ELSE Append(ordered, MinRank(ready))

Kahn(names) ==
  LET sorted[k \in Nat] == IF k = 0 THEN << >> ELSE Pick(sorted[k - 1], names)
  IN sorted[Len(cases)]

ByRank(names) ==
  [i \in 1 .. Cardinality(names) |->
     CHOOSE n \in names : Cardinality({m \in names : rank(m) < rank(n)}) = i - 1]

\* On a cycle, what is left goes by its rank.
compute_execution_order ==
  LET sorted   == Kahn(Selected)
      leftover == Selected \ Elements(sorted)
  IN sorted \o ByRank(leftover)

-----------------------------------------------------------------------------
(* case_runner.                                                             *)

\* Seeded fault: without a case to run, the run ends without cleaning up.
MutStart ==
  /\ phase = "setup"
  /\ \E computed \in {compute_execution_order} :
       /\ order' = computed
       /\ phase' = IF computed = << >> THEN "done" ELSE "between"
  /\ UNCHANGED << cases, plan, prereq, calls, next, hooks, after_all >>

Start ==
  /\ phase = "setup"
  /\ \E computed \in {compute_execution_order} :
       /\ order' = computed
       /\ IF computed = << >> THEN phase' = "done" /\ after_all' = after_all + 1
          ELSE phase' = "between" /\ UNCHANGED after_all
  /\ UNCHANGED << cases, plan, prereq, calls, next, hooks >>

Current  == order[next]
HasNext  == phase = "between" /\ next <= Len(order)
Called(h) == << h, Current >>

\* Seeded fault: before_case_ is called before fn is looked at.
MutSkipCase ==
  /\ HasNext /\ ~CaseOf(Current).fn
  /\ hooks' = Append(hooks, Called("before"))
  /\ next' = next + 1
  /\ UNCHANGED << cases, plan, prereq, calls, phase, order, after_all >>

\* A case without a function is passed over.
SkipCase ==
  /\ HasNext /\ ~CaseOf(Current).fn
  /\ next' = next + 1
  /\ UNCHANGED << cases, plan, prereq, calls, phase, order, hooks, after_all >>

BeginCase ==
  /\ HasNext /\ CaseOf(Current).fn
  /\ hooks' = hooks \o << Called("before"), Called("fn") >>
  /\ phase' = "in_case"
  /\ UNCHANGED << cases, plan, prereq, calls, order, next, after_all >>

\* fn has returned.
EndCase ==
  /\ phase = "in_case"
  /\ hooks' = Append(hooks, Called("after"))
  /\ phase' = "between" /\ next' = next + 1
  /\ UNCHANGED << cases, plan, prereq, calls, order, after_all >>

Finish ==
  /\ phase = "between" /\ next > Len(order)
  /\ after_all' = after_all + 1 /\ phase' = "done"
  /\ UNCHANGED << cases, plan, prereq, calls, order, next, hooks >>

case_runner == Start \/ SkipCase \/ BeginCase \/ EndCase \/ Finish

\* The simulation ends.
AllDone == phase = "done" /\ UNCHANGED vars

Next == add_case \/ set_plan \/ clear_plan \/ set_plan_tagged \/ add_after \/ case_runner \/ AllDone

Spec == Init /\ [][Next]_vars

-----------------------------------------------------------------------------
(* Properties.                                                              *)

\* Types; a name stands for one case.
TypeOK ==
  /\ \A i, j \in DOMAIN cases : cases[i].name = cases[j].name => i = j
  /\ Elements(order) \subseteq Names(cases)
  /\ next \in 1 .. Len(order) + 1
  /\ after_all \in 0 .. 1
  /\ phase \in {"setup", "between", "in_case", "done"}

Started == phase # "setup"

\* A path of prerequisites from one case to another, both registered: every set
\* that has the prerequisites of the first and those of its own members has the other.
Edges      == {p \in prereq : {p[1], p[2]} \subseteq Names(cases)}
Closed     == {S \in SUBSET Names(cases) : Prerequisites(S) \subseteq S}
Depends    == {p \in Names(cases) \X Names(cases) :
                 \A S \in Closed : Prerequisites({p[1]}) \subseteq S => p[2] \in S}
Cyclic     == {n \in Names(cases) : << n, n >> \in Depends}
Unsolvable == {n \in Names(cases) : n \in Cyclic \/ \E m \in Cyclic : << n, m >> \in Depends}

Place(name) == CHOOSE i \in DOMAIN order : order[i] = name

\* Types; what is selected runs with everything it depends on, and once; what a plan
\* does not name and nothing depends on does not run.
Complete ==
  /\ TypeOK
  /\ Started =>
    /\ Elements(order) = Initial \cup {p[2] : p \in {d \in Depends : d[1] \in Initial}}
    /\ Cardinality(Elements(order)) = Len(order)

\* A case runs after all that it depends on, unless that leads into a cycle.
InOrder ==
  Started => \A p \in Edges : {p[1], p[2]} \subseteq Elements(order) /\ p[1] \notin Unsolvable
                                => Place(p[2]) < Place(p[1])

\* The order is that of the plan, and of registration after it, but for what
\* dependencies force: a case is put before one of a lower rank only if that one
\* had still to wait for another.
NoNeedlessReordering ==
  Started => \A i, j \in DOMAIN order :
               i < j /\ rank(order[j]) < rank(order[i]) /\ order[j] \notin Unsolvable
                 => \E k \in i .. j - 1 : << order[j], order[k] >> \in Depends

\* The hooks enclose every case with a function, in the order, one at a time,
\* and the cleanup comes once, after the last.
HooksEnclose ==
  LET runnable  == {j \in DOMAIN order : CaseOf(order[j]).fn}
      before(j) == 3 * Cardinality({k \in runnable : k < j})
  IN /\ Len(hooks) <= 3 * Cardinality(runnable)
     /\ \A j \in runnable, h \in 1 .. 3 :
          before(j) + h <= Len(hooks) =>
            hooks[before(j) + h] = << << "before", "fn", "after" >>[h], order[j] >>
     /\ phase = "done" <=> after_all = 1
     /\ phase = "done" => Len(hooks) = 3 * Cardinality(runnable)
=============================================================================
