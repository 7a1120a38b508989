---------------------------- MODULE PhaseExecute ----------------------------
(* Plan execution, lua/lalin/phase_execute.lua: the process phase_execute    *)
(* runs a plan's steps through an executor's registry of implementations.    *)
(* Its region is materialized: the first pull runs the whole plan and keeps  *)
(* the events, the later pulls replay them one by one.                       *)
(*                                                                           *)
(* A step's implementation is user code: it may register implementations,    *)
(* start, resume and cancel other executions, and call executor:run().       *)
EXTENDS LlblProcess

CONSTANTS
    Impls,        \* the implementations that plans name
    ModuleOf,     \* what require() finds for each, if it is a lua or lalin one
    Plans,        \* the plans: a step is its implementation
    Values,       \* what flows from step to step
    NoValue       \* nil

ASSUME ExecuteAssumption ==
    /\ ModuleOf \in [Impls -> {"none", "function", "notATable"}]
    /\ Plans \subseteq Seq(Impls)
    /\ NoValue \notin Values

VARIABLES
    bindings,     \* the keys of executor.bindings
    exec          \* each handle's execution: its arguments, execute_plan's
                  \* locals, then the materialized events and the report

vars == <<handle, stack, bindings, exec>>

Outputs == Values \cup {NoValue}
StepReport == [input : Outputs, output : Outputs]
ExecType ==
    [plan : Plans, input : Values,
     at : {"idle", "resolve", "call", "finish", "finished", "lost"},
     current : Outputs,
     ok : BOOLEAN, steps : Seq(StepReport), diagnostics : Nat,   \* report
     runSteps : Seq({"done", "failed"}),                         \* report.run
     events : Seq(EventType),
     called : Seq(Nat)]              \* HISTORY: the steps whose code was called
Idle(plan, input) ==
    [plan |-> plan, input |-> input, at |-> "idle", current |-> input, ok |-> TRUE,
     steps |-> <<>>, diagnostics |-> 0, runSteps |-> <<>>, events |-> <<>>, called |-> <<>>]
NoPlan == [at |-> "none"]

StepIndex(h) == Len(exec[h].runSteps) + 1
InFirstPull(h) == OnTop("pull", h) /\ handle[h].at = 0

\* the kinds of the events made so far, in the context's numbering
MadeAs(r, kinds) == [k \in 1..Len(kinds) |-> [kind |-> kinds[k], seq |-> r.seq + k]]

\* the execution goes on as x, having made events of these kinds
Emit(h, x, kinds) ==
    /\ exec' = [exec EXCEPT ![h] = [x EXCEPT !.events = @ \o MadeAs(handle[h], kinds)]]
    /\ handle' = [handle EXCEPT ![h] = Made(@, Len(kinds))]
    /\ UNCHANGED <<stack, bindings>>

\* where the loop over plan.steps goes from here
Onward(x) == [x EXCEPT !.at = IF Len(x.runSteps) < Len(x.plan) THEN "resolve" ELSE "finish"]

DoneWithInput(x, output) ==                                     \* mutant
    [x EXCEPT !.steps = Append(@, [input |-> x.current, output |-> output]),
              !.runSteps = Append(@, "done")]
DoneAgain(x, output) ==                                         \* mutant
    [x EXCEPT !.current = output,
              !.steps = Append(@, [input |-> x.current, output |-> output])]
Done(x, output) ==
    [x EXCEPT !.current = output,
              !.steps = Append(@, [input |-> x.current, output |-> output]),
              !.runSteps = Append(@, "done")]

FailedOnward(x) ==                                              \* mutant
    Onward([x EXCEPT !.ok = FALSE, !.diagnostics = @ + 1, !.runSteps = Append(@, "failed")])
Failed(x) ==
    [x EXCEPT !.at = "finish", !.ok = FALSE, !.diagnostics = @ + 1,
              !.runSteps = Append(@, "failed")]

-----------------------------------------------------------------------------
(* execute_plan, from inside the first pull                                  *)

ExecuteStart(h) ==
    /\ InFirstPull(h) /\ exec[h].at = "idle"
    /\ Emit(h, Onward(exec[h]), <<"execute_start">>)

\* Executor:resolve(impl): the registry, then require(module)[function]
Resolved(impl) == impl \in bindings \/ ModuleOf[impl] = "function"

ResolveStep(h) ==
    LET x == exec[h] IN
    LET impl == x.plan[StepIndex(h)] IN
    /\ InFirstPull(h) /\ x.at = "resolve"
    /\ \/ /\ Resolved(impl)
          /\ Emit(h, [x EXCEPT !.at = "call", !.called = Append(@, StepIndex(h))], <<"step_start">>)
       \/ /\ impl \notin bindings /\ ModuleOf[impl] = "none"
          /\ Emit(h, Failed(x), <<"step_start", "diagnostic">>)

\* module[function] raises if the module is not a table; nothing in the
\* region catches it, and what was collected is lost
ResolveRaises(h) ==
    LET impl == exec[h].plan[StepIndex(h)] IN
    /\ InFirstPull(h) /\ exec[h].at = "resolve"
    /\ impl \notin bindings /\ ModuleOf[impl] = "notATable"
    /\ exec' = [exec EXCEPT ![h].at = "lost", ![h].events = <<>>]
    /\ PullRaises(h)
    /\ UNCHANGED bindings

InStep(h) == InFirstPull(h) /\ exec[h].at = "call"

\* the implementation returns an output, and perhaps diagnostics
StepReturns(h) ==
    LET x == exec[h] IN
    /\ InStep(h)
    /\ \E output \in Outputs, noted \in {0, 1} :
           Emit(h, Onward([Done(x, output) EXCEPT !.diagnostics = @ + noted]), <<"step_done">>)
StepRaises(h) == InStep(h) /\ Emit(h, Failed(exec[h]), <<"diagnostic">>)

\* execute_done, the report, and the region's own result event; then the first
\* of the events is yielded
ExecuteFinish(h) ==
    LET x == exec[h] IN
    LET events == x.events \o MadeAs(handle[h], <<"execute_done", "result">>) IN
    /\ InFirstPull(h) /\ x.at = "finish"
    /\ exec' = [exec EXCEPT ![h] = [x EXCEPT !.at = "finished", !.events = events]]
    /\ handle' = [handle EXCEPT ![h] = Yielded(Made(@, 2), events[1])]
    /\ Pop
    /\ UNCHANGED bindings

\* state.index, and whether there is an event at it
SameIndex(h) == handle[h].at                                    \* mutant
EventIndex(h) == handle[h].at + 1
AllButLast(h) == EventIndex(h) < Len(exec[h].events)            \* mutant
MoreEvents(h) == EventIndex(h) <= Len(exec[h].events)

\* a later pull yields the next of the events, or nil after the last
Replay(h) ==
    /\ OnTop("pull", h) /\ exec[h].at = "finished"
    /\ \/ /\ MoreEvents(h)
          /\ handle' = [handle EXCEPT ![h] = Yielded(@, exec[h].events[EventIndex(h)])]
          /\ Pop
       \/ ~MoreEvents(h) /\ PullEnds(h)
    /\ UNCHANGED <<bindings, exec>>

-----------------------------------------------------------------------------
(* Callers: at the top, or from a step's implementation                      *)

UserTurn == stack = <<>> \/ InStep(Top.h)

\* executor:register(kind, key, fn)
Register(impl) ==
    /\ bindings' = bindings \cup {impl}
    /\ UNCHANGED <<handle, stack, exec>>

Begin(h, plan, input, budget) ==
    /\ handle[h].status = "none"
    /\ handle' = [handle EXCEPT ![h] = Started(budget)]
    /\ exec' = [exec EXCEPT ![h] = Idle(plan, input)]
    /\ UNCHANGED bindings

\* executor:process(plan, input, opts), the budget in process options
Process(h, plan, input, budget) == Begin(h, plan, input, budget) /\ UNCHANGED stack

\* executor:run(plan, input, opts): drains the process, returns its result
Run(h, plan, input, budget) ==
    /\ Len(stack) < MaxDepth
    /\ Begin(h, plan, input, budget) /\ Push(Frame("run", h))
RunNext(h) == LoopNext("run", h) /\ UNCHANGED <<bindings, exec>>

Init ==
    /\ handle = [h \in Handles |-> Unstarted] /\ stack = <<>>
    /\ bindings = {} /\ exec = [h \in Handles |-> NoPlan]

UserNext ==
    /\ UserTurn
    /\ \/ \E impl \in Impls : Register(impl)
       \/ \E h \in Handles, budget \in Budgets :
              \/ \E plan \in Plans, input \in Values :
                     Process(h, plan, input, budget) \/ Run(h, plan, input, budget)
              \/ Resume(h, budget) /\ UNCHANGED <<bindings, exec>>
       \/ \E h \in Handles : Cancel(h) /\ UNCHANGED <<bindings, exec>>
PullNext(h) ==
    \/ ExecuteStart(h) \/ ResolveStep(h) \/ ResolveRaises(h)
    \/ StepReturns(h) \/ StepRaises(h) \/ ExecuteFinish(h) \/ Replay(h)

Next == UserNext \/ \E h \in Handles : RunNext(h) \/ PullNext(h)

\* the loop of run() goes round, and implementations return or raise
Fairness == \A h \in Handles : WF_vars(RunNext(h)) /\ WF_vars(PullNext(h))

Spec == Init /\ [][Next]_vars
FairSpec == Spec /\ Fairness

-----------------------------------------------------------------------------
(* Properties                                                                *)

Planned == {h \in Handles : exec[h] # NoPlan}

\* The executor's registry, and every execution's arguments, report and events,
\* keep the types phase_execute.lua gives them.
TypeOK ==
    /\ HandlesOK
    /\ bindings \subseteq Impls
    /\ exec \in [Handles -> ExecType \cup {NoPlan}]

\* However an execution is budgeted, resumed, cancelled and nested in others,
\* the implementations of its steps are called in order and each at most once.
StepsRunOnce ==
    \A h \in Planned :
        LET x == exec[h] IN
        /\ x.called = [k \in 1..Len(x.called) |-> k]
        /\ Len(x.called) <= Len(x.plan)

\* A finished report says what happened: each step got what the step before it
\* returned, the first one the plan's input; it is ok exactly if every step of
\* the plan is done; else its run ends with the one step that failed, after the
\* good ones, and no step after that was called.
StepsChain(x) ==
    LET out == [k \in 0..Len(x.steps) |-> IF k = 0 THEN x.input ELSE x.steps[k].output] IN
    /\ \A k \in 1..Len(x.steps) : x.steps[k].input = out[k - 1]
    /\ x.current = out[Len(x.steps)]
ReportIsTrue ==
    \A h \in Planned :
        LET x == exec[h] IN
        LET n == Len(x.steps) IN
        x.at \in {"finish", "finished"} =>
            /\ StepsChain(x)
            /\ x.ok <=> n = Len(x.plan)
            /\ \A k \in 1..n : x.runSteps[k] = "done"
            /\ x.ok => Len(x.runSteps) = n
            /\ ~x.ok => /\ Len(x.runSteps) = n + 1 /\ x.runSteps[n + 1] = "failed"
                        /\ Len(x.called) \in {n, n + 1}
                        /\ x.diagnostics >= 1

\* What resume() delivers of an execution are its first events, each once and in
\* the order they were made, with the budget_exhausted ones in between; none of
\* them before the whole plan has run.  Although the numbers do not grow, a
\* number identifies an event.
DeliveredInOrder ==
    \A h \in Planned :
        LET got == handle[h].got IN
        LET events == exec[h].events IN
        LET told == {k \in 1..Len(got) : got[k].kind # "budget_exhausted"} IN
        /\ {got[k] : k \in told} = {events[i] : i \in 1..handle[h].at}
        /\ \A j, k \in told : j < k => got[j].seq < got[k].seq
        /\ \A i, j \in 1..Len(events) : i < j => events[i].seq < events[j].seq
        /\ told # {} => exec[h].at = "finished"
        /\ \A j, k \in 1..Len(got) : got[j].seq = got[k].seq => j = k

\* An execution that ends, neither cancelled nor failed, has a result, and it
\* has it only after every other event: executor:run() never returns nil for a
\* plan that ran.
EndHasResult ==
    \A h \in Planned :
        /\ handle[h].status = "done" /\ ~handle[h].cancelled => handle[h].result
        /\ handle[h].result => handle[h].at = Len(exec[h].events)

\* executor:run() returns, unless it, or a run that one of its steps waits for,
\* was given a budget and spins on it.
RunSpins == \E h \in Handles : Within("run", h) /\ Exhausted(handle[h]) /\ ~handle[h].cancelled
RunsReturn == \A h \in Handles : Within("run", h) ~> ~Within("run", h) \/ RunSpins
=============================================================================
