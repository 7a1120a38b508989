# Moonlift in TLA+

TLA+ models of the parts of this repository whose difficulty is control: the Lua
libraries (Lalin, LLBL, the UI library), where callbacks call back into a half
finished loop, processes pull and cancel each other and searches are undone step by
step; and the C and machine-near programs beside them (the MLUI kernel and its
benchmark, the hosts of a Lua state), where an allocation may fail between any two
steps. TLC checks small instances; TLAPS proves what matters most for every
instance.

Paths below are relative to the repository (`src/` in `PROJECT.json`).
Contents: 1. inventory, 2. the models and their correspondence to the code,
3. the runs, 4. fairness, 5. the proofs, 6. findings and observations,
7. what is not modelled, 8. plan.

## 1. Inventory

Nothing in this repository runs in two threads. What interleaves is user code:
callbacks, region bodies, phase implementations, traced scripts and the hosts of a
kernel call the library in any order, often while it is in the middle of a function,
and may raise. What fails is the allocator, a callback, a step.

### The parts with state and control

**UI session loop** (`lua/ui/session.lua`). Owns the windows of an application.
*State*: `windows` (by id), `order` (a list of ids), per window a host,
`needs_redraw`, `redraw_at_ms`; `running`, `stop_requested`, closed; a text system
shared by the windows. *Operations*: `create_window`, `close_window`,
`request_redraw`, `request_redraw_at/after`, `cancel_redraw`,
`request_all_redraw`, `dispatch_event`, `update`, `draw`, `step`, `run`, `stop`, `close`.
*Interacts* with a backend (events in, hosts and clock) and with nine kinds of
callback. *Hard*: every callback may create and close windows, close the session or
raise while a loop walks `order`; deadlines race with draws and
cancellations. *Correct when* the two window tables agree, each host is closed
exactly once, no callback is made for a closed window, a draw that was asked for
happens, the loop does not oversleep, and `stop()` stops it.

**LLBL process handles** (`lua/llbl.lua` 2170-2505). A process is started on a
region, a generator of events; its handle is resumed event by event. *State*: per handle
`done`, `failed`, `cancelled`, `budget`, `status`, the generator's state, the context's
`seq`, `result_value`. *Operations*: `start`, `resume`, `cancel`,
`events`/`each`, `result`, and for the body `ctx:event`, `ctx:diagnostic_event`,
`ctx:consume`. *Interacts*: bodies and event loops use other handles, so pulls nest.
*Hard*: the order of the done / failed / cancelled / budget checks against late
resumes, new budgets and cancels; budgets lowered on two sides. *Correct when* a
handle is pulled once at a time, never past its budget, never after its end or
a cancel, and delivers numbered events in order.

**Phase plan execution** (`lua/lalin/phase_execute.lua`). Runs a compiler plan as
an LLBL process. *State*: the executor's `bindings`; per execution the current output, the
report, its `run`, the collected events. *Operations*: `register`, `resolve`,
`process`, `run`, and the steps of `execute_plan`. *Interacts* with implementations
(user code, or compiler machines) that may register, run and resume on the same
executor. *Hard*: the first pull runs everything and later pulls replay; failures
at each of four points. *Correct when* each step runs at most once and in order,
outputs chain, the report tells the truth, events are replayed once each in
order, and `run()` returns.

**Phase validation and planning** (`lua/lalin/phase_validate.lua`,
`lua/lalin/phase_plan.lua`). *State*: none between calls; within a call a depth
first search with one shared `path` and `seen_phase`, undone on the way back.
*Operations*: `validate_package`, `select_root`, `find_paths`, `plan_package`.
*Correct when* the search finds each path once, a validated package never makes the
planner raise, and a plan's machines fit together.

**LLBL use sessions** (`lua/llbl.lua` l. 4728-5160, 5271-5352). *State*, on a target
shared by all sessions (`_G`): its bindings, its metatable (automatic names), the capability
table and the scope stack; per session what it installed, what it found there, and whether it
is active. *Operations*: `Language:use` / `llbl.use`, `close`, `with_use`, and the program's
own reads and writes of the table. *Hard*: sessions that are not closed last in, first
out; a program that assigns to an installed name; an installation that raises half way.
*Correct when* sessions closed innermost first are layers that leave the table as it was, and
an open session's capabilities and metatable are its own.

**MLUI kernel** (`experiments/mlui/*.mlua`, called through `mlui_c_api.h`). An immediate
mode UI in one struct of growable buffers. *State*: the loaded rows, node slots, scene,
solved nodes, view operations, events; pressed, captured and hovered node. *Operations*:
`validate`, `load`, `import`, `frame` (lower, solve, render, report, interact),
`interact`, `reset`, `clear_events`, `close`. *Hard*: every phase may grow buffers and be
refused midway; the host borrows pointers between calls; identities are shared by all
nodes. *Correct when* a frame that answers OK shows the whole program, a press activates once, what
is borrowed stays, and no write leaves its buffer.

**MLUI layout benchmark** (`experiments/mlui/bench_mlui_layout.c`). *State*: a program
under construction, the kernel, loop counters, totals, allocations. *Operations*: four builders;
loaded and rebuilt samples of six cases. *Hard*: index arithmetic of child and token
ranges; the parity of clicks across the warmup; exits in the middle. *Correct when* every
program is the tree the kernel accepts, totals are exact, exit statuses are true.

**Hosts of a Lua state** (`lalin.c`, the launcher; `puc_proto_dump.c` and
`puc_trace_operands.c` in `experiments/lua_interpreter_vm/tools/jit_harness`). *State*: a Lua state
and a trace file, a recursion with one counter, a hook with one counter. *Hard*: every exit releases
what the steps before it opened; hooks are per coroutine, the limit is global;
`lua_close` runs Lua code. *Correct when* the rows of a dump are enough to rebuild the
chunk, a trace is the beginning of the run, and lines reach an open file.

**Compiler driver and package** (`lua/lalin/compiler_*.lua`,
`frontend_pipeline.lua`): build the package, validate, plan a root, register the
machines and execute. A composition of the phases above; planned next.

**UI intents and focus** (`lua/ui/interact.lua`, `input.lua`, `runtime.lua`). *State*: pointer
position, capture, hover, focus, drag and scroll state of a window's interaction model.
*Operations*: one reducer over raw events. *Hard*: a press, moves and a release with the
tree changing underneath; two events made of one key. Planned.

**Source documents** (`lua/lalin/source_text_apply.lua`). Versioned edits of a text:
stale versions, overlapping ranges, insertions at the same place. Planned.

**LLPVM native machine** (`lua/llpvm/native`). A cache of recordings with
capacities, buffers sealed when complete, and a registry of handles with 16-bit
generations. `tests/llpvm/test_llpvm_runtime_ffi.lua:5` calls its C interface
retired, so it comes after the live parts.

**SponJIT stencils** (`experiments/.../sponjit_shadow/stencils`). C sketches of machine code
fragments with a register convention. `stencils/README.md` says they are not contracts and nothing
runs them; the assembly of several does not keep the convention the header states, so there is
no single behaviour to model. Not modelled.

### The parts without

Text editing and registry, layout, rendering, widgets and hosts (`lua/ui`);
grammars, roles, formatting and code generation (`lua/llbl.lua`, `lua/llbl/`);
syntax, type checking, code facts, plans and back ends (`lua/lalin`); schemas,
diagnostics, linking; LLPVM bytecode; the Lua side of mlui. They are functions
from values to values or calls into the system; `PROJECT.json` lists each with the
reason it is not modelled. `PROJECT.json` "hazards" lists, line by line, what is
hard to test in all of the code and which property looks after it.

## 2. The models

| module | models | composed of |
| --- | --- | --- |
| `Session` | the session loop and its callbacks | |
| `LlblProcess` | handles: one record, the calls on it, nested pulls and loops | |
| `EventRegion` | handles over regions that make events when pulled | extends `LlblProcess` |
| `PhaseExecute` | the process that executes a plan | extends `LlblProcess` |
| `PhasePlan` | validation, root selection, path search, plan | |
| `Overlays` | abstract: layers of bindings on a table | |
| `UseSession` | `use`, `close` and the program between them | implements `Overlays` |
| `MluiProgram` | the rows of a program, the validator, what a frame makes of them | |
| `MluiBuilder` | the benchmark's four builders, round by round | extends `MluiProgram` |
| `MluiKernel` | the calls of the C interface as sets of outcomes | extends `MluiProgram` |
| `MluiBench` | the benchmark's `main`, cases and samples | extends `MluiBuilder`, `MluiKernel` |
| `MluiPress` | abstract: a press activates once | |
| `MluiClient` | a host that calls one kernel in any order | extends `MluiKernel`, implements `MluiPress` |
| `LuaHosts` | the launcher, the dump, the trace | |
| `MC*` | small instances for TLC | |
| `*Proofs` | the proofs, section 5 | extend what they prove about |

The Lua models treat nesting the same way: `stack` is the call stack, with one frame for
each function in progress, and only the top frame moves. User code is the top
of the stack when it is a callback, a body or an implementation, or the empty stack;
it may then do any operation the code offers. An error unwinds as it does in the
code: to the top where nothing catches it (Session), to the handle's `pcall` (processes),
to the step's `pcall` (executions).

**Session.** `windows`, `order` and `self` are the fields of the same names; `win[w]` is the
record of a window, kept after it is closed. A frame has the function `fn`, the place
`at` in it, its window, its loop index and bound (`update` and `draw` take the bound
before the loop, l. 406 and 417, so the model does too) and, for a callback, the number of
calls it has left. One action per stretch of code between two callbacks: `RunLoop`,
`RunAfterStep`, `RunWakes`, `RunExit`; `Step*`; `Update*`; `Draw*`; `Dispatch*`;
`CloseWindowHost`, `CloseNextWindow`, `CloseText`; then user calls. `win[w].owed`,
`self.raised` are history: the time from which a draw is owed to a window, and that an
error abandoned what was in progress.

**LlblProcess / EventRegion.** `handle[h]` holds the fields of a `ProcessHandle`;
`got`, `granted` and `pulled` are history (events delivered, the last budget
given, pulls since). `Settled`, `Exhausted`, `Starved`, `Running`, `Yielded` are the
stretches of `resume()` in their order. `LoopNext` is an iteration of `events()`, and
also the loop of `Executor:run`. `EventRegion` adds `start` (whose factory may
raise), loops, and bodies that yield an event or a result, note a
diagnostic on the way, consume budget, end or raise.

**PhaseExecute.** `exec[h]` is the execution of handle `h`: `execute_plan`'s locals, the
materialized events and, as history, the steps `called`. The pull that finds `handle[h].at = 0`
runs the plan (`ExecuteStart`, `ResolveStep`, `ResolveRaises`, `StepReturns`, `StepRaises`,
`ExecuteFinish`), the later ones `Replay`. An implementation, between `ResolveStep`
and `StepReturns`, is user code (`UserTurn`).

**PhasePlan.** `at` says where `plan_package` is; `dfs` is the search with its shared path,
`seen` phases and one loop index per open call; `DfsFound`, `DfsOpen`, `DfsDescend`,
`DfsSkip`, `DfsExhausted`, `DfsReturn` are the branches of the recursive `dfs`
in `find_paths`. Validation is one operator, the set of diagnostics as pairs of code and subject.

**UseSession.** `target` is the table: `bind`, `mt` (the session whose metatable is on, 0
none), `caps` (the provider of each capability), `stack`. `sessions[s]` is the `UseSession` object
with what it put aside: `previous`, `previous_mt`, `capability_previous`, `auto_values`. A
value says only who bound it: nobody, the program, the exports of a language, the symbols of a session.
`Use` is the whole of `use` (composing the environment, requirements, installation, metatable,
capabilities, scope), `UseRaises` the one that fails after its exports are in; `Close`; `Read`
makes a symbol of an unknown name; `Assign`. `orderly` is history: every close so far was
of the last open session. What a closed session put aside is forgotten (`Dropped`), since no step reads it.
`Layered` maps it to `Overlays`: the *base* is what a name is bound to below every open
session, a session's *layer* what is bound below the next one that has the name; a symbol counts as
unbound. It is what each close must give back, computed from the records of all sessions.

**MluiProgram, MluiBuilder.** A row keeps what the validator and the phases read: identity, kind,
role, and its ranges of children and tokens, with sums taken modulo `U32`; sizes, colours and text
are left out, and `drawn` stands for a node's geometry, whether it covers the origin. `StartBuild`
allocates, `ChainStep`, `FlatStep`, `BalancedStep` and `InteractiveStep` are one round of the
loops, `Finish` is `finish_program`. `ValidateProgram` is the kernel's validator, answering its first
complaint in the code's order.

**MluiKernel.** A call is the set of its outcomes, each a kernel and a status; `Then` runs
the next part of a call on every outcome that may go on. A buffer is its length and capacity: `Grow`
is `grow_*` (doubling, refusal, the two reallocations of a scene), `Ensure` and `Append1` the two ways
callers use it, `Copy` a bulk write. A write past a capacity, or through a pointer that a half
refused reallocation freed, sets `wild`; nothing is said of a kernel after that.
`MluiClient` makes the calls in any order (`HostLoad`, `Import`, `FrameStep`, `Interact`, `Clear`, `Reset`,
`HostClose`, on the kernel `ui`); `MluiBench` makes them as the benchmark does, on a kernel of its own, with the
exits of its error paths. Their names are kept apart so that one module, `MluiProofs`, can extend both.

**LuaHosts.** One `main` per program, `at` its place, `held` what it has open. `dump` is the
recursion of `dump_proto` as a stack, `trace` the hook's counter, the live and hooked
coroutines and the instructions run. Lua is external: loading and calling succeed or fail;
instructions of coroutines come in any order; a coroutine inherits its creator's hook; a script may remove
hooks with the debug library; closing the state runs finalizers, which may resume coroutines.

## 3. The runs

| run | states | asks |
| --- | --- | --- |
| `session_churn` | 1.34 M | Do the tables, hosts, text system and callbacks stay consistent when callbacks create and close windows, close the session and raise? |
| `session_draws` | 452 k | Is an owed draw always marked or scheduled in time, no deadline overslept, every owed draw made, and does `stop()` end `run()`? |
| `process` | 287 k | Two handles using each other under budgets: one pull at a time, budgets kept, numbers growing, ends final, cancels obeyed, results true, loops ending? |
| `execute_one` | 432 k | One execution under budgets, cancels and every failure: report, replay, result, termination? |
| `execute_nested` | 759 k | Two executions run, resumed and cancelled from each other's steps: each step once, in order? |
| `plan` | 69 k | Does the search find exactly the walks of a definition without a search, what validation lets through fit together, and the planner answer? |
| `plan_simple` | 70 | Violation, see 6. |
| `use_sessions` | 554 k | Three sessions opened and closed in any order: nothing lingers, scopes listed, closes restore? |
| `mlui_bench` | 23 k | The whole benchmark with refused allocations anywhere: trees, exact totals, true exits, an end? |
| `mlui_client` | 318 k | A host calling in any order while allocations fail: whole frames, one activation a press, borrowed buffers kept? |
| `mlui_growth` | small | Violation, see 6. |
| `lua_hosts` | 22 k | Every exit of the launcher, the dump of four chunks, every interleaving of a traced run. |

The properties, one line each.

- Session (`MCSessionChurn.cfg`, `MCSessionDraws.cfg`): `TypeOK`; `OrderIsWindows` (the
  tables list the same windows, once each); `HostLifecycle` (listed windows have open hosts; an
  unlisted open host is being closed by exactly one call, or an error abandoned it);
  `TextOutlivesHosts`; `CallbackOnListed`; `OwedIsPending`; `NoOversleep`; `OwedIsDrawn`,
  `StopEndsRun` (liveness).
- Processes (`MCProcess.cfg`): `HandlesOK` (types), `RunningIsPulled`, `BudgetIsKept`,
  `ResultWasDelivered`, `EndIsFinal`, `CancelIsObeyed`, `SeqsGrow`; `LoopsEnd` (liveness).
- Executions (`MCExecuteOne.cfg`, `MCExecuteNested.cfg`): `StepsRunOnce`; `ReportIsTrue` (the
  outputs chain from step to step, and the report says which step failed and what followed);
  `DeliveredInOrder` (events are replayed once each, in order, with numbers of their
  own); `EndHasResult`; `RunsReturn` (liveness).
- Planning (`MCPlan.cfg`, `MCPlanSimple.cfg`): `SearchIsOnPath`, `SearchIsComplete`;
  `PlanConnects` (a validated package never makes the planner raise, and the machines of a plan fit
  together); `Answers` (liveness).
- Use sessions (`MCUseSession.cfg`): `NothingLingers` (closed in order, no metatable, symbol or capability
  of a closed session is left); `ScopesAreListed` (in any order of closing, the stack lists the open
  sessions as they were opened, and the newest provider and the newest metatable are in
  force); `ClosesRestore`, the refinement `UseSession => Overlays!Spec`.
- MLUI (`MCMluiBench.cfg`, `MCMluiClient.cfg`, `MCMluiGrowth.cfg`): `BuildsTrees`, `SampleIsExact`,
  `ExitMeans`, `BenchEnds` (liveness); `FrameIsWhole`, `BorrowsLast`; `ActivatesOnce`, the refinement
  `HostSpec => MluiPress!Spec`; `WritesStayInBuffers` (violated).
- Hosts (`MCLuaHosts.cfg`): `RowsRebuildChunk` (the rows, which name no parent, determine the
  tree of functions), `TraceIsPrefix`, `ExitsAreClean`, `LinesReachTheFile`.

Each property of a passing run has a mutant in `PROJECT.json`: a definition of the
model changed as a plausible bug would change the code, under which TLC finds the
property violated.

**Bounds.** They are constants, named in the modules.

- *Session*: two windows (a list from which one leaves and one stays, or to which one is
  added, under every loop's index), `MaxCalls = 1` call per callback (a callback
  closes, creates or requests; sequences arise from several callbacks),
  `MaxEvents = 1` per poll, whose event carries up to two raw events in `session_churn` so that the
  first raw callback can close the window of the second; in `session_draws` `MaxTime = 2` and
  `FrameDelay = 2`, so that a deadline falls before, at and after the end of a frame's
  sleep. Which callbacks exist and what they call differs per run, so that each run asks its
  question within its bounds.
- *Processes*: `MaxSeq = 2` events per handle, `MaxDepth = 4` frames. Three frames are a
  loop, a pull and a second pull or loop within it; two events are an event and its successor.
  Budgets none and 1, lowered to 0 by the first pull or by `consume`, reach the comparison with zero
  both ways.
- *Executions*: a plan of two steps has a first, a last and a step whose failure leaves one
  uncalled; the three implementations are one that must be registered, one that `require`
  finds and one whose module is not a table. `MaxSeq = 9` covers the six events of a full
  run, a diagnostic and two `budget_exhausted`.
- *Planning*: every graph of up to three phases on three worlds has parallel phases,
  self loops, back edges and dead ends; flawed packages are all combinations of one phase
  with up to two machines, of three world lists and of four root lists.
- *Use sessions*: three calls of `use` (one that takes free names, one that overrides, one in
  place that requires a capability) and three sessions, so that a middle one can be closed
  first; two names, of which one is contested by two languages.
- *MLUI*: `U32` is scaled to 1 000 000, above every index of the instance, and the identities of
  wrappers and leaves to 4000 and 4003, three apart, so that node count 9 (four pairs)
  is one pair more than they allow; counts 0, 5, 9, loops 0 and 3, warmups 0, 1 and 2, samples
  1 and 2 give every shape its clamp, its odd and even rounds, and a rebuild without any round. Five client programs: two
  nodes, one with its second node out of sight, three with a target, one with an empty node (which stops
  the lowering midway), one with a repeated identity.
- *Hosts*: five instructions against limits 2 and 3 are a limit passed by one and by two
  coroutines; a third coroutine may inherit a hook or its absence; four trees have a single function,
  a chain, siblings, and an order of functions that is not the order of the rows.

`CHECK_DEADLOCK FALSE` is set where a system may really stop: the planner after
its answer, a benchmark or host that has exited, a kernel that was closed, a table whose
sessions are used up, and executions and processes, where a loop that spins on an exhausted
budget runs into the bound `MaxSeq`.

## 4. Fairness

- Session: weak fairness of `SessionStep` (the interpreter goes on with the function
  it is in), `CallbackReturns` (callbacks terminate) and `Tick` (the clock advances).
  None of user calls, nor of events arriving, nor of errors.
- EventRegion: strong fairness, per handle, of a loop's next call and of `BodyNext`: bodies
  return, raise or yield. Strong, because a body may use other handles again and
  again, which takes its own next step away and gives it back; the fairness says that it does not do so for ever. Consuming and user calls are not fair.
- PhaseExecute: weak fairness, per handle, of `run()`'s loop and of the steps of a pull;
  implementations return or raise.
- PhasePlan: weak fairness of `Next`: one sequential call.
- MluiBench: weak fairness of `Next`: one thread runs to its end.

This is no more than that the program continues and that the user's functions terminate; where an
implementation loops for ever, so does the code. `session_draws` stops the clock at
`MaxTime`, and a sleep beyond it counts as over. `UseSession`, `MluiClient` and `LuaHosts`
promise nothing about progress and state no fairness: they are driven by their users.

## 5. The proofs

Checked by TLAPS, for any values of the constants that satisfy the named assumptions.

**Session** (`SessionProofs`; `SessionAssumption`, the types of the constants). All the safety
properties of the runs `session_churn` and `session_draws`: `SessionTypes`, `SessionOrder`,
`SessionHosts`, `SessionText`, `SessionOwed`, `SessionSleep` and the action property
`SessionCallbacks`. The first inductive invariant is `TypeOK /\ OrderIsWindows /\ ListedHasHost`:
without the last part, that listed windows have been created, `CreateWindow` could append an id a
second time. On it stands `LifeInv`, which adds to the four invariants what makes them inductive:
an owed draw of a listed window has a deadline no later than what is owed, or the mark *and the window is
not inside its own `on_draw`*, which alone may drop the mark (`OwedSafe`); a window that is being drawn has had a
host (`DrawnHaveHosts`); and no `run()` below the top of the stack is asleep (`SleepsOnTop`), since a sleeping
loop calls nobody. Lemmas about
`RemoveFirst` say that it removes exactly the first occurrence and keeps the list free of
repetitions; lemmas about frames and stacks say that going on, calling and returning
keep the stack typed; then one step per action.

**Processes** (`LlblProcessProofs`, `EventRegionProofs`; `ProcessAssumption`).
`ProcessTypes`, `ProcessRunning`, `ProcessBudget`, `ProcessResult`, `ProcessEnd`,
`ProcessCancel` and `ProcessNumbers` are all the safety properties of the run `process`.
The invariant `HandleInv` adds to them what makes them inductive: what is left of a budget and
what was pulled on it do not exceed what was granted, and strictly less was pulled while a
region runs (`RecordOK`); and *above a pull of a handle on the stack there is nothing
else of that handle* (`PullIsLast`). The second is the reason the code needs no
guard against resuming a running handle, as long as nobody does it from its own body. `AllNumbered`
adds that no delivered number is ahead of the context's counter. One lemma per operation on a
record, three about the stack (pushed, popped, in place), one per action. The action
properties come from the same steps: each action keeps, of an ended handle, its status and its
events (`AllKept`). `LlblProcessProofs` is about the actions shared by every region, so that
`PhaseExecute` can use it too.

**Executions** (`PhaseExecuteProofs`, on the lemmas of `LlblProcessProofs`; `ExecuteAssumption`). All
safety properties of the runs `execute_one` and `execute_nested`: `ExecuteOnce`, `ExecuteReport`,
`ExecuteDelivery`, `ExecuteResult`, besides the types (`ExecuteTypes`). The invariant `PlanInv` joins
`HandleInv` with `ExecOK` for every handle: the loop's place against its report, its calls and the
chain of values (`StepsOK`); the numbers of the events and what of them has been delivered
(`Log`); the result event is the last, and a handle that is done was cancelled or has delivered it
(`Played`). Lemmas about sequences of events carry `Log` through an append and through a delivery.

**Planning** (`PhasePlanProofs`; `PackagesAssumption`: machines, phases and roots are
lists, and `nil` is no machine). All the invariants of the run `plan`: `SearchFollowsPath`, `SearchFindsAll` and
`PlansConnect`, so the search is proved both sound and complete, for any package. The argument of the second needs no
induction over paths: at every moment a way (`Way`) from input to output has been found *or else* is
still before the search (`Left`), which means that it leaves the current path at an open loop, at a candidate
which that loop has not passed (`Ahead`), or goes on from the world being entered (`Exact`). One lemma per action says that both
sides change together: `FoundIsExact` (from the output world only the path itself is a way),
`SkipIsExact` (no way takes a phase twice), and so on. `Taken`, that the path is made of the candidates
the loops took last, shows that nothing is found twice. `Ranks` and `PhasesByInputAre` are
about the lists of candidates, `WaysAreWalks` ties ways to the reference definition by the
pigeonhole principle, and `ValidMeans` and `MachineFits` say what validation is for.

**Use sessions** (`UseSessionProofs`; `OptionsAssumption`).
`ClosedSessionsAreGone`: `NothingLingers`, from `Owned`: as long as closes are
orderly, every metatable, capability and symbol that stands in the table *or is put aside by an
open session* is of an older session that is still open; what `close()` puts back is then never
stale. `ScopesAreKept`: `ScopesAreListed`, in whatever order sessions are closed, from `Listed`: the stack has
each open session once and the older first (`Lists`, kept by an append and by a removal anywhere:
`ListsOneMore`, `ListsOneLess`); if the newest session that sets the metatable, or provides a capability, is
open, it is the one that stands in the table (`MtIsNewest`, `CapsAreNewest`).
`SessionsAreLayers`: the whole refinement `Spec => ClosesRestore`. `StackInv` says that the
scope stack is the open sessions in order; `Below(n, from)` is unchanged by opening a session above
`from` (`UseHides`) and by closing one above it (`CloseGivesBack`), from which each action maps to
`Open`, `Close`, `Write` or a stutter (`UseMaps`, `CloseMaps`, `WriteMaps`, `StutterMaps`).

**Builders** (`MluiProofs`; `U32Assumption`, `BuilderAssumption`, and `SizesFit`, that no
size makes a 32-bit field wrap). `ProgramsAreTrees`: `BuildsTrees`, both halves: the program is a
tree, and the validator accepts it exactly when identities do not collide. The inductive invariant is the loops'
result in closed form: which row and which child stand where after `i` rounds (`ChainInv`,
`FlatInv`, `BalancedInv` with `Before(j, n)` for the write position, `InteractiveInv`).
The theorem is about `BuildSpec`, one build; `BenchLoadsTrees` says the same of every program of the benchmark.

**Kernel** (`MluiProofs`; `RawsAssumption`, `AllocAssumption`, and `ProgramsAssumption`, that the programs a
host hands over are lists of rows with their arrays). The properties of `mlui_client`, for any programs, raw inputs
and number of calls: `FramesAreWhole` (`FrameIsWhole`), `BorrowsAreKept` (`BorrowsLast`) and `PressImplemented`,
the whole refinement `HostSpec => MluiPress!Spec`. `ClientInv` joins to `FrameIsWhole` that the kernel is well typed
(`IsKernel`) and that its event buffer is as long as its events. A call is a set of outcomes, so there is one lemma
per part of a call, about *every* outcome: `Filled` (a buffer that was grown and filled, or a refusal that left it),
`Touched` (only the buffers named have changed), `Quiet`, `Fires` and `Refused` (what a release may do to the press
and the events), `FrameEnds`, and `Undisturbed` (what imports leave alone). A frame of a program with a node out of
sight or an event refused midway is not a special case: it is one of the outcomes of a part, carried through the rest.

**Benchmark** (`MluiProofs`; `ArgumentsAssumption`, what a command line is, and the assumptions of the builders). All
the invariants of `mlui_bench`, for any list of command lines, any sizes and with or without an allocator that may refuse:
`BenchLoadsTrees` (`BuildsTrees`), `AveragesAreExact` (`SampleIsExact`) and `ExitCodesAreTrue` (`ExitMeans`), from one
inductive invariant, `BenchInv`. Its parts, and why each is needed:

- `Holdings`: what is allocated at each place. `Built`: the program at hand is the finished one of the current case,
  *also* where it has been freed but its totals are still to be compared, as before the next round of a rebuild.
- `Rooms`: every buffer of the kernel is empty or has room for this very program. This is why the benchmark never writes
  past a buffer though the growth of the scene is wrong (`mlui_growth`): from nothing, growing by the number of rows and
  growing to it are the same, and the next program is of the same size (`GrownSafe`, `EnsuredSafe`, `LoweredSafe`,
  `ImportSafe`, `LoadSafe`, `FrameSafe`: whatever part of a call is refused, rooms stay so).
- `Bounds` and `Totals`: how far each loop is, and that the totals are those of the frames counted. A frame shows
  `ViewCount` operations, which depends on the shape and size only and not on the build (`SameTotal`): the rows of two
  finished programs of a case are alike (`RowAt`, `CompleteRows`, `SameRows`).
- `Press`: after an odd number of frames of a click case the leaf that is pressed is the one that the next frame will hover
  (`HoverIsTopLeaf`, and `InteractExact` for the reducer); after an even number nothing is asked, because the next
  frame presses. So a warmup that stops in the middle of a click costs no event.
- `Identified`: where a program has passed the validator, the identities of the case do not collide; this is of the case, not
  of the build, so it outlives the program that was validated. `Exits`: what is known once `at = "exit"`.

There is one lemma per action (`CaseStarts`, `RoundBuilt`, `ProgramLoaded`, `FrameRun`, ...), and `LoadOutcome` and
`FrameOutcome` say once what a load and a frame may do. TLC finds every part of `BenchInv` true on the instance of
`mlui_bench`. The proof corrected one claim: a rebuild with no warmup and no loops validates nothing, so status 0 does not
then say that identities fit; `ExitMeans` states that exception, and the run has it among its command lines.

**Hosts** (`LuaHostsProofs`; `MainAssumption`, `LimitsAssumption`, and `TreesAssumption`, that a chunk is
what the compiler makes of a source: every function but the main one is nested in one other, once, and has an
instruction at least). `TraceOfRun`: `TraceIsPrefix`,
from `TraceInv`: a coroutine without a hook shows that the limit has been reached, unless the script
removed one. `LinesInTime`: `LinesReachTheFile`, from `HeldInv`, which says at every place of the three mains
what is open. `DumpsAreComplete`: `RowsRebuildChunk`, for chunks of any depth and width. Its invariant (`Dumped`)
names the functions numbered so far, each with its parent, its place there and its depth, and ties to them the
calls under way (`Frames`), what each of these has gone into (`Visits`) and the rows (`Printed`). The
two facts that make rows without a parent column enough are part of `Names`: *between a function and its parent
in the numbering all is at least as deep as the function*, and siblings are numbered in their order. At the end no
call is under way, so by the least depth of a function without a number there is none (`AllNamed`), and `ParentOf`
computes the parent (`ParentsAreRead`). `EveryExitClean`: `ExitsAreClean`, from these, from the places each
program has (`PlaceInv`) and from `HookInv`: no hook before the script, none on the main coroutine after it.

**How data of any size is reached.** The installed provers cannot use an induction theorem. Where a theorem is
about every size of something, either the invariant states what a loop has done so far in closed form (builders,
dump), or a least counterexample is taken from the well-foundedness of the naturals (`LeastNatural`: the functions
of `ViewCount` and of `AppendMany` in the kernel, the functions of a chunk).

**Only model-checked.** Liveness (`OwedIsDrawn`, `StopEndsRun`, `LoopsEnd`, `RunsReturn`, `Answers`,
`BenchEnds`), which is out of the prover's reach (`PTL` has
no rule for the fairness of actions without `ENABLED`). Every safety property of a passing run is a theorem.

## 6. Findings and observations

*`plan_simple` (documentation and code disagree).* `lua/lalin/phase_plan.lua:4-5`: "The
planner selects exactly one simple path through the phase graph". `find_paths` (l. 101) lets a
path pass a world twice and only keeps it from repeating a phase. With phases `a -> b`,
`b -> a`, `a -> c`, the one simple path from `a` to `c` is refused as
`E_AMBIGUOUS_PHASE_PATH`.

*`mlui_growth` (bug).* `experiments/mlui/mlui_scene_lower.mlua:148`: `ui_lower_scene` asks `grow_*` for
the difference between the program's nodes and the capacity, but `grow_*` compares what it is asked for with
the room after the current length, which the frame has just reset to 0. With room for two
rows, a program of three asks for 1, `2 - 0` is enough, nothing is grown and three rows
are written into two. `mlui_memory.mlua:63` says "Doubles capacity when room is insufficient.
Exits through grown or oom." `ui_import_auth` (`mlui_program_import.mlua:109`) asks in the same way. The
benchmark never meets it: every program one kernel frames has the same size.

What modelling showed besides, and the models contain because the code does it:

- Session. A draw asked for with `request_redraw(w)` inside `w`'s own `on_draw` is
  dropped: `draw()` clears the mark after the callback (l. 425-427); `OwedIsPending`
  says so in its comment. Any draw of a window drops its deadline (l. 423), even
  one far ahead. A callback that closes an earlier window makes the loop skip the
  next one in this frame. An error leaves `running` true, so `run()` fails
  until `close()`; a window whose `on_close` raised is unlisted and its host never closed.
  `stop()` before `run()` is lost. A window created after `close()` is closed by
  nobody. `on_close` calling `close()` frees the text system before its own host.
- Processes. A loop over `events()` of a handle whose budget is exhausted never ends:
  each call yields one more `budget_exhausted` (`Spinning` in `LoopsEnd`); so does
  `Executor:run` given a budget in its process options.
- Executions. The first pull runs the whole plan, so a budget or a cancel cannot
  stop it midway, and a cancelled handle has no result though its steps ran. Numbers of replayed events are
  lower than those of `budget_exhausted` events delivered before them: unique, not growing.
  An implementation whose module is not a table makes `resolve` raise outside every
  `pcall` (l. 76), and the report and events of the steps before are lost; the fallback
  for function modules at l. 78 cannot be reached.
- Use sessions. Closed out of order, a session restores bindings older than those of sessions
  still open. With `override` every name the table already has counts as installed, so that closing
  puts all of them back to what they were at `use()`. A raise in `install_auto_names` leaves the
  exports in the table with no session to remove them.
- MLUI. When the second of a scene's two reallocations is refused the kernel keeps the freed
  address of the first (`torn`): the next scene growth, the next lowering or `close` uses it. A
  release that cannot store its event keeps the node pressed. `POINTER_CANCELLED` and
  `FOCUS_LOST` are ignored although `mlui_implementation_plan.md:954` plans for them. Hover is
  tested at the origin, never at the pointer. The validator adds ranges in 32 bits. More than
  96 000 pairs give a wrapper and a leaf one identity in the benchmark, which then exits with 3.
  `mlui_lower_solve_render`, which the models leave out, lowers the reference 0 that no load
  gives, so it always answers that the node is missing (`mlui_abi.mlua:30`: "Returns i32 (0 on success)").
- Hosts. `puc_trace_operands` leaves its file to the C library when no state can be
  made. A coroutine keeps its own hook after the limit was reached, and takes it away at its next
  instruction.
- Stencils. A box and an unbox of the same value extend it by zeros, and a fused fragment leaves a
  register as it was where `stencil_abi.h` says it is written: the header and the sketches
  differ, which is one reason why no model is made of them.

## 7. What is not modelled

- Session: the registration of the text system in `new()` and `close()`; a window id
  used again by the host; `run`, `step`, `update`, `draw` and `dispatch_event` called
  from callbacks; requests on window objects that are not listed.
- Processes: a region resumed from its own body (the code does not refuse it, and an inner
  resume could mark the handle done and the outer one suspended again);
  the diagnostics bag; the code generator under GPS regions.
- Executions: payloads (values are a small set, diagnostics a count), the process
  context of `run` besides its budget.
- Planning: the class checks of package entries (constructors make them); events, replayed as
  in `PhaseExecute`.
- Use sessions: the composition of several member dialects and their collisions, strict mode, a metatable
  of the target's own besides its protection, `loadstring` and `dofile`, the `__llbl_` names of the table.
- MLUI: composed programs, paint and resources, text, geometry and clipping; the times and medians the
  benchmark prints, and the parsing of its arguments (among them its narrowing of `long` to `int`).
- Hosts: the columns of a row and of a line; what Lua code does besides running, creating
  coroutines, removing hooks and raising.
- Stencils, and the components of section 1 without state, and those still planned.

## 8. Plan

1. Done: `Session`, `LlblProcess`, `EventRegion`, `PhaseExecute`, `PhasePlan`, `UseSession` and
   `Overlays`, the MLUI modules, `LuaHosts`; the proofs of section 5.
2. `RootPromise`, abstract: lowering a root answers once, with a value made by the
   root's machines in order, or with diagnostics. `PhaseCompile`: the driver, composing
   `PhasePlan` and `PhaseExecute` (validate, plan, register, execute), shown to implement
   `RootPromise` by a refinement mapping. Runs: packages of two phases with every failure.
3. `Interact`: pointer capture, hover, focus traversal, activation, drag and scroll as
   the reducer of `lua/ui/interact.lua`, fed by `input.lua`'s raw events; two widgets and a tree
   that changes between events. Properties: one capture at a time, release after press, a
   cancelled drag leaves nothing behind, focus stays on a live target.
4. `SourceEdit`: `source_text_apply` against the definition of simultaneous edits.
5. `LlpvmCache` and `HandleRegistry`: recordings within capacity, sealed buffers
   frozen, one open recording per key, no early reuse of a handle.
6. Dominators and loops of `code_graph.lua` against reference definitions.
