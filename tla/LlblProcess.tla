---------------------------- MODULE LlblProcess ----------------------------
(* Process handles of lua/llbl.lua: a handle owns a region, a generator      *)
(* that yields one event each time the handle is resumed.                    *)
(*                                                                           *)
(* Everything is single threaded, but not sequential: a region's body, and   *)
(* the body of a loop over handle:events(), are user code that may start,    *)
(* resume and cancel other handles, so pulls nest.  `stack` holds the pulls  *)
(* and loops in progress, the innermost last.                                *)
(*                                                                           *)
(* This module is what every region has in common; EventRegion completes it  *)
(* with regions that make each event when it is pulled, PhaseExecute with    *)
(* the process that executes a plan.                                         *)
EXTENDS Integers, Sequences

CONSTANTS
    Handles,
    NoBudget,   \* a nil budget
    Budgets,    \* the budgets callers pass, among them NoBudget to pass none
    MaxSeq,     \* BOUND: the events a handle's context makes
    MaxDepth    \* BOUND: the loops and pulls in progress at a time

ASSUME ProcessAssumption ==
    /\ NoBudget \notin Int
    /\ NoBudget \in Budgets /\ Budgets \subseteq Int \cup {NoBudget}
    /\ MaxSeq \in Nat /\ MaxDepth \in Nat

VARIABLES
    handle,   \* each handle's fields, and as HISTORY what its callers were given
    stack     \* frames: a region being pulled, or a loop over events()

processVars == <<handle, stack>>

\* "event" stands for whatever kind of event a region makes of its own
EventKind ==
    {"event", "result", "budget_exhausted",
     "execute_start", "step_start", "step_done", "diagnostic", "execute_done"}
EventType == [kind : EventKind, seq : Nat]
HandleType ==
    [status : {"none", "ready", "running", "suspended", "done", "failed"},
     budget : Int \cup {NoBudget},
     cancelled : BOOLEAN,
     seq : Nat,          \* the context's event counter
     at : Nat,           \* the generator's state: the events it has yielded
     result : BOOLEAN,   \* result_value is set
     got : Seq(EventType),              \* HISTORY: the events resume() returned
     granted : Int \cup {NoBudget},     \* HISTORY: the last budget set and
     pulled : Nat]                      \* the events pulled since then
Unstarted ==
    [status |-> "none", budget |-> NoBudget, cancelled |-> FALSE, seq |-> 0, at |-> 0,
     result |-> FALSE, got |-> <<>>, granted |-> NoBudget, pulled |-> 0]

Frame(fn, h) == [fn |-> fn, h |-> h]
Top == stack[Len(stack)]
Push(frame) == stack' = Append(stack, frame)
Pop == stack' = SubSeq(stack, 1, Len(stack) - 1)
OnTop(fn, h) == stack # <<>> /\ Top = Frame(fn, h)
Within(fn, h) == \E k \in 1..Len(stack) : stack[k] = Frame(fn, h)

-----------------------------------------------------------------------------
(* One handle                                                                *)

\* Process:start(...), its region made
Started(budget) ==
    [Unstarted EXCEPT !.status = "ready", !.budget = budget, !.granted = budget]

\* if opts.budget ~= nil then self.budget = opts.budget end
Refreshed(r, budget) ==
    IF budget = NoBudget THEN r
    ELSE [r EXCEPT !.budget = budget, !.granted = budget, !.pulled = 0]

\* resume() returns nil, or raises the old error, before it pulls
SettledIfDone(r) == r.status = "done" \/ r.cancelled             \* mutant
SettledIfEnded(r) == r.status \in {"done", "failed"}            \* mutant
Settled(r) == r.status \in {"done", "failed"} \/ r.cancelled
SettleCancelled(r) == [r EXCEPT !.status = "cancelled"]         \* mutant
Settle(r) == IF r.status = "failed" THEN r ELSE [r EXCEPT !.status = "done"]

Exhausted(r) == r.budget # NoBudget /\ r.budget <= 0

\* process_event(): the context's next event
NextEvent(r, kind) == [kind |-> kind, seq |-> r.seq + 1]
Made(r, n) == [r EXCEPT !.seq = r.seq + n]

StarvedUnnumbered(r) ==                                         \* mutant
    [r EXCEPT !.status = "suspended", !.got = Append(r.got, NextEvent(r, "budget_exhausted"))]

\* resume() answers an exhausted budget with an event and pulls nothing
Starved(r) ==
    [Made(r, 1) EXCEPT !.status = "suspended",
                       !.got = Append(r.got, NextEvent(r, "budget_exhausted"))]

Running(r) == [r EXCEPT !.status = "running"]

NotSpent(r) == r.budget                                         \* mutant
Spent(r) == IF r.budget = NoBudget THEN NoBudget ELSE r.budget - 1

YieldedAsLast(r, ev) ==                                         \* mutant
    [r EXCEPT !.at = r.at + 1, !.budget = Spent(r), !.status = "suspended",
              !.result = (ev.kind = "result"), !.got = Append(r.got, ev), !.pulled = r.pulled + 1]
YieldedRunning(r, ev) ==                                        \* mutant
    [r EXCEPT !.at = r.at + 1, !.budget = Spent(r), !.result = r.result \/ ev.kind = "result",
              !.got = Append(r.got, ev), !.pulled = r.pulled + 1]

\* resume() after a pull that yielded ev
Yielded(r, ev) ==
    [r EXCEPT !.at = r.at + 1, !.budget = Spent(r), !.status = "suspended",
              !.result = r.result \/ ev.kind = "result",
              !.got = Append(r.got, ev), !.pulled = r.pulled + 1]

-----------------------------------------------------------------------------
(* Callers                                                                   *)

\* handle:resume(opts), of a handle that is not being pulled already
Resume(h, budget) ==
    LET r == Refreshed(handle[h], budget) IN
    /\ r.status # "none" /\ ~Within("pull", h)
    /\ \/ /\ Settled(r)
          /\ handle' = [handle EXCEPT ![h] = Settle(r)]
          /\ UNCHANGED stack
       \/ /\ ~Settled(r) /\ Exhausted(r) /\ r.seq < MaxSeq
          /\ handle' = [handle EXCEPT ![h] = Starved(r)]
          /\ UNCHANGED stack
       \/ /\ ~Settled(r) /\ ~Exhausted(r) /\ Len(stack) < MaxDepth
          /\ handle' = [handle EXCEPT ![h] = Running(r)]
          /\ Push(Frame("pull", h))

\* handle:cancel()
Cancel(h) ==
    /\ handle[h].status # "none"
    /\ handle' = [handle EXCEPT ![h].cancelled = TRUE]
    /\ UNCHANGED stack

\* for ev in handle:events() do, in the frame `fn`: the iterator's next call.
\* The loop ends when resume() returns nil or raises.
LoopNext(fn, h) ==
    /\ OnTop(fn, h)
    /\ \/ /\ Settled(handle[h])
          /\ handle' = [handle EXCEPT ![h] = Settle(@)]
          /\ Pop
       \/ /\ ~Settled(handle[h])
          /\ Resume(h, NoBudget)

\* the generator returned nil, or raised
PullEnds(h) ==
    /\ OnTop("pull", h)
    /\ handle' = [handle EXCEPT ![h].status = "done"]
    /\ Pop
PullRaises(h) ==
    /\ OnTop("pull", h)
    /\ handle' = [handle EXCEPT ![h].status = "failed"]
    /\ Pop

-----------------------------------------------------------------------------
(* Properties                                                                *)

\* Every handle's fields and every frame have the types llbl.lua gives them.
HandlesOK ==
    /\ handle \in [Handles -> HandleType]
    /\ stack \in Seq([fn : {"pull", "loop", "run"}, h : Handles])

\* A handle is running exactly while its region is being pulled, and it is
\* pulled by one resume() at a time, however loops and pulls nest.
RunningIsPulled ==
    \A h \in Handles :
        /\ handle[h].status = "running" <=> Within("pull", h)
        /\ \A j, k \in 1..Len(stack) :
               stack[j] = Frame("pull", h) /\ stack[k] = Frame("pull", h) => j = k

\* A budget of n lets resume() pull at most n events until the next budget is
\* set; ctx:consume() can only make it fewer.
BudgetIsKept ==
    \A h \in Handles :
        LET r == handle[h] IN
        r.granted # NoBudget => r.pulled <= (IF r.granted < 0 THEN 0 ELSE r.granted)

\* A result is there exactly if an event of kind "result" has been delivered.
ResultWasDelivered ==
    \A h \in Handles :
        handle[h].result <=> \E k \in 1..Len(handle[h].got) : handle[h].got[k].kind = "result"

\* A done handle stays done and a failed one failed, with nothing more
\* delivered, whatever is called on it (cancel and a new budget included).
EndIsFinal ==
    [][\A h \in Handles :
        handle[h].status \in {"done", "failed"} =>
            /\ handle'[h].status = handle[h].status
            /\ handle'[h].got = handle[h].got]_processVars

\* After cancel() a handle that is not being pulled delivers nothing more, not
\* even the word that its budget is exhausted, and is never pulled again.
CancelIsObeyed ==
    [][\A h \in Handles :
        handle[h].cancelled /\ handle[h].status # "running" =>
            /\ handle'[h].got = handle[h].got
            /\ handle'[h].status # "running"]_processVars
=============================================================================
