---------------------------- MODULE EventRegion ----------------------------
(* Process handles over incremental regions: regions that make each event   *)
(* when it is pulled, as the one of tests/test_llbl_process.lua does.  Their *)
(* bodies are user code, like the bodies of the loops over them.             *)
EXTENDS LlblProcess

\* Process:start(...): the factory that makes the region may raise
Start(h, budget) ==
    /\ handle[h].status = "none"
    /\ \/ handle' = [handle EXCEPT ![h] = Started(budget)]
       \/ handle' = [handle EXCEPT ![h] = [Started(budget) EXCEPT !.status = "failed"]]
    /\ UNCHANGED stack

ForEvents(h) ==
    /\ handle[h].status # "none" /\ ~Within("pull", h) /\ ~Within("loop", h)
    /\ Len(stack) < MaxDepth
    /\ Push(Frame("loop", h))
    /\ UNCHANGED handle
Break(h) == OnTop("loop", h) /\ Pop /\ UNCHANGED handle

\* the region makes an event and yields it; it goes on, yields its result, or
\* makes a diagnostic on the way
PullYields(h) ==
    \E kind \in {"event", "result"}, notes \in {0, 1} :
        LET r == Made(handle[h], notes) IN
        /\ OnTop("pull", h) /\ r.seq < MaxSeq
        /\ handle' = [handle EXCEPT ![h] = Yielded(Made(r, 1), NextEvent(r, kind))]
        /\ Pop

\* ctx:consume(1)
Consume(h) ==
    LET r == handle[h] IN
    /\ OnTop("pull", h) /\ r.budget # NoBudget
    /\ r.budget - 1 <= 0 => r.seq < MaxSeq
    /\ handle' = [handle EXCEPT ![h] =
                    [Made(r, IF r.budget - 1 <= 0 THEN 1 ELSE 0) EXCEPT !.budget = r.budget - 1]]
    /\ UNCHANGED stack

Init == handle = [h \in Handles |-> Unstarted] /\ stack = <<>>

UserNext ==
    \E h \in Handles :
        \/ Cancel(h) \/ ForEvents(h) \/ Break(h)
        \/ \E budget \in Budgets : Start(h, budget) \/ Resume(h, budget)
BodyNext(h) == PullYields(h) \/ PullEnds(h) \/ PullRaises(h)
Next ==
    \/ UserNext
    \/ \E h \in Handles : LoopNext("loop", h) \/ BodyNext(h) \/ Consume(h)

\* Loops go round, and the bodies of loops and regions, which are user code,
\* return: one that keeps coming back to itself does not do so for ever
Fairness ==
    \A h \in Handles : SF_processVars(LoopNext("loop", h)) /\ SF_processVars(BodyNext(h))

Spec == Init /\ [][Next]_processVars
FairSpec == Spec /\ Fairness

-----------------------------------------------------------------------------

\* Callers see an incremental region's events in the order they were made: the
\* numbers grow, whatever events resume() and the body made in between.
SeqsGrow ==
    \A h \in Handles :
        LET got == handle[h].got IN
        \A j, k \in 1..Len(got) : j < k => got[j].seq < got[k].seq

\* A loop over events() ends, unless it is left to spin on an exhausted budget:
\* the iterator goes on yielding budget_exhausted.
Spinning == \E h \in Handles : Within("loop", h) /\ Exhausted(handle[h]) /\ ~handle[h].cancelled
LoopsEnd == \A h \in Handles : Within("loop", h) ~> ~Within("loop", h) \/ Spinning
=============================================================================
