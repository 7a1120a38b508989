------------------------- MODULE EventRegionProofs -------------------------
(* What every instance of EventRegion keeps: the invariant on handles and    *)
(* stack of LlblProcessProofs, and the promises to ended and cancelled       *)
(* handles, for any handles, budgets and bounds.                             *)
EXTENDS EventRegion, LlblProcessProofs

LEMMA InitInv == Init => HandleInv
<1> SUFFICES ASSUME Init PROVE HandleInv
  OBVIOUS
<1>1. handle = [h \in Handles |-> Unstarted] /\ stack = <<>>
  BY DEF Init
<1>2. RecordOK(Unstarted) /\ Unstarted.status # "running"
  BY StartedOK, ProcessAssumption
<1>3. Unstarted \in HandleType
  BY <1>2 DEF RecordOK
<1>4. stack \in Seq(Frames) /\ Len(stack) = 0
  BY <1>1
<1>5. \A h \in Handles : ~PulledIn(stack, h) /\ PullIsLast(stack, h)
  BY <1>4 DEF PulledIn, PullIsLast
<1> QED
  BY <1>1, <1>2, <1>3, <1>4, <1>5 DEF HandleInv

\* Process:start(...), whether the factory raises or not.
LEMMA StartKeeps ==
    ASSUME HandleInv, NEW h \in Handles, NEW budget \in Budgets, Start(h, budget)
    PROVE  HandleInv' /\ AllKept
<1> DEFINE s == Started(budget)
           f == [Started(budget) EXCEPT !.status = "failed"]
<1>1. /\ RecordOK(s) /\ s.status # "running"
      /\ RecordOK(f) /\ f.status # "running"
  BY StartedOK
<1>2. /\ handle[h].status = "none" /\ UNCHANGED stack
      /\ handle' = [handle EXCEPT ![h] = s] \/ handle' = [handle EXCEPT ![h] = f]
  BY DEF Start
<1> HIDE DEF s, f
<1>3. Keeps(handle[h], s) /\ Keeps(handle[h], f)
  BY <1>2 DEF Keeps, HandleInv, RecordOK
<1> QED
  BY <1>1, <1>2, <1>3, InPlace

\* A loop over events() begins, or is left.
LEMMA LoopKeeps ==
    ASSUME HandleInv, NEW h \in Handles, ForEvents(h) \/ Break(h)
    PROVE  HandleInv' /\ AllKept
<1> DEFINE r == handle[h]
<1>1. /\ RecordOK(r) /\ handle' = [handle EXCEPT ![h] = r]
      /\ Keeps(handle[h], r)
  <2>1. UNCHANGED handle
    BY DEF ForEvents, Break
  <2> QED
    BY <2>1 DEF HandleInv, Keeps
<1> HIDE DEF r
<1>2. CASE ForEvents(h)
  <2>1. handle[h].status # "running" /\ r.status # "running"
    BY <1>2, TopIsRunning DEF ForEvents, r
  <2> QED
    BY <1>1, <1>2, <2>1, OnPush DEF ForEvents
<1>3. CASE Break(h)
  <2>1. handle[h].status # "running" /\ r.status # "running"
    BY <1>3, TopIsRunning DEF Break, r
  <2> QED
    BY <1>1, <1>3, <2>1, OnPop DEF Break
<1> QED
  BY <1>2, <1>3
\* The region makes an event and yields it.
LEMMA PullYieldsKeeps ==
    ASSUME HandleInv, NEW h \in Handles, PullYields(h)
    PROVE  HandleInv' /\ AllKept
<1>1. PICK kind \in {"event", "result"}, notes \in {0, 1} :
        /\ OnTop("pull", h) /\ Pop
        /\ handle' = [handle EXCEPT ![h] =
                        Yielded(Made(Made(handle[h], notes), 1),
                                NextEvent(Made(handle[h], notes), kind))]
  BY DEF PullYields
<1> DEFINE r == Made(handle[h], notes)
           ev == NextEvent(r, kind)
           q == Yielded(Made(r, 1), ev)
<1>2. RecordOK(handle[h]) /\ handle[h].status = "running"
  BY <1>1, TopIsRunning DEF HandleInv
<1>3. RecordOK(r) /\ r.status = "running"
  BY <1>2, MadeOK
<1> HIDE DEF r
<1>4. RecordOK(Made(r, 1)) /\ Made(r, 1).status = "running"
  BY <1>3, MadeOK
<1>5. ev \in EventType
  BY <1>3, EventOK DEF EventKind
<1> HIDE DEF ev
<1>6. RecordOK(q) /\ q.status = "suspended"
  BY <1>4, <1>5, YieldedOK
<1>7. handle' = [handle EXCEPT ![h] = q]
  BY <1>1 DEF q, ev, r
<1> HIDE DEF q
<1>8. Keeps(handle[h], q)
  BY <1>2 DEF Keeps
<1> QED
  BY <1>1, <1>2, <1>6, <1>7, <1>8, OnPop

\* ctx:consume(1), which may make an event of its own.
LEMMA ConsumeKeeps ==
    ASSUME HandleInv, NEW h \in Handles, Consume(h)
    PROVE  HandleInv' /\ AllKept
<1> DEFINE n == IF handle[h].budget - 1 <= 0 THEN 1 ELSE 0
           r == Made(handle[h], n)
           q == [r EXCEPT !.budget = r.budget - 1]
<1>1. /\ RecordOK(handle[h]) /\ handle[h].status = "running"
      /\ handle[h].budget # NoBudget
  BY TopIsRunning DEF HandleInv, Consume
<1>2. RecordOK(r) /\ r.status = "running" /\ r.budget = handle[h].budget
  <2>1. n \in Nat
    OBVIOUS
  <2> HIDE DEF n
  <2> QED
    BY <1>1, <2>1, MadeOK
<1>3. handle' = [handle EXCEPT ![h] = q] /\ UNCHANGED stack
  <2>1. handle' = [handle EXCEPT ![h] = [r EXCEPT !.budget = handle[h].budget - 1]]
    BY DEF Consume
  <2> HIDE DEF r
  <2> QED
    BY <1>2, <2>1 DEF Consume
<1> HIDE DEF r, n
<1>4. RecordOK(q) /\ q.status = "running"
  BY <1>1, <1>2, ConsumedOK
<1> HIDE DEF q
<1>5. Keeps(handle[h], q)
  BY <1>1 DEF Keeps
<1> QED
  BY <1>1, <1>3, <1>4, <1>5, InPlace

-----------------------------------------------------------------------------

LEMMA NextKeeps ==
    ASSUME HandleInv, Next
    PROVE  HandleInv' /\ AllKept
<1>1. ASSUME NEW h \in Handles, Cancel(h) PROVE HandleInv' /\ AllKept
  BY <1>1, CancelKeeps
<1>2. ASSUME NEW h \in Handles, ForEvents(h) \/ Break(h) PROVE HandleInv' /\ AllKept
  BY <1>2, LoopKeeps
<1>3. ASSUME NEW h \in Handles, NEW budget \in Budgets, Start(h, budget)
      PROVE  HandleInv' /\ AllKept
  BY <1>3, StartKeeps
<1>4. ASSUME NEW h \in Handles, NEW budget \in Budgets, Resume(h, budget)
      PROVE  HandleInv' /\ AllKept
  BY <1>4, ResumeKeeps
<1>5. ASSUME NEW h \in Handles, LoopNext("loop", h) PROVE HandleInv' /\ AllKept
  BY <1>5, LoopNextKeeps
<1>6. ASSUME NEW h \in Handles, PullYields(h) PROVE HandleInv' /\ AllKept
  BY <1>6, PullYieldsKeeps
<1>7. ASSUME NEW h \in Handles, PullEnds(h) \/ PullRaises(h) PROVE HandleInv' /\ AllKept
  BY <1>7, PullStopsKeeps
<1>8. ASSUME NEW h \in Handles, Consume(h) PROVE HandleInv' /\ AllKept
  BY <1>8, ConsumeKeeps
<1> QED
  BY <1>1, <1>2, <1>3, <1>4, <1>5, <1>6, <1>7, <1>8 DEF Next, UserNext, BodyNext

LEMMA StepKeeps == HandleInv /\ [Next]_processVars => HandleInv' /\ AllKept
<1>1. ASSUME HandleInv, UNCHANGED processVars PROVE HandleInv' /\ AllKept
  <2>1. handle' = handle /\ stack' = stack
    BY <1>1 DEF processVars
  <2>2. AllKept
    BY <2>1 DEF AllKept, Keeps
  <2>3. HandleInv'
    BY <1>1, <2>1 DEF HandleInv, PulledIn, PullIsLast
  <2> QED
    BY <2>2, <2>3
<1> QED
  BY <1>1, NextKeeps

\* Type correctness of handles and of the stack of pulls and loops.
THEOREM ProcessTypes == Spec => []HandlesOK
<1>1. HandleInv => HandlesOK
  BY HandleInvImplies
<1> QED
  BY <1>1, InitInv, StepKeeps, PTL DEF Spec

\* A handle is running exactly while it is pulled, by one resume() at a time:
\* llbl.lua has no guard that says so, it follows from how calls nest.
THEOREM ProcessRunning == Spec => []RunningIsPulled
<1>1. HandleInv => RunningIsPulled
  BY HandleInvImplies
<1> QED
  BY <1>1, InitInv, StepKeeps, PTL DEF Spec

\* A budget of n is never overdrawn, for any budgets, resumes and consumption.
THEOREM ProcessBudget == Spec => []BudgetIsKept
<1>1. HandleInv => BudgetIsKept
  BY HandleInvImplies
<1> QED
  BY <1>1, InitInv, StepKeeps, PTL DEF Spec

\* handle:result() has a value exactly after a result event was delivered.
THEOREM ProcessResult == Spec => []ResultWasDelivered
<1>1. HandleInv => ResultWasDelivered
  BY HandleInvImplies
<1> QED
  BY <1>1, InitInv, StepKeeps, PTL DEF Spec

\* A handle that is done or failed stays so, and delivers nothing more.
THEOREM ProcessEnd == Spec => EndIsFinal
<1>1. HandleInv /\ [Next]_processVars =>
        [\A h \in Handles :
            handle[h].status \in {"done", "failed"} =>
                /\ handle'[h].status = handle[h].status
                /\ handle'[h].got = handle[h].got]_processVars
  BY StepKeeps, AllKeptImplies
<1> QED
  BY <1>1, InitInv, StepKeeps, PTL DEF Spec, EndIsFinal

\* A cancelled handle that is not being pulled delivers nothing more.
THEOREM ProcessCancel == Spec => CancelIsObeyed
<1>1. HandleInv /\ [Next]_processVars =>
        [\A h \in Handles :
            handle[h].cancelled /\ handle[h].status # "running" =>
                /\ handle'[h].got = handle[h].got
                /\ handle'[h].status # "running"]_processVars
  BY StepKeeps, AllKeptImplies
<1> QED
  BY <1>1, InitInv, StepKeeps, PTL DEF Spec, CancelIsObeyed
-----------------------------------------------------------------------------
(* Numbers                                                                   *)

\* A handle's delivered numbers grow, and none is ahead of the context's.
Numbered(r) ==
    /\ \A k \in 1..Len(r.got) : r.got[k].seq <= r.seq
    /\ \A j, k \in 1..Len(r.got) : j < k => r.got[j].seq < r.got[k].seq

\* Every delivered event has a number.
LEMMA Numbers ==
    ASSUME NEW got \in Seq(EventType)
    PROVE  Len(got) \in Nat /\ \A k \in 1..Len(got) : got[k].seq \in Nat
<1>1. Len(got) \in Nat /\ \A k \in 1..Len(got) : got[k] \in EventType
  OBVIOUS
<1>2. \A ev \in EventType : ev.seq \in Nat
  BY DEF EventType
<1> QED
  BY <1>1, <1>2

\* An event numbered after the record's may be appended.
LEMMA NumberedAppend ==
    ASSUME NEW r \in HandleType, Numbered(r), NEW ev \in EventType, r.seq < ev.seq,
           NEW q \in HandleType, q.got = Append(r.got, ev), ev.seq <= q.seq
    PROVE  Numbered(q)
<1> DEFINE t == Append(r.got, ev)
           n == Len(r.got)
<1>1. r.got \in Seq(EventType) /\ r.seq \in Nat /\ q.seq \in Nat /\ ev.seq \in Nat
  BY Fields DEF EventType
<1>2. n \in Nat /\ \A k \in 1..n : r.got[k].seq \in Nat
  BY <1>1, Numbers
<1>3. Len(t) = n + 1 /\ t[n + 1] = ev /\ \A k \in 1..n : t[k] = r.got[k]
  BY <1>1
<1>8. q.got = t
  OBVIOUS
<1> HIDE DEF t
<1>4. \A k \in 1..Len(t) : k \in 1..n \/ k = n + 1
  BY <1>2, <1>3
<1>5. \A k \in 1..n : r.got[k].seq < ev.seq
  BY <1>1, <1>2 DEF Numbered
<1>6. \A k \in 1..Len(t) : t[k].seq <= q.seq
  BY <1>1, <1>2, <1>3, <1>4, <1>5
<1>7. ASSUME NEW j \in 1..Len(t), NEW k \in 1..Len(t), j < k PROVE t[j].seq < t[k].seq
  <2>1. j \in 1..n
    BY <1>2, <1>3, <1>7
  <2>2. CASE k \in 1..n
    BY <1>3, <1>7, <2>1, <2>2 DEF Numbered
  <2>3. CASE k = n + 1
    BY <1>3, <1>5, <2>1, <2>3
  <2> QED
    BY <1>4, <2>2, <2>3
<1> QED
  BY <1>6, <1>7, <1>8 DEF Numbered

\* A record that delivers nothing keeps its numbers in order.
LEMMA NumberedSame ==
    ASSUME NEW r \in HandleType, Numbered(r), NEW q \in HandleType,
           q.got = r.got, r.seq <= q.seq
    PROVE  Numbered(q)
<1>1. r.got \in Seq(EventType) /\ r.seq \in Nat /\ q.seq \in Nat
  BY Fields
<1>2. \A k \in 1..Len(r.got) : r.got[k].seq \in Nat
  BY <1>1, Numbers
<1>3. \A k \in 1..Len(r.got) : r.got[k].seq <= q.seq
  BY <1>1, <1>2 DEF Numbered
<1> QED
  BY <1>3 DEF Numbered

AllNumbered == \A h \in Handles : Numbered(handle[h])

LEMMA NumberedInPlace ==
    ASSUME HandleInv, AllNumbered, NEW h \in Handles, NEW q, Numbered(q),
           handle' = [handle EXCEPT ![h] = q]
    PROVE  AllNumbered'
<1>1. handle'[h] = q /\ \A i \in Handles \ {h} : handle'[i] = handle[i]
  BY DEF HandleInv
<1> QED
  BY <1>1 DEF AllNumbered

\* resume() numbers the one event it makes itself after those of the region.
LEMMA ResumeNumbered ==
    ASSUME HandleInv, AllNumbered, NEW h \in Handles, NEW budget \in Budgets, Resume(h, budget)
    PROVE  AllNumbered'
<1> DEFINE r == Refreshed(handle[h], budget)
<1>1. RecordOK(handle[h]) /\ handle[h].status # "running" /\ Numbered(handle[h])
  BY TopIsRunning DEF HandleInv, AllNumbered, Resume
<1>2. RecordOK(r) /\ r.got = handle[h].got
  BY <1>1, RefreshedOK
<1>3. handle[h] \in HandleType /\ r \in HandleType
  BY <1>1, <1>2 DEF RecordOK
<1>4. r.seq = handle[h].seq
  BY <1>3 DEF Refreshed, HandleType
<1>5. \/ handle' = [handle EXCEPT ![h] = Settle(r)]
      \/ handle' = [handle EXCEPT ![h] = Starved(r)]
      \/ handle' = [handle EXCEPT ![h] = Running(r)]
  BY DEF Resume
<1>6. r.seq \in Nat /\ handle[h].seq \in Nat
  BY <1>3, Fields
<1> HIDE DEF r
<1>7. Numbered(r)
  BY <1>1, <1>2, <1>3, <1>4, <1>6, NumberedSame
<1>8. Numbered(Settle(r)) /\ Numbered(Running(r))
  <2>1. /\ Settle(r).got = r.got /\ Settle(r).seq = r.seq
        /\ Running(r).got = r.got /\ Running(r).seq = r.seq
    BY <1>3 DEF Settle, Running, HandleType
  <2> QED
    BY <1>7, <2>1 DEF Numbered
<1>9. Numbered(Starved(r))
  <2> DEFINE ev == NextEvent(r, "budget_exhausted")
             q == Starved(r)
             m == Made(r, 1)
  <2>1. ev \in EventType /\ ev.seq = r.seq + 1
    BY <1>2, EventOK DEF EventKind, NextEvent
  <2>2. q \in HandleType
    BY <1>2, StarvedOK DEF RecordOK
  <2>3. m \in HandleType /\ m.seq = r.seq + 1
    <3>1. m \in HandleType
      BY <1>2, MadeOK DEF RecordOK
    <3> QED
      BY <1>3, <3>1 DEF Made, HandleType
  <2> HIDE DEF m
  <2>4. q = [m EXCEPT !.status = "suspended", !.got = Append(r.got, ev)]
    BY DEF Starved, m
  <2> HIDE DEF ev
  <2>5. q.got = Append(r.got, ev) /\ q.seq = r.seq + 1
    BY <2>3, <2>4 DEF HandleType
  <2> HIDE DEF q
  <2>6. r.seq < ev.seq /\ ev.seq <= q.seq
    BY <1>6, <2>1, <2>5
  <2>7. Numbered(q)
    BY <1>3, <1>7, <2>1, <2>2, <2>5, <2>6, NumberedAppend
  <2> QED
    BY <2>7 DEF q
<1> QED
  BY <1>5, <1>8, <1>9, NumberedInPlace

\* The region's own events follow those it noted on the way.
LEMMA PullYieldsNumbered ==
    ASSUME HandleInv, AllNumbered, NEW h \in Handles, PullYields(h)
    PROVE  AllNumbered'
<1>1. PICK kind \in {"event", "result"}, notes \in {0, 1} :
        handle' = [handle EXCEPT ![h] =
                        Yielded(Made(Made(handle[h], notes), 1),
                                NextEvent(Made(handle[h], notes), kind))]
        /\ OnTop("pull", h)
  BY DEF PullYields
<1> DEFINE r == Made(handle[h], notes)
           m == Made(r, 1)
           ev == NextEvent(r, kind)
           q == Yielded(m, ev)
<1>2. RecordOK(handle[h]) /\ handle[h].status = "running" /\ Numbered(handle[h])
  BY <1>1, TopIsRunning DEF HandleInv, AllNumbered
<1>3. handle[h] \in HandleType
  BY <1>2 DEF RecordOK
<1>4. RecordOK(r) /\ r.status = "running" /\ r.got = handle[h].got
  BY <1>2, MadeOK
<1>5. r \in HandleType /\ r.seq = handle[h].seq + notes
  BY <1>3, <1>4 DEF RecordOK, Made, HandleType
<1>6. r.seq \in Nat /\ handle[h].seq \in Nat
  BY <1>3, <1>5, Fields
<1>7. handle[h].seq <= r.seq
  BY <1>5, <1>6
<1> HIDE DEF r
<1>8. Numbered(r)
  BY <1>2, <1>3, <1>4, <1>5, <1>7, NumberedSame
<1>9. RecordOK(m) /\ m.status = "running" /\ m.got = r.got
  BY <1>4, MadeOK
<1>10. m \in HandleType /\ m.seq = r.seq + 1
  BY <1>5, <1>9 DEF RecordOK, Made, HandleType
<1> HIDE DEF m
<1>11. ev \in EventType /\ ev.seq = r.seq + 1
  BY <1>4, EventOK DEF EventKind, NextEvent
<1> HIDE DEF ev
<1>12. RecordOK(q)
  BY <1>9, <1>11, YieldedOK
<1>13. q \in HandleType /\ q.got = Append(r.got, ev) /\ q.seq = r.seq + 1
  BY <1>9, <1>10, <1>12 DEF RecordOK, Yielded, HandleType
<1>14. handle' = [handle EXCEPT ![h] = q]
  BY <1>1 DEF q, m, ev, r
<1> HIDE DEF q
<1>15. r.seq < ev.seq /\ ev.seq <= q.seq
  BY <1>6, <1>11, <1>13
<1>16. Numbered(q)
  BY <1>5, <1>8, <1>11, <1>13, <1>15, NumberedAppend
<1> QED
  BY <1>14, <1>16, NumberedInPlace

\* Every other action leaves what was delivered, and numbers nothing anew.
LEMMA QuietNumbered ==
    ASSUME HandleInv, AllNumbered, NEW h \in Handles,
           NEW q \in HandleType, q.got = handle[h].got, handle[h].seq <= q.seq,
           handle' = [handle EXCEPT ![h] = q]
    PROVE  AllNumbered'
<1>1. handle[h] \in HandleType /\ Numbered(handle[h])
  BY DEF HandleInv, AllNumbered
<1>2. Numbered(q)
  BY <1>1, NumberedSame
<1> QED
  BY <1>2, NumberedInPlace

LEMMA NextNumbered ==
    ASSUME HandleInv, AllNumbered, Next
    PROVE  AllNumbered'
<1>0. ASSUME NEW h \in Handles
      PROVE  /\ handle[h] \in HandleType /\ handle[h].seq \in Nat
             /\ handle[h].seq <= handle[h].seq
  BY Fields DEF HandleInv
<1>1. ASSUME NEW h \in Handles, Cancel(h) PROVE AllNumbered'
  <2> DEFINE q == [handle[h] EXCEPT !.cancelled = TRUE]
  <2>1. q \in HandleType /\ q.got = handle[h].got /\ q.seq = handle[h].seq
    BY <1>0 DEF HandleType
  <2>2. handle' = [handle EXCEPT ![h] = q]
    BY <1>1 DEF Cancel
  <2> HIDE DEF q
  <2> QED
    BY <1>0, <2>1, <2>2, QuietNumbered
<1>2. ASSUME NEW h \in Handles, ForEvents(h) \/ Break(h) PROVE AllNumbered'
  BY <1>2 DEF ForEvents, Break, AllNumbered
<1>3. ASSUME NEW h \in Handles, NEW budget \in Budgets, Start(h, budget)
      PROVE  AllNumbered'
  <2> DEFINE s == Started(budget)
             f == [Started(budget) EXCEPT !.status = "failed"]
  <2>1. s.got = <<>> /\ f.got = <<>>
    BY DEF Started, Unstarted
  <2>2. handle' = [handle EXCEPT ![h] = s] \/ handle' = [handle EXCEPT ![h] = f]
    BY <1>3 DEF Start
  <2> HIDE DEF s, f
  <2>3. Numbered(s) /\ Numbered(f)
    BY <2>1 DEF Numbered
  <2> QED
    BY <2>2, <2>3, NumberedInPlace
<1>4. ASSUME NEW h \in Handles, NEW budget \in Budgets, Resume(h, budget)
      PROVE  AllNumbered'
  BY <1>4, ResumeNumbered
<1>5. ASSUME NEW h \in Handles, LoopNext("loop", h) PROVE AllNumbered'
  <2>1. CASE handle' = [handle EXCEPT ![h] = Settle(handle[h])]
    <3> DEFINE q == Settle(handle[h])
    <3>1. q \in HandleType /\ q.got = handle[h].got /\ q.seq = handle[h].seq
      BY <1>0 DEF Settle, HandleType
    <3> HIDE DEF q
    <3> QED
      BY <1>0, <2>1, <3>1, QuietNumbered DEF q
  <2>2. CASE Resume(h, NoBudget)
    BY <2>2, ResumeNumbered, ProcessAssumption
  <2> QED
    BY <1>5, <2>1, <2>2 DEF LoopNext
<1>6. ASSUME NEW h \in Handles, PullYields(h) PROVE AllNumbered'
  BY <1>6, PullYieldsNumbered
<1>7. ASSUME NEW h \in Handles, PullEnds(h) \/ PullRaises(h) PROVE AllNumbered'
  <2>1. PICK status \in {"done", "failed"} : handle' = [handle EXCEPT ![h].status = status]
    BY <1>7 DEF PullEnds, PullRaises
  <2> DEFINE q == [handle[h] EXCEPT !.status = status]
  <2>2. q \in HandleType /\ q.got = handle[h].got /\ q.seq = handle[h].seq
    BY <1>0 DEF HandleType
  <2>3. handle' = [handle EXCEPT ![h] = q]
    BY <2>1
  <2> HIDE DEF q
  <2> QED
    BY <1>0, <2>2, <2>3, QuietNumbered
<1>8. ASSUME NEW h \in Handles, Consume(h) PROVE AllNumbered'
  <2> DEFINE n == IF handle[h].budget - 1 <= 0 THEN 1 ELSE 0
             b == handle[h].budget - 1
             m == Made(handle[h], n)
             q == [m EXCEPT !.budget = b]
  <2>1. n \in Nat /\ handle' = [handle EXCEPT ![h] = q]
    BY <1>8 DEF Consume
  <2>2. b \in Int
    BY <1>0, <1>8, Fields DEF Consume
  <2> HIDE DEF n, b
  <2>3. handle[h].seq + n \in Nat /\ handle[h].seq <= handle[h].seq + n
    BY <1>0, <2>1
  <2>4. m \in HandleType /\ m.got = handle[h].got /\ m.seq = handle[h].seq + n
    BY <1>0, <2>3 DEF Made, HandleType
  <2> HIDE DEF m
  <2>5. q \in HandleType /\ q.got = handle[h].got /\ handle[h].seq <= q.seq
    BY <2>2, <2>3, <2>4 DEF HandleType
  <2> HIDE DEF q
  <2> QED
    BY <2>1, <2>5, QuietNumbered
<1> QED
  BY <1>1, <1>2, <1>3, <1>4, <1>5, <1>6, <1>7, <1>8 DEF Next, UserNext, BodyNext

\* Callers see the events of an incremental region numbered in the order they
\* were made, those that resume() itself makes for an exhausted budget included.
THEOREM ProcessNumbers == Spec => []SeqsGrow
<1>1. Init => AllNumbered
  <2>1. Numbered(Unstarted)
    BY DEF Numbered, Unstarted
  <2> QED
    BY <2>1 DEF Init, AllNumbered
<1>2. HandleInv /\ AllNumbered /\ [Next]_processVars => AllNumbered'
  BY NextNumbered DEF processVars, AllNumbered
<1>3. AllNumbered => SeqsGrow
  BY DEF AllNumbered, Numbered, SeqsGrow
<1> QED
  BY <1>1, <1>2, <1>3, InitInv, StepKeeps, PTL DEF Spec
=============================================================================
