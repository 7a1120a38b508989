------------------------- MODULE LlblProcessProofs -------------------------
(* What every region's specification needs of process handles: the calls    *)
(* and pulls of LlblProcess preserve an invariant on handles and stack.     *)
EXTENDS LlblProcess, SequenceTheorems, TLAPS

HasResult(got) == \E k \in 1..Len(got) : got[k].kind = "result"

\* A handle's fields are typed, and what is left of its budget and what was
\* pulled on it do not exceed it; a region is pulled only below the budget.
RecordOK(r) ==
    /\ r \in HandleType
    /\ r.result <=> HasResult(r.got)
    /\ r.status = "none" => ~r.cancelled
    /\ r.granted # NoBudget =>
          /\ r.budget # NoBudget /\ r.budget + r.pulled <= r.granted
          /\ r.pulled = 0 \/ r.pulled <= r.granted
          /\ r.status = "running" => r.pulled < r.granted

Frames == [fn : {"pull", "loop", "run"}, h : Handles]
PulledIn(s, h) == \E k \in 1..Len(s) : s[k] = Frame("pull", h)
\* what is on the stack above a pull of h belongs to other handles
PullIsLast(s, h) ==
    \A j, k \in 1..Len(s) : s[j] = Frame("pull", h) /\ s[k].h = h => k <= j

\* The inductive invariant.
HandleInv ==
    /\ stack \in Seq(Frames)
    /\ handle \in [Handles -> HandleType]
    /\ \A h \in Handles :
          /\ RecordOK(handle[h])
          /\ handle[h].status = "running" <=> PulledIn(stack, h)
          /\ PullIsLast(stack, h)

\* What a call may not do to a handle that has ended, or is cancelled.
Keeps(old, new) ==
    /\ old.status \in {"done", "failed"} => new.status = old.status /\ new.got = old.got
    /\ old.cancelled /\ old.status # "running" =>
          new.got = old.got /\ new.status # "running"
AllKept == \A h \in Handles : Keeps(handle[h], handle'[h])

\* HandleInv says what the runs check.
LEMMA HandleInvImplies ==
    ASSUME HandleInv
    PROVE  HandlesOK /\ RunningIsPulled /\ BudgetIsKept /\ ResultWasDelivered
<1>1. HandlesOK
  BY DEF HandleInv, HandlesOK, Frames
<1>2. RunningIsPulled
  <2>1. \A h \in Handles : handle[h].status = "running" <=> Within("pull", h)
    BY DEF HandleInv, PulledIn, Within
  <2>2. ASSUME NEW h \in Handles, NEW j \in 1..Len(stack), NEW k \in 1..Len(stack),
               stack[j] = Frame("pull", h), stack[k] = Frame("pull", h)
        PROVE  j = k
    <3>1. stack[j].h = h /\ stack[k].h = h
      BY <2>2 DEF Frame
    <3>2. k <= j /\ j <= k
      BY <2>2, <3>1 DEF HandleInv, PullIsLast
    <3>3. Len(stack) \in Nat
      BY DEF HandleInv
    <3> QED
      BY <3>2, <3>3
  <2> QED
    BY <2>1, <2>2 DEF RunningIsPulled
<1>3. BudgetIsKept
  <2> SUFFICES ASSUME NEW h \in Handles, handle[h].granted # NoBudget
               PROVE  handle[h].pulled
                        <= (IF handle[h].granted < 0 THEN 0 ELSE handle[h].granted)
    BY DEF BudgetIsKept
  <2>1. handle[h].pulled \in Nat /\ handle[h].granted \in Int
    BY DEF HandleInv, RecordOK, HandleType
  <2>2. handle[h].pulled = 0 \/ handle[h].pulled <= handle[h].granted
    BY DEF HandleInv, RecordOK
  <2> QED
    BY <2>1, <2>2
<1>4. ResultWasDelivered
  BY DEF HandleInv, RecordOK, HasResult, ResultWasDelivered
<1> QED
  BY <1>1, <1>2, <1>3, <1>4

\* AllKept is what the action properties say of a step.
LEMMA AllKeptImplies ==
    ASSUME AllKept, NEW h \in Handles
    PROVE  /\ handle[h].status \in {"done", "failed"} =>
                 handle'[h].status = handle[h].status /\ handle'[h].got = handle[h].got
           /\ handle[h].cancelled /\ handle[h].status # "running" =>
                 handle'[h].got = handle[h].got /\ handle'[h].status # "running"
BY DEF AllKept, Keeps

-----------------------------------------------------------------------------
(* One handle                                                                *)

\* An event appended to those delivered.
LEMMA HasResultAppend ==
    ASSUME NEW got \in Seq(EventType), NEW ev \in EventType
    PROVE  HasResult(Append(got, ev)) <=> HasResult(got) \/ ev.kind = "result"
<1> DEFINE t == Append(got, ev)
<1>1. /\ Len(got) \in Nat /\ Len(t) = Len(got) + 1 /\ t[Len(got) + 1] = ev
      /\ \A k \in 1..Len(got) : t[k] = got[k]
  OBVIOUS
<1> HIDE DEF t
<1>2. \A k \in 1..Len(t) : k \in 1..Len(got) \/ k = Len(got) + 1
  BY <1>1
<1>3. (\A k \in 1..Len(got) : k \in 1..Len(t)) /\ Len(got) + 1 \in 1..Len(t)
  BY <1>1
<1>4. HasResult(t) <=> HasResult(got) \/ ev.kind = "result"
  BY <1>1, <1>2, <1>3 DEF HasResult
<1> QED
  BY <1>4 DEF t

\* The fields of a typed handle.
LEMMA Fields ==
    ASSUME NEW r \in HandleType
    PROVE  /\ r.status \in {"none", "ready", "running", "suspended", "done", "failed"}
           /\ r.budget \in Int \cup {NoBudget} /\ r.granted \in Int \cup {NoBudget}
           /\ r.cancelled \in BOOLEAN /\ r.result \in BOOLEAN
           /\ r.seq \in Nat /\ r.at \in Nat /\ r.pulled \in Nat
           /\ r.got \in Seq(EventType)
BY DEF HandleType

\* A new handle, before and after start().
LEMMA StartedOK ==
    ASSUME NEW budget \in Budgets
    PROVE  /\ RecordOK(Unstarted) /\ RecordOK(Started(budget))
           /\ Unstarted.status # "running" /\ Started(budget).status = "ready"
           /\ RecordOK([Started(budget) EXCEPT !.status = "failed"])
           /\ [Started(budget) EXCEPT !.status = "failed"].status = "failed"
<1> DEFINE s == Started(budget)
           f == [Started(budget) EXCEPT !.status = "failed"]
<1>1. budget \in Int \cup {NoBudget} /\ <<>> \in Seq(EventType)
  BY ProcessAssumption
<1>2. /\ Unstarted \in HandleType /\ Unstarted.status = "none" /\ Unstarted.granted = NoBudget
      /\ Unstarted.result = FALSE /\ Unstarted.got = <<>> /\ Unstarted.cancelled = FALSE
  BY <1>1 DEF HandleType, Unstarted
<1>3. /\ s \in HandleType /\ s.status = "ready" /\ s.pulled = 0
      /\ s.budget = budget /\ s.granted = budget /\ s.result = FALSE /\ s.got = <<>>
  BY <1>1, <1>2 DEF HandleType, Unstarted, Started
<1>4. /\ f \in HandleType /\ f.status = "failed" /\ f.pulled = 0
      /\ f.budget = budget /\ f.granted = budget /\ f.result = FALSE /\ f.got = <<>>
  <2> HIDE DEF s
  <2>1. f = [s EXCEPT !.status = "failed"]
    BY DEF s
  <2> QED
    BY <1>3, <2>1 DEF HandleType
<1>5. (budget # NoBudget => budget \in Int) /\ ~HasResult(<<>>)
  BY <1>1 DEF HasResult
<1> HIDE DEF s, f
<1>6. RecordOK(s) /\ RecordOK(f) /\ RecordOK(Unstarted)
  BY <1>2, <1>3, <1>4, <1>5 DEF RecordOK
<1> QED
  BY <1>2, <1>3, <1>4, <1>6 DEF s, f

\* A new budget starts a new account.
LEMMA RefreshedOK ==
    ASSUME NEW r, RecordOK(r), r.status # "running", NEW budget \in Budgets
    PROVE  /\ RecordOK(Refreshed(r, budget))
           /\ Refreshed(r, budget).status = r.status
           /\ Refreshed(r, budget).cancelled = r.cancelled
           /\ Refreshed(r, budget).got = r.got
<1>1. budget \in Int \cup {NoBudget}
  BY ProcessAssumption
<1>2. CASE budget = NoBudget
  BY <1>2 DEF Refreshed
<1>3. CASE budget # NoBudget
  <2>1. Refreshed(r, budget) = [r EXCEPT !.budget = budget, !.granted = budget, !.pulled = 0]
    BY <1>3 DEF Refreshed
  <2> DEFINE t == Refreshed(r, budget)
  <2>2. r \in HandleType
    BY DEF RecordOK
  <2> DEFINE t1 == [r EXCEPT !.budget = budget]
             t2 == [t1 EXCEPT !.granted = budget]
  <2>6. t = [t2 EXCEPT !.pulled = 0]
    BY <2>1
  <2>7. /\ t1 \in HandleType /\ t1.status = r.status /\ t1.cancelled = r.cancelled
        /\ t1.got = r.got /\ t1.budget = budget /\ t1.result = r.result
    BY <1>1, <2>2 DEF HandleType
  <2> HIDE DEF t1, t
  <2>8. /\ t2 \in HandleType /\ t2.status = r.status /\ t2.cancelled = r.cancelled
        /\ t2.got = r.got /\ t2.budget = budget /\ t2.granted = budget /\ t2.result = r.result
    BY <1>1, <2>7 DEF HandleType
  <2> HIDE DEF t2
  <2>3. /\ t \in HandleType /\ t.status = r.status /\ t.cancelled = r.cancelled
        /\ t.got = r.got /\ t.budget = budget /\ t.granted = budget /\ t.pulled = 0
        /\ t.result = r.result
    BY <2>6, <2>8 DEF HandleType
  <2>4. budget \in Int
    BY <1>1, <1>3
  <2>9. r.result <=> HasResult(r.got)
    BY DEF RecordOK
  <2>5. RecordOK(t)
    BY <1>3, <2>3, <2>4, <2>9 DEF RecordOK
  <2> QED
    BY <2>3, <2>5 DEF t
<1> QED
  BY <1>2, <1>3

\* Ending, starving, running and cancelling keep the account.
LEMMA SettleOK ==
    ASSUME NEW r, RecordOK(r), r.status # "running"
    PROVE  /\ RecordOK(Settle(r)) /\ Settle(r).status # "running" /\ Settle(r).got = r.got
           /\ r.status \in {"done", "failed"} => Settle(r).status = r.status
BY DEF RecordOK, HandleType, Settle

LEMMA StoppedOK ==
    ASSUME NEW r, RecordOK(r), NEW status \in {"done", "failed"}
    PROVE  /\ RecordOK([r EXCEPT !.status = status])
           /\ [r EXCEPT !.status = status].status = status
BY DEF RecordOK, HandleType

LEMMA MadeOK ==
    ASSUME NEW r, RecordOK(r), NEW n \in Nat
    PROVE  /\ RecordOK(Made(r, n)) /\ Made(r, n).status = r.status
           /\ Made(r, n).got = r.got /\ Made(r, n).budget = r.budget
<1>1. r.seq + n \in Nat
  BY DEF RecordOK, HandleType
<1> QED
  BY <1>1 DEF RecordOK, HandleType, Made

LEMMA EventOK ==
    ASSUME NEW r, RecordOK(r), NEW kind \in EventKind
    PROVE  NextEvent(r, kind) \in EventType
<1>1. r.seq + 1 \in Nat
  BY DEF RecordOK, HandleType
<1> QED
  BY <1>1 DEF NextEvent, EventType

LEMMA StarvedOK ==
    ASSUME NEW r, RecordOK(r)
    PROVE  RecordOK(Starved(r)) /\ Starved(r).status = "suspended"
<1>1. NextEvent(r, "budget_exhausted") \in EventType
  <2>1. r.seq + 1 \in Nat
    BY DEF RecordOK, HandleType
  <2> QED
    BY <2>1 DEF NextEvent, EventType, EventKind
<1>2. Append(r.got, NextEvent(r, "budget_exhausted")) \in Seq(EventType)
  BY <1>1 DEF RecordOK, HandleType
<1> DEFINE m == Made(r, 1)
           s == Starved(r)
<1>3. RecordOK(m)
  BY MadeOK
<1>4. m \in HandleType
  BY <1>3 DEF RecordOK
<1> HIDE DEF m
<1>5. s = [m EXCEPT !.status = "suspended",
                    !.got = Append(r.got, NextEvent(r, "budget_exhausted"))]
  BY DEF Starved, m
<1>6. /\ s \in HandleType /\ s.status = "suspended" /\ s.budget = m.budget
      /\ s.granted = m.granted /\ s.pulled = m.pulled /\ s.result = m.result
      /\ s.got = Append(r.got, NextEvent(r, "budget_exhausted"))
  BY <1>2, <1>4, <1>5 DEF HandleType
<1>7. m.got = r.got
  BY MadeOK DEF m
<1>8. NextEvent(r, "budget_exhausted").kind # "result" /\ r.got \in Seq(EventType)
  BY DEF NextEvent, RecordOK, HandleType
<1>9. HasResult(s.got) <=> HasResult(m.got)
  BY <1>1, <1>6, <1>7, <1>8, HasResultAppend
<1> HIDE DEF s
<1>10. RecordOK(s)
  BY <1>3, <1>6, <1>9 DEF RecordOK
<1> QED
  BY <1>6, <1>10 DEF s

LEMMA RunningOK ==
    ASSUME NEW r, RecordOK(r), ~Exhausted(r)
    PROVE  RecordOK(Running(r)) /\ Running(r).status = "running" /\ Running(r).got = r.got
<1>1. r.granted # NoBudget => r.pulled < r.granted
  <2> SUFFICES ASSUME r.granted # NoBudget PROVE r.pulled < r.granted
    OBVIOUS
  <2>1. r.budget # NoBudget /\ r.budget + r.pulled <= r.granted /\ ~(r.budget <= 0)
    BY DEF RecordOK, Exhausted
  <2>2. r.budget \in Int /\ r.granted \in Int /\ r.pulled \in Nat
    BY <2>1 DEF RecordOK, HandleType
  <2> QED
    BY <2>1, <2>2
<1> QED
  BY <1>1 DEF RecordOK, HandleType, Running

LEMMA CancelledOK ==
    ASSUME NEW r, RecordOK(r), r.status # "none"
    PROVE  /\ RecordOK([r EXCEPT !.cancelled = TRUE])
           /\ [r EXCEPT !.cancelled = TRUE].status = r.status
           /\ [r EXCEPT !.cancelled = TRUE].got = r.got
BY DEF RecordOK, HandleType

\* ctx:consume(n) lowers what is left of the budget.
LEMMA ConsumedOK ==
    ASSUME NEW r, RecordOK(r), r.budget # NoBudget, NEW n \in Nat
    PROVE  /\ RecordOK([r EXCEPT !.budget = r.budget - n])
           /\ [r EXCEPT !.budget = r.budget - n].status = r.status
<1> DEFINE b == r.budget - n
           c == [r EXCEPT !.budget = b]
<1>1. r \in HandleType
  BY DEF RecordOK
<1>2. r.budget \in Int /\ r.pulled \in Nat /\ r.granted \in Int \cup {NoBudget}
  BY <1>1, Fields
<1>3. b \in Int /\ b # NoBudget /\ b <= r.budget
  BY <1>2, ProcessAssumption
<1> HIDE DEF b
<1>4. /\ c \in HandleType /\ c.status = r.status /\ c.budget = b /\ c.granted = r.granted
      /\ c.pulled = r.pulled /\ c.got = r.got /\ c.result = r.result
      /\ c.cancelled = r.cancelled
  BY <1>1, <1>3 DEF HandleType
<1>5. ASSUME r.granted # NoBudget PROVE b + r.pulled <= r.granted
  <2>1. r.budget + r.pulled <= r.granted /\ r.granted \in Int
    BY <1>2, <1>5 DEF RecordOK
  <2> QED
    BY <1>2, <1>3, <2>1
<1> HIDE DEF c
<1>6. RecordOK(c) /\ c.status = r.status
  BY <1>3, <1>4, <1>5 DEF RecordOK
<1> QED
  BY <1>6 DEF c, b

\* A pull adds one to what was pulled and takes one from what is left.
LEMMA YieldedOK ==
    ASSUME NEW r, RecordOK(r), r.status = "running", NEW ev \in EventType
    PROVE  RecordOK(Yielded(r, ev)) /\ Yielded(r, ev).status = "suspended"
<1> DEFINE y == Yielded(r, ev)
<1>1. r \in HandleType
  BY DEF RecordOK
<1>2. Append(r.got, ev) \in Seq(EventType) /\ r.at + 1 \in Nat /\ r.pulled + 1 \in Nat
  BY <1>1, Fields
<1>3. Spent(r) \in Int \cup {NoBudget}
  BY <1>1, Fields DEF Spent
<1>4. (r.result \/ ev.kind = "result") \in BOOLEAN
  OBVIOUS
<1>5. /\ y \in HandleType /\ y.status = "suspended" /\ y.granted = r.granted
      /\ y.pulled = r.pulled + 1 /\ y.budget = Spent(r)
      /\ y.got = Append(r.got, ev) /\ y.result = (r.result \/ ev.kind = "result")
  BY <1>1, <1>2, <1>3, <1>4 DEF HandleType, Yielded
<1>6. ASSUME r.granted # NoBudget
      PROVE  /\ y.budget # NoBudget /\ y.budget + y.pulled <= y.granted
             /\ y.pulled = 0 \/ y.pulled <= y.granted
  <2>1. r.budget # NoBudget /\ r.budget + r.pulled <= r.granted /\ r.pulled < r.granted
    BY <1>6 DEF RecordOK
  <2>2. r.budget \in Int /\ r.granted \in Int /\ r.pulled \in Nat
    BY <1>1, <1>6, <2>1, Fields
  <2>3. Spent(r) = r.budget - 1 /\ Spent(r) # NoBudget
    BY <2>1, <2>2, ProcessAssumption DEF Spent
  <2> QED
    BY <1>5, <2>1, <2>2, <2>3
<1>7. y.result <=> HasResult(y.got)
  BY <1>1, <1>5, Fields, HasResultAppend DEF RecordOK
<1> QED
  BY <1>5, <1>6, <1>7 DEF RecordOK

-----------------------------------------------------------------------------
(* The stack                                                                 *)

\* A pull or a loop pushed on the stack.
LEMMA Pushed ==
    ASSUME NEW s \in Seq(Frames), NEW f \in Frames, NEW h \in Handles
    PROVE  /\ Append(s, f) \in Seq(Frames)
           /\ PulledIn(Append(s, f), h) <=> PulledIn(s, h) \/ f = Frame("pull", h)
           /\ PullIsLast(s, h) /\ (f.h = h => ~PulledIn(s, h))
                 => PullIsLast(Append(s, f), h)
<1> DEFINE t == Append(s, f)
<1>1. /\ t \in Seq(Frames) /\ Len(s) \in Nat /\ Len(t) = Len(s) + 1 /\ t[Len(s) + 1] = f
      /\ \A k \in 1..Len(s) : t[k] = s[k]
  OBVIOUS
<1> HIDE DEF t
<1>2. \A k \in 1..Len(t) : k \in 1..Len(s) \/ k = Len(s) + 1
  BY <1>1
<1>3. \A k \in 1..Len(s) : k \in 1..Len(t)
  BY <1>1
<1>4. Len(s) + 1 \in 1..Len(t)
  BY <1>1
<1>5. PulledIn(t, h) <=> PulledIn(s, h) \/ f = Frame("pull", h)
  BY <1>1, <1>2, <1>3, <1>4 DEF PulledIn
<1>6. ASSUME PullIsLast(s, h), f.h = h => ~PulledIn(s, h)
      PROVE  PullIsLast(t, h)
  <2> SUFFICES ASSUME NEW j \in 1..Len(t), NEW k \in 1..Len(t),
                      t[j] = Frame("pull", h), t[k].h = h
               PROVE  k <= j
    BY DEF PullIsLast
  <2>1. CASE j = Len(s) + 1
    BY <1>1, <2>1
  <2>2. CASE j \in 1..Len(s) /\ k \in 1..Len(s)
    BY <1>1, <1>6, <2>2 DEF PullIsLast
  <2>3. CASE j \in 1..Len(s) /\ k = Len(s) + 1
    BY <1>1, <1>6, <2>3 DEF PulledIn
  <2> QED
    BY <1>2, <2>1, <2>2, <2>3
<1> QED
  BY <1>1, <1>5, <1>6 DEF t

\* The innermost pull or loop popped off it.
LEMMA Popped ==
    ASSUME NEW s \in Seq(Frames), s # <<>>, NEW h \in Handles, PullIsLast(s, h)
    PROVE  /\ SubSeq(s, 1, Len(s) - 1) \in Seq(Frames)
           /\ PullIsLast(SubSeq(s, 1, Len(s) - 1), h)
           /\ PulledIn(SubSeq(s, 1, Len(s) - 1), h)
                 <=> PulledIn(s, h) /\ s[Len(s)] # Frame("pull", h)
<1> DEFINE t == SubSeq(s, 1, Len(s) - 1)
<1>1. Len(s) \in Nat /\ Len(s) > 0
  OBVIOUS
<1>2. /\ t \in Seq(Frames) /\ Len(t) = Len(s) - 1
      /\ \A k \in 1..Len(t) : t[k] = s[k]
  <2>1. \A k \in 1..(Len(s) - 1) : s[k] \in Frames
    BY <1>1
  <2>2. /\ t \in Seq(Frames)
        /\ Len(t) = IF 1 <= Len(s) - 1 THEN (Len(s) - 1) - 1 + 1 ELSE 0
        /\ \A k \in 1..((Len(s) - 1) - 1 + 1) : t[k] = s[1 + k - 1]
    <3>1. 1 \in Int /\ Len(s) - 1 \in Int
      BY <1>1
    <3> QED
      BY ONLY <2>1, <3>1, SubSeqProperties
  <2> HIDE DEF t
  <2>3. Len(t) = Len(s) - 1
    <3>1. \A n \in Nat : n > 0 => (IF 1 <= n - 1 THEN (n - 1) - 1 + 1 ELSE 0) = n - 1
      BY ONLY TRUE
    <3> QED
      BY <1>1, <2>2, <3>1, Zenon
  <2>4. ASSUME NEW k \in 1..Len(t) PROVE t[k] = s[k]
    <3>1. k \in 1..((Len(s) - 1) - 1 + 1) /\ 1 + k - 1 = k
      BY <1>1, <2>3
    <3> QED
      BY <2>2, <3>1
  <2> QED
    BY <2>2, <2>3, <2>4
<1> HIDE DEF t
<1>3. \A k \in 1..Len(s) : k \in 1..Len(t) \/ k = Len(s)
  BY <1>1, <1>2
<1>4. \A k \in 1..Len(t) : k \in 1..Len(s) /\ k # Len(s)
  BY <1>1, <1>2
<1>5. Len(s) \in 1..Len(s)
  BY <1>1
<1>6. PullIsLast(t, h)
  BY <1>2, <1>4 DEF PullIsLast
<1>7. PulledIn(t, h) <=> PulledIn(s, h) /\ s[Len(s)] # Frame("pull", h)
  <2>1. ASSUME PulledIn(s, h), s[Len(s)] # Frame("pull", h) PROVE PulledIn(t, h)
    BY <1>2, <1>3, <2>1 DEF PulledIn
  <2>2. ASSUME PulledIn(t, h) PROVE PulledIn(s, h)
    BY <1>2, <1>4, <2>2 DEF PulledIn
  <2>3. ASSUME NEW j \in 1..Len(t), t[j] = Frame("pull", h), s[Len(s)] = Frame("pull", h)
        PROVE  FALSE
    <3>1. s[Len(s)].h = h /\ s[j] = Frame("pull", h)
      BY <1>2, <2>3 DEF Frame
    <3>2. Len(s) <= j
      BY <1>4, <1>5, <3>1 DEF PullIsLast
    <3> QED
      BY <1>1, <1>2, <3>2
  <2> QED
    BY <2>1, <2>2, <2>3 DEF PulledIn
<1> QED
  BY <1>2, <1>6, <1>7 DEF t

\* Frames of different functions, or of different handles, differ.
LEMMA FramesDiffer ==
    ASSUME NEW f, NEW g, NEW h, NEW i, Frame(f, h) = Frame(g, i)
    PROVE  f = g /\ h = i
<1>1. Frame(f, h).fn = f /\ Frame(f, h).h = h
  BY DEF Frame
<1>2. Frame(g, i).fn = g /\ Frame(g, i).h = i
  BY DEF Frame
<1> QED
  BY <1>1, <1>2

-----------------------------------------------------------------------------
(* The actions                                                               *)

\* What an action does to handle and stack that preserves HandleInv: it puts
\* a good record in the place of one handle's, and the stack follows it.
LEMMA KeepsInv ==
    ASSUME HandleInv, NEW h \in Handles, NEW r, RecordOK(r), Keeps(handle[h], r),
           handle' = [handle EXCEPT ![h] = r],
           stack' \in Seq(Frames),
           \A i \in Handles : PullIsLast(stack', i),
           \A i \in Handles \ {h} : PulledIn(stack', i) <=> PulledIn(stack, i),
           r.status = "running" <=> PulledIn(stack', h)
    PROVE  HandleInv' /\ AllKept
<1>1. r \in HandleType
  BY DEF RecordOK
<1>2. handle' \in [Handles -> HandleType]
  BY <1>1 DEF HandleInv
<1>3. handle'[h] = r /\ \A i \in Handles \ {h} : handle'[i] = handle[i]
  BY DEF HandleInv
<1>4. ASSUME NEW i \in Handles
      PROVE  RecordOK(handle'[i]) /\ (handle'[i].status = "running" <=> PulledIn(stack', i))
  <2>1. CASE i = h
    BY <1>3, <2>1
  <2>2. CASE i # h
    <3>1. RecordOK(handle[i]) /\ (handle[i].status = "running" <=> PulledIn(stack, i))
      BY DEF HandleInv
    <3> QED
      BY <1>3, <2>2, <3>1
  <2> QED
    BY <2>1, <2>2
<1>5. AllKept
  <2> SUFFICES ASSUME NEW i \in Handles PROVE Keeps(handle[i], handle'[i])
    BY DEF AllKept
  <2>1. CASE i = h
    BY <1>3, <2>1
  <2>2. CASE i # h
    BY <1>3, <2>2 DEF Keeps
  <2> QED
    BY <2>1, <2>2
<1> QED
  BY <1>2, <1>4, <1>5 DEF HandleInv

\* The three ways a record is replaced: with the stack as it is, ...
LEMMA InPlace ==
    ASSUME HandleInv, NEW h \in Handles, NEW r, RecordOK(r), Keeps(handle[h], r),
           handle' = [handle EXCEPT ![h] = r], UNCHANGED stack,
           r.status = "running" <=> handle[h].status = "running"
    PROVE  HandleInv' /\ AllKept
<1>1. /\ stack' \in Seq(Frames)
      /\ \A i \in Handles : PullIsLast(stack', i)
      /\ \A i \in Handles : PulledIn(stack', i) <=> PulledIn(stack, i)
  BY DEF HandleInv
<1>2. r.status = "running" <=> PulledIn(stack', h)
  BY <1>1 DEF HandleInv
<1> QED
  BY <1>1, <1>2, KeepsInv

\* ... with a frame pushed, ...
LEMMA OnPush ==
    ASSUME HandleInv, NEW h \in Handles, NEW r, RecordOK(r), Keeps(handle[h], r),
           handle' = [handle EXCEPT ![h] = r],
           NEW fn \in {"pull", "loop", "run"}, Push(Frame(fn, h)),
           handle[h].status # "running", r.status = "running" <=> fn = "pull"
    PROVE  HandleInv' /\ AllKept
<1> DEFINE f == Frame(fn, h)
<1>1. f \in Frames /\ stack' = Append(stack, f) /\ stack \in Seq(Frames)
  BY DEF Frames, Frame, Push, HandleInv
<1>2. f.h = h /\ \A i \in Handles : f = Frame("pull", i) <=> fn = "pull" /\ i = h
  BY FramesDiffer DEF Frame
<1> HIDE DEF f
<1>3. ASSUME NEW i \in Handles
      PROVE  /\ stack' \in Seq(Frames)
             /\ PulledIn(stack', i) <=> PulledIn(stack, i) \/ (fn = "pull" /\ i = h)
             /\ PullIsLast(stack', i)
  <2>1. PullIsLast(stack, i) /\ (f.h = i => ~PulledIn(stack, i))
    BY <1>2 DEF HandleInv
  <2> QED
    BY <1>1, <1>2, <2>1, Pushed
<1>4. r.status = "running" <=> PulledIn(stack', h)
  BY <1>3 DEF HandleInv
<1> QED
  BY <1>3, <1>4, KeepsInv

\* ... and with the innermost frame, the handle's own, popped.
LEMMA OnPop ==
    ASSUME HandleInv, NEW h \in Handles, NEW r, RecordOK(r), Keeps(handle[h], r),
           handle' = [handle EXCEPT ![h] = r],
           NEW fn \in {"pull", "loop", "run"}, OnTop(fn, h), Pop,
           r.status = "running" <=> fn # "pull" /\ handle[h].status = "running"
    PROVE  HandleInv' /\ AllKept
<1>1. stack \in Seq(Frames) /\ stack # <<>> /\ stack[Len(stack)] = Frame(fn, h)
  BY DEF HandleInv, OnTop, Top
<1>2. \A i \in Handles : Frame(fn, h) = Frame("pull", i) <=> fn = "pull" /\ i = h
  BY FramesDiffer
<1>3. ASSUME NEW i \in Handles
      PROVE  /\ stack' \in Seq(Frames)
             /\ PulledIn(stack', i) <=> PulledIn(stack, i) /\ ~(fn = "pull" /\ i = h)
             /\ PullIsLast(stack', i)
  <2>1. PullIsLast(stack, i)
    BY DEF HandleInv
  <2> QED
    BY <1>1, <1>2, <2>1, Popped DEF Pop
<1>4. r.status = "running" <=> PulledIn(stack', h)
  BY <1>3 DEF HandleInv
<1> QED
  BY <1>3, <1>4, KeepsInv

\* What is on top is on the stack.
LEMMA TopIsRunning ==
    ASSUME HandleInv, NEW h \in Handles
    PROVE  /\ Within("pull", h) <=> handle[h].status = "running"
           /\ OnTop("pull", h) => handle[h].status = "running"
           /\ OnTop("loop", h) \/ OnTop("run", h) => handle[h].status # "running"
<1>1. Within("pull", h) <=> handle[h].status = "running"
  BY DEF HandleInv, PulledIn, Within
<1>2. OnTop("pull", h) => PulledIn(stack, h)
  <2> SUFFICES ASSUME OnTop("pull", h) PROVE PulledIn(stack, h)
    OBVIOUS
  <2>1. Len(stack) \in 1..Len(stack)
    BY DEF HandleInv, OnTop
  <2> QED
    BY <2>1 DEF OnTop, Top, PulledIn
<1>3. ASSUME NEW fn \in {"loop", "run"}, OnTop(fn, h) PROVE ~PulledIn(stack, h)
  <2> SUFFICES ASSUME NEW j \in 1..Len(stack), stack[j] = Frame("pull", h) PROVE FALSE
    BY DEF PulledIn
  <2>1. Len(stack) \in Nat /\ Len(stack) \in 1..Len(stack)
    BY <1>3 DEF HandleInv, OnTop
  <2>2. stack[Len(stack)].h = h /\ stack[Len(stack)].fn = fn
    BY <1>3 DEF OnTop, Top, Frame
  <2>3. Len(stack) <= j
    BY <2>1, <2>2 DEF HandleInv, PullIsLast
  <2>4. stack[Len(stack)] = Frame("pull", h)
    BY <2>1, <2>3
  <2> QED
    BY <2>2, <2>4 DEF Frame
<1> QED
  BY <1>1, <1>2, <1>3 DEF HandleInv

-----------------------------------------------------------------------------
(* The calls and pulls                                                       *)

\* handle:resume(opts) keeps the promises to a handle that has ended or is
\* cancelled, whatever it does.
LEMMA ResumeKeeps ==
    ASSUME HandleInv, NEW h \in Handles, NEW budget \in Budgets, Resume(h, budget)
    PROVE  HandleInv' /\ AllKept
<1> DEFINE r == Refreshed(handle[h], budget)
<1>1. RecordOK(handle[h]) /\ handle[h].status # "running"
  BY TopIsRunning DEF HandleInv, Resume
<1>2. /\ RecordOK(r) /\ r.status = handle[h].status
      /\ r.cancelled = handle[h].cancelled /\ r.got = handle[h].got
  BY <1>1, RefreshedOK
<1>3. \/ /\ Settled(r) /\ handle' = [handle EXCEPT ![h] = Settle(r)] /\ UNCHANGED stack
      \/ /\ ~Settled(r) /\ handle' = [handle EXCEPT ![h] = Starved(r)] /\ UNCHANGED stack
      \/ /\ ~Settled(r) /\ ~Exhausted(r) /\ handle' = [handle EXCEPT ![h] = Running(r)]
         /\ Push(Frame("pull", h))
  BY DEF Resume
<1> HIDE DEF r
<1>4. CASE Settled(r) /\ handle' = [handle EXCEPT ![h] = Settle(r)] /\ UNCHANGED stack
  <2> DEFINE q == Settle(r)
  <2>1. /\ RecordOK(q) /\ q.status # "running" /\ q.got = r.got
        /\ r.status \in {"done", "failed"} => q.status = r.status
    BY <1>1, <1>2, SettleOK
  <2> HIDE DEF q
  <2>2. Keeps(handle[h], q)
    BY <1>2, <2>1 DEF Keeps
  <2> QED
    BY <1>1, <1>4, <2>1, <2>2, InPlace DEF q
<1>5. CASE ~Settled(r) /\ handle' = [handle EXCEPT ![h] = Starved(r)] /\ UNCHANGED stack
  <2> DEFINE q == Starved(r)
  <2>1. RecordOK(q) /\ q.status # "running"
    BY <1>2, StarvedOK
  <2> HIDE DEF q
  <2>2. Keeps(handle[h], q)
    BY <1>2, <1>5 DEF Keeps, Settled
  <2> QED
    BY <1>1, <1>5, <2>1, <2>2, InPlace DEF q
<1>6. CASE /\ ~Settled(r) /\ ~Exhausted(r)
           /\ handle' = [handle EXCEPT ![h] = Running(r)]
           /\ Push(Frame("pull", h))
  <2> DEFINE q == Running(r)
  <2>1. RecordOK(q) /\ q.status = "running"
    BY <1>2, <1>6, RunningOK
  <2> HIDE DEF q
  <2>2. Keeps(handle[h], q)
    BY <1>2, <1>6 DEF Keeps, Settled
  <2> QED
    BY <1>1, <1>6, <2>1, <2>2, OnPush DEF q
<1> QED
  BY <1>3, <1>4, <1>5, <1>6

\* handle:cancel() changes no status and delivers nothing.
LEMMA CancelKeeps ==
    ASSUME HandleInv, NEW h \in Handles, Cancel(h)
    PROVE  HandleInv' /\ AllKept
<1> DEFINE r == [handle[h] EXCEPT !.cancelled = TRUE]
<1>1. RecordOK(handle[h]) /\ handle[h].status # "none"
  BY DEF HandleInv, Cancel
<1>2. RecordOK(r) /\ r.status = handle[h].status /\ r.got = handle[h].got
  BY <1>1, CancelledOK
<1>3. handle' = [handle EXCEPT ![h] = r] /\ UNCHANGED stack
  BY DEF Cancel
<1> HIDE DEF r
<1>4. Keeps(handle[h], r)
  BY <1>2 DEF Keeps
<1> QED
  BY <1>2, <1>3, <1>4, InPlace

\* A loop's next call, or its end.
LEMMA LoopNextKeeps ==
    ASSUME HandleInv, NEW h \in Handles, NEW fn \in {"loop", "run"}, LoopNext(fn, h)
    PROVE  HandleInv' /\ AllKept
<1>1. CASE /\ Settled(handle[h])
           /\ handle' = [handle EXCEPT ![h] = Settle(handle[h])]
           /\ Pop
  <2> DEFINE r == handle[h]
             q == Settle(handle[h])
  <2>1. RecordOK(r) /\ r.status # "running" /\ OnTop(fn, h)
    BY TopIsRunning DEF HandleInv, LoopNext
  <2>2. /\ RecordOK(q) /\ q.status # "running" /\ q.got = r.got
        /\ r.status \in {"done", "failed"} => q.status = r.status
    BY <2>1, SettleOK
  <2> HIDE DEF q
  <2>3. Keeps(r, q)
    BY <2>2 DEF Keeps
  <2> QED
    BY <1>1, <2>1, <2>2, <2>3, OnPop DEF q
<1>2. CASE Resume(h, NoBudget)
  BY <1>2, ResumeKeeps, ProcessAssumption
<1> QED
  BY <1>1, <1>2 DEF LoopNext

\* A pull that ends the handle, either way.
LEMMA PullStopsKeeps ==
    ASSUME HandleInv, NEW h \in Handles, PullEnds(h) \/ PullRaises(h)
    PROVE  HandleInv' /\ AllKept
<1>1. RecordOK(handle[h]) /\ OnTop("pull", h) /\ handle[h].status = "running"
  BY TopIsRunning DEF HandleInv, PullEnds, PullRaises
<1>2. ASSUME NEW status \in {"done", "failed"},
             handle' = [handle EXCEPT ![h].status = status], Pop
      PROVE  HandleInv' /\ AllKept
  <2> DEFINE q == [handle[h] EXCEPT !.status = status]
  <2>1. RecordOK(q) /\ q.status = status
    BY <1>1, StoppedOK
  <2>2. handle' = [handle EXCEPT ![h] = q]
    BY <1>2
  <2> HIDE DEF q
  <2>3. Keeps(handle[h], q) /\ status # "running"
    BY <1>1 DEF Keeps
  <2> QED
    BY <1>1, <1>2, <2>1, <2>2, <2>3, OnPop
<1>3. PullEnds(h) => handle' = [handle EXCEPT ![h].status = "done"] /\ Pop
  BY DEF PullEnds
<1>4. PullRaises(h) => handle' = [handle EXCEPT ![h].status = "failed"] /\ Pop
  BY DEF PullRaises
<1> QED
  BY <1>2, <1>3, <1>4

\* A pull that yields an event, the body having made n more on the way.
LEMMA YieldKeeps ==
    ASSUME HandleInv, NEW h \in Handles, OnTop("pull", h), NEW n \in Nat,
           NEW ev \in EventType,
           handle' = [handle EXCEPT ![h] = Yielded(Made(handle[h], n), ev)], Pop
    PROVE  HandleInv' /\ AllKept
<1> DEFINE q == Yielded(Made(handle[h], n), ev)
<1>1. RecordOK(handle[h]) /\ handle[h].status = "running"
  BY TopIsRunning DEF HandleInv
<1>2. RecordOK(Made(handle[h], n)) /\ Made(handle[h], n).status = "running"
  BY <1>1, MadeOK
<1>3. RecordOK(q) /\ q.status = "suspended"
  BY <1>2, YieldedOK
<1>4. handle' = [handle EXCEPT ![h] = q]
  OBVIOUS
<1> HIDE DEF q
<1>5. Keeps(handle[h], q)
  BY <1>1 DEF Keeps
<1> QED
  BY <1>1, <1>3, <1>4, <1>5, OnPop

\* Events that the body makes while the handle is pulled, and keeps.
LEMMA MadeKeeps ==
    ASSUME HandleInv, NEW h \in Handles, OnTop("pull", h), NEW n \in Nat,
           handle' = [handle EXCEPT ![h] = Made(handle[h], n)], UNCHANGED stack
    PROVE  HandleInv' /\ AllKept
<1> DEFINE q == Made(handle[h], n)
<1>1. RecordOK(handle[h]) /\ handle[h].status = "running"
  BY TopIsRunning DEF HandleInv
<1>2. RecordOK(q) /\ q.status = "running"
  BY <1>1, MadeOK
<1>3. handle' = [handle EXCEPT ![h] = q]
  OBVIOUS
<1> HIDE DEF q
<1>4. Keeps(handle[h], q)
  BY <1>1 DEF Keeps
<1> QED
  BY <1>1, <1>2, <1>3, <1>4, InPlace
=============================================================================
