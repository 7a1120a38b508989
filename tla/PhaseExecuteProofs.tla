------------------------- MODULE PhaseExecuteProofs -------------------------
(* What every execution of a plan keeps, for any plans, implementations,     *)
(* budgets and nesting.  The invariant PlanInv is that of LlblProcessProofs   *)
(* on handles and stack, and for each handle: StepsOK, where the loop over    *)
(* the steps is and what it has reported; Log, which of the events made are   *)
(* told and how all are numbered; and Played, where the result event is.      *)
EXTENDS PhaseExecute, LlblProcessProofs

-----------------------------------------------------------------------------
(* Events                                                                    *)

\* The events of an execution made so far, e, of which its caller was given the
\* first `at` ones among the events got, when `seq` numbers have been handed out.
IsTold(ev) == ev.kind # "budget_exhausted"
NumbersUpTo(got, seq, e) ==
    /\ \A i \in 1..Len(e) : IsTold(e[i]) /\ e[i].seq <= seq
    /\ \A i, j \in 1..Len(e) : i < j => e[i].seq < e[j].seq
    /\ \A k \in 1..Len(got) : got[k].seq <= seq
ToldUpTo(got, at, e) ==
    /\ at <= Len(e)
    /\ \A k \in 1..Len(got) : IsTold(got[k]) => \E i \in 1..at : got[k] = e[i]
    /\ \A i \in 1..at : \E k \in 1..Len(got) : got[k] = e[i]
OthersApart(got, e) ==
    \A k \in 1..Len(got) : ~IsTold(got[k]) => \A i \in 1..Len(e) : e[i].seq # got[k].seq
InOrderOnce(got) ==
    /\ \A j, k \in 1..Len(got) :
          IsTold(got[j]) /\ IsTold(got[k]) /\ j < k => got[j].seq < got[k].seq
    /\ \A j, k \in 1..Len(got) : got[j].seq = got[k].seq => j = k
Log(got, at, seq, e) ==
    /\ NumbersUpTo(got, seq, e)
    /\ ToldUpTo(got, at, e)
    /\ OthersApart(got, e)
    /\ InOrderOnce(got)

\* Every event has a number.
LEMMA SeqsAreNat ==
    ASSUME NEW got \in Seq(EventType)
    PROVE  Len(got) \in Nat /\ \A k \in 1..Len(got) : got[k] \in EventType /\ got[k].seq \in Nat
<1>1. Len(got) \in Nat /\ \A k \in 1..Len(got) : got[k] \in EventType
  OBVIOUS
<1>2. \A ev \in EventType : ev.seq \in Nat
  BY DEF EventType
<1> QED
  BY <1>1, <1>2

\* What Append does, index by index.
LEMMA Appended ==
    ASSUME NEW S, NEW s \in Seq(S), NEW a \in S
    PROVE  /\ Append(s, a) \in Seq(S) /\ Len(s) \in Nat
           /\ Len(Append(s, a)) = Len(s) + 1 /\ Append(s, a)[Len(s) + 1] = a
           /\ \A k \in 1..Len(s) : Append(s, a)[k] = s[k] /\ k \in 1..(Len(s) + 1)
           /\ \A k \in 1..(Len(s) + 1) : k \in 1..Len(s) \/ k = Len(s) + 1
           /\ Len(s) + 1 \in 1..(Len(s) + 1)
OBVIOUS

\* Nothing made, nothing told.
LEMMA LogEmpty == \A seq \in Nat : Log(<<>>, 0, seq, <<>>)
BY DEF Log, NumbersUpTo, ToldUpTo, OthersApart, InOrderOnce

\* New events, numbered after all others.
LEMMA LogMade ==
    ASSUME NEW got \in Seq(EventType), NEW at \in Nat, NEW seq \in Nat,
           NEW e \in Seq(EventType), Log(got, at, seq, e),
           NEW m \in Seq(EventType),
           \A k \in 1..Len(m) : IsTold(m[k]) /\ m[k].seq = seq + k
    PROVE  Log(got, at, seq + Len(m), e \o m)
<1> DEFINE t == e \o m
           n == Len(e)
           new == seq + Len(m)
<1>1. /\ t \in Seq(EventType) /\ Len(t) = n + Len(m) /\ n \in Nat /\ Len(m) \in Nat
      /\ \A i \in 1..(n + Len(m)) : t[i] = IF i <= n THEN e[i] ELSE m[i - n]
  BY ConcatProperties
<1> HIDE DEF t
<1>2. \A i \in 1..n : t[i] = e[i] /\ i \in 1..Len(t)
  BY <1>1
<1>3. \A i \in 1..Len(t) : i \in 1..n \/ (i - n \in 1..Len(m) /\ t[i] = m[i - n] /\ i > n)
  BY <1>1
<1>4. /\ \A k \in 1..Len(got) : got[k].seq \in Nat
      /\ \A i \in 1..n : e[i].seq \in Nat
  BY SeqsAreNat
<1>5. \A i \in 1..n : IsTold(e[i]) /\ e[i].seq <= seq
  BY DEF Log, NumbersUpTo
<1>6. \A k \in 1..Len(got) : got[k].seq <= seq
  BY DEF Log, NumbersUpTo
<1>7. new \in Nat /\ seq <= new
  BY <1>1
<1>8. ASSUME NEW i \in 1..Len(t) PROVE IsTold(t[i]) /\ t[i].seq <= new
  <2>1. CASE i \in 1..n
    <3>1. t[i] = e[i] /\ IsTold(e[i]) /\ e[i].seq <= seq /\ e[i].seq \in Nat
      BY <1>2, <1>4, <1>5, <2>1
    <3> QED
      BY <1>7, <3>1
  <2>2. CASE i > n
    <3>1. i - n \in 1..Len(m) /\ t[i] = m[i - n]
      BY <1>1, <1>3, <2>2
    <3>2. IsTold(m[i - n]) /\ m[i - n].seq = seq + (i - n)
      BY <3>1
    <3>3. seq + (i - n) <= new
      BY <1>1, <3>1
    <3> QED
      BY <3>1, <3>2, <3>3
  <2> QED
    BY <1>1, <1>3, <2>1, <2>2
<1>9. ASSUME NEW i \in 1..Len(t), NEW j \in 1..Len(t), i < j PROVE t[i].seq < t[j].seq
  <2>1. CASE i \in 1..n /\ j \in 1..n
    BY <1>2, <1>9, <2>1 DEF Log, NumbersUpTo
  <2>2. CASE i \in 1..n /\ j > n
    <3>1. t[i].seq <= seq /\ t[i].seq \in Nat
      BY <1>2, <1>4, <1>5, <2>2
    <3>2. j - n \in 1..Len(m) /\ t[j] = m[j - n]
      BY <1>1, <1>3, <2>2
    <3>3. t[j].seq = seq + (j - n)
      BY <3>2
    <3> QED
      BY <1>1, <2>2, <3>1, <3>3
  <2>3. CASE i > n /\ j > n
    <3>1. i - n \in 1..Len(m) /\ t[i] = m[i - n] /\ j - n \in 1..Len(m) /\ t[j] = m[j - n]
      BY <1>1, <1>3, <2>3
    <3>2. t[i].seq = seq + (i - n) /\ t[j].seq = seq + (j - n)
      BY <3>1
    <3> QED
      BY <1>1, <1>9, <3>2
  <2> QED
    BY <1>1, <1>3, <1>9, <2>1, <2>2, <2>3
<1>10. \A k \in 1..Len(got) : got[k].seq <= new
  BY <1>4, <1>6, <1>7
<1>11. at <= n /\ at <= Len(t)
  BY <1>1 DEF Log, ToldUpTo
<1>12. \A i \in 1..at : t[i] = e[i]
  BY <1>1, <1>2, <1>11
<1>13. /\ \A k \in 1..Len(got) : IsTold(got[k]) => \E i \in 1..at : got[k] = t[i]
       /\ \A i \in 1..at : \E k \in 1..Len(got) : got[k] = t[i]
  BY <1>12 DEF Log, ToldUpTo
<1>14. ASSUME NEW k \in 1..Len(got), ~IsTold(got[k]), NEW i \in 1..Len(t)
       PROVE  t[i].seq # got[k].seq
  <2>1. CASE i \in 1..n
    BY <1>2, <1>14, <2>1 DEF Log, OthersApart
  <2>2. CASE i > n
    <3>1. i - n \in 1..Len(m) /\ t[i] = m[i - n]
      BY <1>1, <1>3, <2>2
    <3>2. t[i].seq = seq + (i - n)
      BY <3>1
    <3> QED
      BY <1>1, <1>4, <1>6, <2>2, <3>2
  <2> QED
    BY <1>1, <1>3, <2>1, <2>2
<1>15. Log(got, at, new, t)
  <2>1. NumbersUpTo(got, new, t)
    BY <1>8, <1>9, <1>10 DEF NumbersUpTo
  <2>2. ToldUpTo(got, at, t)
    BY <1>11, <1>13 DEF ToldUpTo
  <2>3. OthersApart(got, t)
    BY <1>14 DEF OthersApart
  <2>4. InOrderOnce(got)
    BY DEF Log
  <2> QED
    BY <2>1, <2>2, <2>3, <2>4 DEF Log
<1> QED
  BY <1>15 DEF t

\* A budget_exhausted event, numbered after all others.
LEMMA LogStarved ==
    ASSUME NEW got \in Seq(EventType), NEW at \in Nat, NEW seq \in Nat,
           NEW e \in Seq(EventType), Log(got, at, seq, e),
           NEW ev \in EventType, ~IsTold(ev), ev.seq = seq + 1
    PROVE  Log(Append(got, ev), at, seq + 1, e)
<1> DEFINE t == Append(got, ev)
           n == Len(got)
<1>1. /\ n \in Nat /\ Len(t) = n + 1 /\ t[n + 1] = ev
      /\ \A k \in 1..n : t[k] = got[k] /\ k \in 1..Len(t)
      /\ \A k \in 1..Len(t) : k \in 1..n \/ k = n + 1
  BY Appended
<1> HIDE DEF t
<1>2. /\ \A k \in 1..n : got[k].seq \in Nat /\ got[k].seq <= seq
      /\ \A i \in 1..Len(e) : e[i].seq \in Nat /\ e[i].seq <= seq /\ IsTold(e[i])
      /\ Len(e) \in Nat
  BY SeqsAreNat DEF Log, NumbersUpTo
<1>3. /\ \A i \in 1..Len(e) : IsTold(e[i]) /\ e[i].seq <= seq + 1 /\ e[i].seq # seq + 1
      /\ \A k \in 1..n : got[k].seq # seq + 1
  BY <1>2
<1>4. \A i, j \in 1..Len(e) : i < j => e[i].seq < e[j].seq
  BY DEF Log, NumbersUpTo
<1>5. \A k \in 1..Len(t) : t[k].seq <= seq + 1
  BY <1>1, <1>2
<1>6. at <= Len(e)
  BY DEF Log, ToldUpTo
<1>7. \A k \in 1..Len(t) : IsTold(t[k]) => k \in 1..n /\ t[k] = got[k]
  BY <1>1
<1>8. ASSUME NEW k \in 1..Len(t), IsTold(t[k]) PROVE \E i \in 1..at : t[k] = e[i]
  <2>1. k \in 1..n /\ t[k] = got[k]
    BY <1>1, <1>7, <1>8
  <2>2. PICK i \in 1..at : got[k] = e[i]
    BY <1>8, <2>1 DEF Log, ToldUpTo
  <2> QED
    BY <2>1, <2>2
<1>9. \A i \in 1..at : \E k \in 1..Len(t) : t[k] = e[i]
  <2> SUFFICES ASSUME NEW i \in 1..at PROVE \E k \in 1..Len(t) : t[k] = e[i]
    OBVIOUS
  <2>1. PICK k \in 1..n : got[k] = e[i]
    BY DEF Log, ToldUpTo
  <2> QED
    BY <1>1, <2>1
<1>10. ASSUME NEW k \in 1..Len(t), ~IsTold(t[k]), NEW i \in 1..Len(e)
       PROVE  e[i].seq # t[k].seq
  <2>1. CASE k \in 1..n
    <3>1. t[k] = got[k] /\ ~IsTold(got[k])
      BY <1>1, <1>10, <2>1
    <3> QED
      BY <2>1, <3>1 DEF Log, OthersApart
  <2>2. CASE k = n + 1
    BY <1>1, <1>3, <2>2
  <2> QED
    BY <1>1, <2>1, <2>2
<1>11. \A j, k \in 1..Len(t) :
          IsTold(t[j]) /\ IsTold(t[k]) /\ j < k => t[j].seq < t[k].seq
  BY <1>1, <1>7 DEF Log, InOrderOnce
<1>12. ASSUME NEW j \in 1..Len(t), NEW k \in 1..Len(t), t[j].seq = t[k].seq PROVE j = k
  <2>1. CASE j \in 1..n /\ k \in 1..n
    BY <1>1, <1>12, <2>1 DEF Log, InOrderOnce
  <2>2. CASE j \in 1..n /\ k = n + 1
    BY <1>1, <1>3, <1>12, <2>2
  <2>3. CASE j = n + 1 /\ k \in 1..n
    BY <1>1, <1>3, <1>12, <2>3
  <2> QED
    BY <1>1, <2>1, <2>2, <2>3
<1>13. Log(t, at, seq + 1, e)
  <2>1. NumbersUpTo(t, seq + 1, e)
    BY <1>3, <1>4, <1>5 DEF NumbersUpTo
  <2>2. ToldUpTo(t, at, e)
    BY <1>6, <1>8, <1>9 DEF ToldUpTo
  <2>3. OthersApart(t, e)
    BY <1>10 DEF OthersApart
  <2>4. InOrderOnce(t)
    BY <1>11, <1>12 DEF InOrderOnce
  <2> QED
    BY <2>1, <2>2, <2>3, <2>4 DEF Log
<1> QED
  BY <1>13 DEF t

\* The next of the events.
LEMMA LogYielded ==
    ASSUME NEW got \in Seq(EventType), NEW at \in Nat, NEW seq \in Nat,
           NEW e \in Seq(EventType), Log(got, at, seq, e), at + 1 <= Len(e)
    PROVE  Log(Append(got, e[at + 1]), at + 1, seq, e)
<1> DEFINE ev == e[at + 1]
           t == Append(got, ev)
           n == Len(got)
<1>0. Len(e) \in Nat /\ at + 1 \in 1..Len(e) /\ ev \in EventType /\ ev.seq \in Nat
      /\ IsTold(ev) /\ ev.seq <= seq
  <2>1. Len(e) \in Nat /\ at + 1 \in 1..Len(e)
    BY SeqsAreNat
  <2> QED
    BY <2>1, SeqsAreNat DEF Log, NumbersUpTo
<1>1. /\ n \in Nat /\ Len(t) = n + 1 /\ t[n + 1] = ev
      /\ \A k \in 1..n : t[k] = got[k] /\ k \in 1..Len(t)
      /\ \A k \in 1..Len(t) : k \in 1..n \/ k = n + 1
      /\ n + 1 \in 1..Len(t)
  BY <1>0, Appended
<1> HIDE DEF t
<1>2. /\ \A k \in 1..n : got[k].seq \in Nat /\ got[k].seq <= seq
      /\ \A i \in 1..Len(e) : e[i].seq \in Nat
  BY SeqsAreNat DEF Log, NumbersUpTo
\* it is new, and numbered after those told before
<1>3. ASSUME NEW k \in 1..n
      PROVE  /\ got[k].seq # ev.seq
             /\ IsTold(got[k]) => got[k].seq < ev.seq
  <2>1. CASE IsTold(got[k])
    <3>1. PICK i \in 1..at : got[k] = e[i]
      BY <2>1 DEF Log, ToldUpTo
    <3>2. i \in 1..Len(e) /\ i < at + 1
      BY <1>0, <3>1
    <3>3. e[i].seq < ev.seq
      BY <1>0, <3>2 DEF Log, NumbersUpTo
    <3> QED
      BY <1>0, <1>2, <3>1, <3>3
  <2>2. CASE ~IsTold(got[k])
    BY <1>0, <2>2 DEF Log, OthersApart
  <2> QED
    BY <2>1, <2>2
<1>4. /\ \A i \in 1..Len(e) : IsTold(e[i]) /\ e[i].seq <= seq
      /\ \A i, j \in 1..Len(e) : i < j => e[i].seq < e[j].seq
  BY DEF Log, NumbersUpTo
<1>5. \A k \in 1..Len(t) : t[k].seq <= seq
  BY <1>0, <1>1, <1>2
<1>6. \A i \in 1..at : i \in 1..(at + 1)
  OBVIOUS
<1>7. at + 1 \in 1..(at + 1) /\ \A i \in 1..(at + 1) : i \in 1..at \/ i = at + 1
  OBVIOUS
<1>8. ASSUME NEW k \in 1..Len(t), IsTold(t[k]) PROVE \E i \in 1..(at + 1) : t[k] = e[i]
  <2>1. CASE k \in 1..n
    <3>1. PICK i \in 1..at : got[k] = e[i]
      BY <1>1, <1>8, <2>1 DEF Log, ToldUpTo
    <3> QED
      BY <1>1, <1>6, <2>1, <3>1
  <2>2. CASE k = n + 1
    BY <1>1, <1>7, <2>2
  <2> QED
    BY <1>1, <2>1, <2>2
<1>9. ASSUME NEW i \in 1..(at + 1) PROVE \E k \in 1..Len(t) : t[k] = e[i]
  <2>1. CASE i \in 1..at
    <3>1. PICK k \in 1..n : got[k] = e[i]
      BY <2>1 DEF Log, ToldUpTo
    <3> QED
      BY <1>1, <3>1
  <2>2. CASE i = at + 1
    BY <1>1, <2>2
  <2> QED
    BY <1>7, <2>1, <2>2
<1>10. \A k \in 1..Len(t) : ~IsTold(t[k]) => k \in 1..n
  BY <1>0, <1>1
<1>11. ASSUME NEW k \in 1..Len(t), ~IsTold(t[k]), NEW i \in 1..Len(e)
       PROVE  e[i].seq # t[k].seq
  <2>1. k \in 1..n /\ t[k] = got[k]
    BY <1>1, <1>10, <1>11
  <2> QED
    BY <1>11, <2>1 DEF Log, OthersApart
<1>12. ASSUME NEW j \in 1..Len(t), NEW k \in 1..Len(t), IsTold(t[j]), IsTold(t[k]), j < k
       PROVE  t[j].seq < t[k].seq
  <2>1. j \in 1..n
    BY <1>1, <1>12
  <2>2. CASE k \in 1..n
    BY <1>1, <1>12, <2>1, <2>2 DEF Log, InOrderOnce
  <2>3. CASE k = n + 1
    BY <1>1, <1>3, <1>12, <2>1, <2>3
  <2> QED
    BY <1>1, <2>2, <2>3
<1>13. ASSUME NEW j \in 1..Len(t), NEW k \in 1..Len(t), t[j].seq = t[k].seq PROVE j = k
  <2>1. CASE j \in 1..n /\ k \in 1..n
    BY <1>1, <1>13, <2>1 DEF Log, InOrderOnce
  <2>2. CASE j \in 1..n /\ k = n + 1
    BY <1>1, <1>3, <1>13, <2>2
  <2>3. CASE j = n + 1 /\ k \in 1..n
    BY <1>1, <1>3, <1>13, <2>3
  <2> QED
    BY <1>1, <2>1, <2>2, <2>3
<1> HIDE DEF ev
<1>14. Log(t, at + 1, seq, e)
  <2>1. NumbersUpTo(t, seq, e)
    BY <1>4, <1>5 DEF NumbersUpTo
  <2>2. ToldUpTo(t, at + 1, e)
    BY <1>0, <1>8, <1>9 DEF ToldUpTo
  <2>3. OthersApart(t, e)
    BY <1>11 DEF OthersApart
  <2>4. InOrderOnce(t)
    BY <1>12, <1>13 DEF InOrderOnce
  <2> QED
    BY <2>1, <2>2, <2>3, <2>4 DEF Log
<1> QED
  BY <1>14 DEF t, ev

\* An execution that was lost before any of it was told.
LEMMA LogLost ==
    ASSUME NEW got \in Seq(EventType), NEW seq \in Nat, NEW e, Log(got, 0, seq, e)
    PROVE  Log(got, 0, seq, <<>>)
<1>1. Len(<<>>) = 0 /\ 0 <= 0 /\ 1..0 = {}
  OBVIOUS
<1> QED
  BY <1>1 DEF Log, NumbersUpTo, ToldUpTo, OthersApart, InOrderOnce

-----------------------------------------------------------------------------
(* The steps of one execution                                                *)

InputOf(x, k) == IF k = 1 THEN x.input ELSE x.steps[k - 1].output
Chained(x) ==
    /\ \A k \in 1..Len(x.steps) : x.steps[k].input = InputOf(x, k)
    /\ x.current = InputOf(x, Len(x.steps) + 1)
AllDone(x) == x.ok /\ Len(x.steps) = Len(x.plan) /\ Len(x.runSteps) = Len(x.steps)
OneFailed(x) ==
    /\ ~x.ok /\ x.diagnostics >= 1 /\ Len(x.steps) < Len(x.plan)
    /\ Len(x.runSteps) = Len(x.steps) + 1 /\ x.runSteps[Len(x.steps) + 1] = "failed"
    /\ Len(x.called) \in {Len(x.steps), Len(x.steps) + 1}

\* What the loop of execute_plan keeps: at each step as many are reported done
\* as the run has, and the one in progress is the next.
StepsOK(x) ==
    /\ x \in ExecType
    /\ Chained(x)
    /\ \A k \in 1..Len(x.called) : x.called[k] = k
    /\ Len(x.called) <= Len(x.plan)
    /\ Len(x.steps) <= Len(x.runSteps)
    /\ \A k \in 1..Len(x.steps) : x.runSteps[k] = "done"
    /\ x.at \in {"idle", "resolve", "call"} => x.ok /\ Len(x.runSteps) = Len(x.steps)
    /\ x.at \in {"idle", "resolve"} => Len(x.called) = Len(x.steps)
    /\ x.at = "call" => Len(x.called) = Len(x.steps) + 1
    /\ x.at \in {"resolve", "call"} => Len(x.steps) < Len(x.plan)
    /\ x.at = "idle" => Len(x.steps) = 0
    /\ x.at \in {"finish", "finished"} => AllDone(x) \/ OneFailed(x)

\* The fields of a typed execution.
LEMMA ExecFields ==
    ASSUME NEW x \in ExecType
    PROVE  /\ x.plan \in Seq(Impls) /\ Len(x.plan) \in Nat
           /\ x.input \in Outputs /\ x.current \in Outputs
           /\ x.ok \in BOOLEAN /\ x.diagnostics \in Nat
           /\ x.steps \in Seq(StepReport) /\ Len(x.steps) \in Nat
           /\ x.runSteps \in Seq({"done", "failed"}) /\ Len(x.runSteps) \in Nat
           /\ x.called \in Seq(Nat) /\ Len(x.called) \in Nat
           /\ x.events \in Seq(EventType) /\ Len(x.events) \in Nat
           /\ x # NoPlan
<1>1. /\ x.plan \in Seq(Impls) /\ x.input \in Outputs /\ x.current \in Outputs
      /\ x.ok \in BOOLEAN /\ x.diagnostics \in Nat
      /\ x.steps \in Seq(StepReport) /\ x.runSteps \in Seq({"done", "failed"})
      /\ x.called \in Seq(Nat) /\ x.events \in Seq(EventType)
  BY ExecuteAssumption DEF ExecType, Outputs
<1>2. x # NoPlan
  BY DEF ExecType, NoPlan
<1> QED
  BY <1>1, <1>2

\* Executions that differ in their events alone, or in where they are.
SameSteps(x, y) ==
    /\ y.plan = x.plan /\ y.input = x.input /\ y.current = x.current /\ y.ok = x.ok
    /\ y.steps = x.steps /\ y.diagnostics = x.diagnostics /\ y.runSteps = x.runSteps
    /\ y.called = x.called

LEMMA ChainedSame ==
    ASSUME NEW x, NEW y, SameSteps(x, y)
    PROVE  /\ Chained(x) => Chained(y)
           /\ AllDone(x) => AllDone(y)
           /\ OneFailed(x) => OneFailed(y)
<1>1. \A k : InputOf(y, k) = InputOf(x, k)
  BY DEF SameSteps, InputOf
<1> QED
  BY <1>1 DEF SameSteps, Chained, AllDone, OneFailed

LEMMA WithEvents ==
    ASSUME NEW x, StepsOK(x), NEW events \in Seq(EventType)
    PROVE  /\ StepsOK([x EXCEPT !.events = events])
           /\ [x EXCEPT !.events = events].events = events
           /\ [x EXCEPT !.events = events].at = x.at
<1> DEFINE y == [x EXCEPT !.events = events]
<1>1. x \in ExecType
  BY DEF StepsOK
<1>2. /\ y \in ExecType /\ y.events = events /\ y.at = x.at
      /\ SameSteps(x, y)
  BY <1>1 DEF ExecType, SameSteps
<1> HIDE DEF y
<1>3. /\ Chained(x) => Chained(y)
      /\ AllDone(x) => AllDone(y)
      /\ OneFailed(x) => OneFailed(y)
  BY <1>2, ChainedSame
<1>4. StepsOK(y)
  BY <1>2, <1>3 DEF StepsOK, SameSteps
<1> QED
  BY <1>2, <1>4 DEF y

\* The result has been made, or the whole execution lost.
LEMMA WithAt ==
    ASSUME NEW x, StepsOK(x), NEW at \in {"finished", "lost"},
           at = "finished" => x.at = "finish"
    PROVE  /\ StepsOK([x EXCEPT !.at = at])
           /\ [x EXCEPT !.at = at].events = x.events
           /\ [x EXCEPT !.at = at].at = at
<1> DEFINE y == [x EXCEPT !.at = at]
<1>1. x \in ExecType
  BY DEF StepsOK
<1>2. y \in ExecType /\ y.events = x.events /\ y.at = at /\ SameSteps(x, y)
  BY <1>1 DEF ExecType, SameSteps
<1> HIDE DEF y
<1>3. /\ Chained(x) => Chained(y)
      /\ AllDone(x) => AllDone(y)
      /\ OneFailed(x) => OneFailed(y)
  BY <1>2, ChainedSame
<1>4. StepsOK(y)
  BY <1>2, <1>3 DEF StepsOK, SameSteps
<1> QED
  BY <1>2, <1>4 DEF y

\* A new execution.
LEMMA IdleOK ==
    ASSUME NEW plan \in Plans, NEW input \in Values
    PROVE  StepsOK(Idle(plan, input)) /\ Idle(plan, input).events = <<>>
           /\ Idle(plan, input).at = "idle"
<1> DEFINE x == Idle(plan, input)
<1>1. x \in ExecType
  BY DEF Idle, ExecType, Outputs
<1>2. /\ x.plan = plan /\ x.input = input /\ x.current = input /\ x.ok = TRUE
      /\ x.steps = <<>> /\ x.runSteps = <<>> /\ x.called = <<>> /\ x.at = "idle"
      /\ x.events = <<>>
  BY DEF Idle
<1> HIDE DEF x
<1>3. Len(x.plan) \in Nat
  BY <1>1, ExecFields
<1>4. Len(<<>>) = 0 /\ 1..0 = {}
  OBVIOUS
<1>5. Chained(x)
  BY <1>2, <1>4 DEF Chained, InputOf
<1>6. StepsOK(x)
  BY <1>1, <1>2, <1>3, <1>4, <1>5 DEF StepsOK
<1> QED
  BY <1>2, <1>6 DEF x

\* Between two steps of the loop.
BetweenSteps(x) ==
    /\ x \in ExecType
    /\ Chained(x)
    /\ \A k \in 1..Len(x.called) : x.called[k] = k
    /\ x.ok /\ Len(x.called) = Len(x.steps) /\ Len(x.runSteps) = Len(x.steps)
    /\ Len(x.steps) <= Len(x.plan)
    /\ \A k \in 1..Len(x.steps) : x.runSteps[k] = "done"

LEMMA OnwardOK ==
    ASSUME NEW x, BetweenSteps(x)
    PROVE  /\ StepsOK(Onward(x)) /\ Onward(x).events = x.events
           /\ Onward(x).at \in {"resolve", "finish"}
<1> DEFINE at == IF Len(x.runSteps) < Len(x.plan) THEN "resolve" ELSE "finish"
           y == Onward(x)
<1>1. x \in ExecType
  BY DEF BetweenSteps
<1>2. at \in {"resolve", "finish"}
  OBVIOUS
<1>3. y = [x EXCEPT !.at = at]
  BY DEF Onward
<1>4. at = "resolve" <=> Len(x.runSteps) < Len(x.plan)
  OBVIOUS
<1> HIDE DEF at, y
<1>5. y \in ExecType /\ y.events = x.events /\ y.at = at /\ SameSteps(x, y)
  BY <1>1, <1>2, <1>3 DEF ExecType, SameSteps
<1>6. Chained(y)
  BY <1>5, ChainedSame DEF BetweenSteps
<1>7. Len(x.plan) \in Nat /\ Len(x.runSteps) \in Nat
  BY <1>1, ExecFields
<1>8. at = "finish" => AllDone(y)
  BY <1>2, <1>4, <1>5, <1>7 DEF BetweenSteps, AllDone, SameSteps
<1>9. StepsOK(y)
  BY <1>2, <1>4, <1>5, <1>6, <1>7, <1>8 DEF StepsOK, BetweenSteps, SameSteps
<1> QED
  BY <1>2, <1>5, <1>9 DEF y

\* The implementation is called, ...
LEMMA CalledOK ==
    ASSUME NEW x, StepsOK(x), x.at = "resolve"
    PROVE  LET y == [x EXCEPT !.at = "call", !.called = Append(@, Len(x.runSteps) + 1)] IN
           StepsOK(y) /\ y.events = x.events /\ y.at = "call"
<1> DEFINE called == Append(x.called, Len(x.runSteps) + 1)
           y == [x EXCEPT !.at = "call", !.called = called]
<1>1. /\ x \in ExecType /\ x.ok /\ Len(x.runSteps) = Len(x.steps)
      /\ Len(x.called) = Len(x.steps) /\ Len(x.steps) < Len(x.plan)
      /\ \A k \in 1..Len(x.called) : x.called[k] = k
  BY DEF StepsOK
<1>2. /\ Len(x.runSteps) \in Nat /\ x.called \in Seq(Nat)
      /\ Len(x.called) \in Nat /\ Len(x.plan) \in Nat
  BY <1>1, ExecFields
<1>3. /\ called \in Seq(Nat) /\ Len(called) = Len(x.called) + 1
      /\ \A k \in 1..Len(called) : called[k] = k
  <2>1. Len(x.runSteps) + 1 \in Nat
    BY <1>2
  <2> HIDE DEF called
  <2>2. /\ called \in Seq(Nat)
        /\ Len(called) = Len(x.called) + 1 /\ called[Len(x.called) + 1] = Len(x.runSteps) + 1
        /\ \A k \in 1..Len(x.called) : called[k] = x.called[k]
        /\ \A k \in 1..(Len(x.called) + 1) : k \in 1..Len(x.called) \/ k = Len(x.called) + 1
    BY <1>2, <2>1, Appended DEF called
  <2> QED
    BY <1>1, <2>2
<1> HIDE DEF called
<1>4. /\ y \in ExecType /\ y.at = "call" /\ y.events = x.events /\ y.called = called
      /\ y.plan = x.plan /\ y.input = x.input /\ y.current = x.current /\ y.ok = x.ok
      /\ y.steps = x.steps /\ y.runSteps = x.runSteps
  BY <1>1, <1>3 DEF ExecType
<1> HIDE DEF y
<1>5. Chained(y)
  <2>1. \A k : InputOf(y, k) = InputOf(x, k)
    BY <1>4 DEF InputOf
  <2>2. Chained(x)
    BY DEF StepsOK
  <2> QED
    BY <1>4, <2>1, <2>2 DEF Chained
<1>6. Len(called) <= Len(y.plan)
  BY <1>1, <1>2, <1>3, <1>4
<1>7. StepsOK(y)
  BY <1>1, <1>3, <1>4, <1>5, <1>6 DEF StepsOK
<1> QED
  BY <1>4, <1>7 DEF y, called

\* ... and returns an output, which is what flows into the next step, ...
LEMMA DoneOK ==
    ASSUME NEW x, StepsOK(x), x.at = "call", NEW output \in Outputs
    PROVE  BetweenSteps(Done(x, output)) /\ Done(x, output).events = x.events
<1> DEFINE report == [input |-> x.current, output |-> output]
           steps == Append(x.steps, report)
           runSteps == Append(x.runSteps, "done")
           y == Done(x, output)
<1>1. /\ x \in ExecType /\ x.ok /\ Len(x.runSteps) = Len(x.steps)
      /\ Len(x.called) = Len(x.steps) + 1 /\ Len(x.steps) < Len(x.plan)
      /\ \A k \in 1..Len(x.called) : x.called[k] = k
      /\ \A k \in 1..Len(x.steps) : x.runSteps[k] = "done"
      /\ Chained(x)
  BY DEF StepsOK
<1>2. /\ x.steps \in Seq(StepReport) /\ Len(x.steps) \in Nat
      /\ x.runSteps \in Seq({"done", "failed"}) /\ Len(x.plan) \in Nat /\ x.current \in Outputs
  BY <1>1, ExecFields
<1>3. report \in StepReport /\ report.input = x.current /\ report.output = output
  BY <1>2 DEF StepReport
<1> HIDE DEF report
<1>4. /\ steps \in Seq(StepReport) /\ Len(steps) = Len(x.steps) + 1
      /\ steps[Len(x.steps) + 1] = report
      /\ \A k \in 1..Len(x.steps) : steps[k] = x.steps[k]
      /\ \A k \in 1..(Len(x.steps) + 1) : k \in 1..Len(x.steps) \/ k = Len(x.steps) + 1
  BY <1>2, <1>3, Appended
<1>5. /\ runSteps \in Seq({"done", "failed"}) /\ Len(runSteps) = Len(x.runSteps) + 1
      /\ runSteps[Len(x.runSteps) + 1] = "done"
      /\ \A k \in 1..Len(x.runSteps) : runSteps[k] = x.runSteps[k]
  BY <1>2, Appended
<1>6. y = [x EXCEPT !.current = output, !.steps = steps, !.runSteps = runSteps]
  BY DEF Done, report
<1> HIDE DEF steps, runSteps, y
<1>7. /\ y \in ExecType /\ y.current = output /\ y.steps = steps /\ y.runSteps = runSteps
      /\ y.plan = x.plan /\ y.input = x.input /\ y.ok = x.ok /\ y.called = x.called
      /\ y.events = x.events
  BY <1>1, <1>4, <1>5, <1>6 DEF ExecType
<1>8. Chained(y)
  <2>1. ASSUME NEW k \in 1..(Len(x.steps) + 1) PROVE InputOf(y, k) = InputOf(x, k)
    <3>1. CASE k = 1
      BY <1>7, <3>1 DEF InputOf
    <3>2. CASE k # 1
      <4>1. k - 1 \in 1..Len(x.steps)
        BY <1>2, <3>2
      <4> QED
        BY <1>4, <1>7, <3>2, <4>1 DEF InputOf
    <3> QED
      BY <3>1, <3>2
  <2>2. \A k \in 1..Len(x.steps) : k \in 1..(Len(x.steps) + 1)
    BY <1>2
  <2>3. Len(x.steps) + 1 \in 1..(Len(x.steps) + 1)
    BY <1>2
  <2>4. ASSUME NEW k \in 1..Len(steps) PROVE y.steps[k].input = InputOf(y, k)
    <3>1. CASE k \in 1..Len(x.steps)
      BY <1>1, <1>4, <1>7, <2>1, <2>2, <3>1 DEF Chained
    <3>2. CASE k = Len(x.steps) + 1
      BY <1>1, <1>3, <1>4, <1>7, <2>1, <2>3, <3>2 DEF Chained
    <3> QED
      BY <1>4, <3>1, <3>2
  <2>5. InputOf(y, Len(steps) + 1) = output
    <3>1. Len(steps) + 1 # 1 /\ (Len(steps) + 1) - 1 = Len(x.steps) + 1
      BY <1>2, <1>4
    <3> QED
      BY <1>3, <1>4, <1>7, <3>1 DEF InputOf
  <2> QED
    BY <1>7, <2>4, <2>5 DEF Chained
<1>9. \A k \in 1..Len(y.steps) : y.runSteps[k] = "done"
  <2> SUFFICES ASSUME NEW k \in 1..Len(steps) PROVE runSteps[k] = "done"
    BY <1>7
  <2>1. k \in 1..Len(x.steps) \/ k = Len(x.runSteps) + 1
    BY <1>1, <1>4
  <2> QED
    BY <1>1, <1>5, <2>1
<1>10. Len(y.steps) <= Len(y.plan)
  BY <1>1, <1>2, <1>4, <1>7
<1>11. BetweenSteps(y)
  BY <1>1, <1>4, <1>5, <1>7, <1>8, <1>9, <1>10 DEF BetweenSteps
<1> QED
  BY <1>7, <1>11 DEF y

\* ... perhaps with diagnostics.
LEMMA NotedOK ==
    ASSUME NEW x, BetweenSteps(x), NEW noted \in Nat
    PROVE  /\ BetweenSteps([x EXCEPT !.diagnostics = @ + noted])
           /\ [x EXCEPT !.diagnostics = @ + noted].events = x.events
<1> DEFINE d == x.diagnostics + noted
           y == [x EXCEPT !.diagnostics = d]
<1>1. x \in ExecType
  BY DEF BetweenSteps
<1>2. d \in Nat
  BY <1>1, ExecFields
<1> HIDE DEF d
<1>3. /\ y \in ExecType /\ y.events = x.events
      /\ y.plan = x.plan /\ y.input = x.input /\ y.current = x.current /\ y.ok = x.ok
      /\ y.steps = x.steps /\ y.runSteps = x.runSteps /\ y.called = x.called
  BY <1>1, <1>2 DEF ExecType
<1> HIDE DEF y
<1>4. \A k : InputOf(y, k) = InputOf(x, k)
  BY <1>3 DEF InputOf
<1>5. BetweenSteps(y) /\ y.events = x.events
  BY <1>3, <1>4 DEF BetweenSteps, Chained
<1> QED
  BY <1>5 DEF y, d

\* An implementation that is not found, or raises, ends the loop.
LEMMA FailedOK ==
    ASSUME NEW x, StepsOK(x), x.at \in {"resolve", "call"}
    PROVE  StepsOK(Failed(x)) /\ Failed(x).events = x.events /\ Failed(x).at = "finish"
<1> DEFINE runSteps == Append(x.runSteps, "failed")
           d == x.diagnostics + 1
           y == Failed(x)
<1>1. /\ x \in ExecType /\ Len(x.runSteps) = Len(x.steps)
      /\ Len(x.called) \in {Len(x.steps), Len(x.steps) + 1} /\ Len(x.steps) < Len(x.plan)
      /\ \A k \in 1..Len(x.steps) : x.runSteps[k] = "done"
  BY DEF StepsOK
<1>2. /\ x.runSteps \in Seq({"done", "failed"}) /\ Len(x.runSteps) \in Nat
      /\ d \in Nat /\ d >= 1
  BY <1>1, ExecFields
<1>3. /\ runSteps \in Seq({"done", "failed"}) /\ Len(runSteps) = Len(x.runSteps) + 1
      /\ runSteps[Len(x.runSteps) + 1] = "failed"
      /\ \A k \in 1..Len(x.runSteps) : runSteps[k] = x.runSteps[k]
  BY <1>2, Appended
<1>4. y = [x EXCEPT !.at = "finish", !.ok = FALSE, !.diagnostics = d, !.runSteps = runSteps]
  BY DEF Failed
<1> HIDE DEF runSteps, d, y
<1>5. /\ y \in ExecType /\ y.at = "finish" /\ y.ok = FALSE /\ y.diagnostics = d
      /\ y.runSteps = runSteps /\ y.events = x.events /\ y.plan = x.plan
      /\ y.input = x.input /\ y.current = x.current /\ y.steps = x.steps
      /\ y.called = x.called
  BY <1>1, <1>2, <1>3, <1>4 DEF ExecType
<1>6. Chained(y)
  <2>1. \A k : InputOf(y, k) = InputOf(x, k)
    BY <1>5 DEF InputOf
  <2>2. Chained(x)
    BY DEF StepsOK
  <2> QED
    BY <1>5, <2>1, <2>2 DEF Chained
<1>7. OneFailed(y)
  BY <1>1, <1>2, <1>3, <1>5 DEF OneFailed
<1>8. Len(y.steps) <= Len(y.runSteps)
  BY <1>1, <1>2, <1>3, <1>5
<1>9. \A k \in 1..Len(y.steps) : y.runSteps[k] = "done"
  BY <1>1, <1>3, <1>5
<1>10. /\ \A k \in 1..Len(y.called) : y.called[k] = k
       /\ Len(y.called) <= Len(y.plan)
  BY <1>5 DEF StepsOK
<1>11. StepsOK(y)
  BY <1>5, <1>6, <1>7, <1>8, <1>9, <1>10 DEF StepsOK
<1> QED
  BY <1>5, <1>11 DEF y

-----------------------------------------------------------------------------
(* One handle with its execution                                             *)

\* Before the plan has run its handle has told nothing; afterwards the result
\* is the last of the events, and the handle has it when it has told them all.
Played(r, x) ==
    /\ x.at # "finished" =>
          /\ r.at = 0 /\ ~r.result
          /\ \A i \in 1..Len(x.events) : x.events[i].kind # "result"
    /\ x.at \in {"idle", "lost"} => x.events = <<>>
    /\ x.at = "finished" =>
          /\ Len(x.events) > 0
          /\ \A i \in 1..Len(x.events) : x.events[i].kind = "result" <=> i = Len(x.events)
          /\ r.result <=> r.at = Len(x.events)
    /\ r.status = "done" => r.cancelled \/ r.result

ExecOK(r, x) ==
    \/ r.status = "none" /\ x = NoPlan
    \/ /\ r.status # "none" /\ StepsOK(x)
       /\ Log(r.got, r.at, r.seq, x.events) /\ Played(r, x)

\* The inductive invariant.
PlanInv ==
    /\ HandleInv
    /\ bindings \subseteq Impls
    /\ exec \in [Handles -> ExecType \cup {NoPlan}]
    /\ \A h \in Handles : ExecOK(handle[h], exec[h])

\* A call that delivers nothing, and ends only what is cancelled or had ended.
Quietly(r, q) ==
    /\ q.got = r.got /\ q.at = r.at /\ q.seq = r.seq /\ q.result = r.result
    /\ q.status = "none" <=> r.status = "none"
    /\ r.cancelled => q.cancelled
    /\ q.status = "done" => r.status = "done" \/ q.cancelled

LEMMA QuietlyOK ==
    ASSUME NEW r, NEW q, NEW x, ExecOK(r, x), Quietly(r, q)
    PROVE  ExecOK(q, x)
<1>1. CASE r.status = "none"
  BY <1>1 DEF ExecOK, Quietly
<1>2. CASE r.status # "none"
  <2>1. StepsOK(x) /\ Log(r.got, r.at, r.seq, x.events) /\ Played(r, x)
    BY <1>2 DEF ExecOK
  <2>2. Log(q.got, q.at, q.seq, x.events) /\ q.status # "none"
    BY <1>2, <2>1 DEF Quietly
  <2>3. Played(q, x)
    BY <2>1 DEF Quietly, Played
  <2> QED
    BY <2>1, <2>2, <2>3 DEF ExecOK
<1> QED
  BY <1>1, <1>2

\* A handle that a step replaces, with its execution.
LEMMA Replaced ==
    ASSUME PlanInv, HandleInv', bindings' \subseteq Impls, NEW h \in Handles,
           NEW q, handle' = [handle EXCEPT ![h] = q],
           NEW x, x \in ExecType, exec' = [exec EXCEPT ![h] = x],
           ExecOK(q, x)
    PROVE  PlanInv'
<1>1. /\ handle'[h] = q /\ \A i \in Handles \ {h} : handle'[i] = handle[i]
      /\ exec'[h] = x /\ \A i \in Handles \ {h} : exec'[i] = exec[i]
      /\ exec' \in [Handles -> ExecType \cup {NoPlan}]
  BY DEF PlanInv, HandleInv
<1>2. ASSUME NEW i \in Handles PROVE ExecOK(handle'[i], exec'[i])
  <2>1. CASE i = h
    BY <1>1, <2>1
  <2>2. CASE i # h
    BY <1>1, <2>2 DEF PlanInv
  <2> QED
    BY <2>1, <2>2
<1> QED
  BY <1>1, <1>2 DEF PlanInv

LEMMA ReplacedHandle ==
    ASSUME PlanInv, HandleInv', NEW h \in Handles, UNCHANGED <<bindings, exec>>,
           NEW q, handle' = [handle EXCEPT ![h] = q], ExecOK(q, exec[h])
    PROVE  PlanInv'
<1>1. /\ handle'[h] = q /\ \A i \in Handles \ {h} : handle'[i] = handle[i]
      /\ exec' = exec /\ bindings' = bindings
  BY DEF PlanInv, HandleInv
<1>2. ASSUME NEW i \in Handles PROVE ExecOK(handle'[i], exec'[i])
  <2>1. CASE i = h
    BY <1>1, <2>1
  <2>2. CASE i # h
    BY <1>1, <2>2 DEF PlanInv
  <2> QED
    BY <2>1, <2>2
<1> QED
  BY <1>1, <1>2 DEF PlanInv

\* A new budget is no event.
LEMMA RefreshedQuietly ==
    ASSUME NEW r \in HandleType, NEW budget \in Budgets
    PROVE  Quietly(r, Refreshed(r, budget)) /\ Refreshed(r, budget) \in HandleType
<1>1. budget \in Int \cup {NoBudget}
  BY ProcessAssumption
<1>2. CASE budget = NoBudget
  BY <1>2 DEF Refreshed, Quietly
<1>3. CASE budget # NoBudget
  <2> DEFINE q == [r EXCEPT !.budget = budget, !.granted = budget, !.pulled = 0]
  <2>1. /\ q \in HandleType /\ q.got = r.got /\ q.at = r.at /\ q.seq = r.seq
        /\ q.result = r.result /\ q.status = r.status /\ q.cancelled = r.cancelled
    BY <1>1 DEF HandleType
  <2>2. Refreshed(r, budget) = q
    BY <1>3 DEF Refreshed
  <2> HIDE DEF q
  <2> QED
    BY <2>1, <2>2 DEF Quietly
<1> QED
  BY <1>2, <1>3

LEMMA QuietlyTwice ==
    ASSUME NEW r, NEW q, NEW p, Quietly(r, q), Quietly(q, p)
    PROVE  Quietly(r, p)
BY DEF Quietly

LEMMA ResumeExec ==
    ASSUME PlanInv, NEW h \in Handles, NEW budget \in Budgets, Resume(h, budget),
           UNCHANGED <<bindings, exec>>
    PROVE  PlanInv'
<1> DEFINE r == Refreshed(handle[h], budget)
<1>1. HandleInv' /\ handle[h] \in HandleType /\ ExecOK(handle[h], exec[h]) /\ RecordOK(handle[h])
      /\ handle[h].status # "running"
  BY ResumeKeeps, TopIsRunning DEF PlanInv, HandleInv, Resume
<1>2. Quietly(handle[h], r) /\ r \in HandleType /\ RecordOK(r)
  BY <1>1, RefreshedQuietly, RefreshedOK
<1>3. \/ Settled(r) /\ handle' = [handle EXCEPT ![h] = Settle(r)]
      \/ handle' = [handle EXCEPT ![h] = Starved(r)]
      \/ handle' = [handle EXCEPT ![h] = Running(r)]
  BY DEF Resume
<1>4. r.status # "none"
  BY DEF Resume
<1> HIDE DEF r
<1>5. CASE Settled(r) /\ handle' = [handle EXCEPT ![h] = Settle(r)]
  <2> DEFINE q == Settle(r)
  <2>1. Quietly(r, q)
    BY <1>2, <1>4, <1>5 DEF Settle, Settled, Quietly, HandleType
  <2>2. handle' = [handle EXCEPT ![h] = q]
    BY <1>5
  <2> HIDE DEF q
  <2> QED
    BY <1>1, <1>2, <2>1, <2>2, QuietlyTwice, QuietlyOK, ReplacedHandle
<1>6. CASE handle' = [handle EXCEPT ![h] = Running(r)]
  <2> DEFINE q == Running(r)
  <2>1. Quietly(r, q)
    BY <1>2, <1>4 DEF Running, Quietly, HandleType
  <2>2. handle' = [handle EXCEPT ![h] = q]
    BY <1>6
  <2> HIDE DEF q
  <2> QED
    BY <1>1, <1>2, <2>1, <2>2, QuietlyTwice, QuietlyOK, ReplacedHandle
<1>7. CASE handle' = [handle EXCEPT ![h] = Starved(r)]
  <2> DEFINE ev == NextEvent(r, "budget_exhausted")
             q == Starved(r)
             x == exec[h]
  <2>1. ExecOK(r, x)
    BY <1>1, <1>2, QuietlyOK
  <2>2. ev \in EventType /\ ~IsTold(ev) /\ ev.seq = r.seq + 1
    BY <1>2, EventOK DEF EventKind, NextEvent, IsTold
  <2> HIDE DEF ev
  <2>3. /\ q.got = Append(r.got, ev) /\ q.seq = r.seq + 1 /\ q.at = r.at
        /\ q.result = r.result /\ q.status = "suspended" /\ q.cancelled = r.cancelled
    <3>1. q = [[r EXCEPT !.seq = r.seq + 1] EXCEPT !.status = "suspended",
                                                   !.got = Append(r.got, ev)]
      BY DEF Starved, Made, ev
    <3> HIDE DEF q
    <3> QED
      BY <1>2, <3>1 DEF HandleType
  <2>4. StepsOK(x) /\ Log(r.got, r.at, r.seq, x.events) /\ Played(r, x)
    BY <1>4, <2>1 DEF ExecOK
  <2>5. r.got \in Seq(EventType) /\ r.at \in Nat /\ r.seq \in Nat /\ x.events \in Seq(EventType)
    BY <1>2, <2>4, Fields, ExecFields DEF StepsOK
  <2>6. handle' = [handle EXCEPT ![h] = q]
    BY <1>7
  <2> HIDE DEF q, x
  <2>7. Log(q.got, q.at, q.seq, x.events)
    BY <2>2, <2>3, <2>4, <2>5, LogStarved
  <2>8. Played(q, x)
    BY <2>3, <2>4 DEF Played
  <2>9. ExecOK(q, x)
    BY <2>3, <2>4, <2>7, <2>8 DEF ExecOK
  <2> QED
    BY <1>1, <2>6, <2>9, ReplacedHandle DEF x
<1> QED
  BY <1>3, <1>5, <1>6, <1>7

LEMMA CancelExec ==
    ASSUME PlanInv, NEW h \in Handles, Cancel(h), UNCHANGED <<bindings, exec>>
    PROVE  PlanInv'
<1> DEFINE q == [handle[h] EXCEPT !.cancelled = TRUE]
<1>1. HandleInv' /\ handle[h] \in HandleType /\ ExecOK(handle[h], exec[h])
  BY CancelKeeps DEF PlanInv, HandleInv
<1>2. Quietly(handle[h], q)
  BY <1>1 DEF Quietly, HandleType
<1>3. handle' = [handle EXCEPT ![h] = q]
  BY DEF Cancel
<1> HIDE DEF q
<1> QED
  BY <1>1, <1>2, <1>3, QuietlyOK, ReplacedHandle

LEMMA RunNextExec ==
    ASSUME PlanInv, NEW h \in Handles, RunNext(h)
    PROVE  PlanInv'
<1>1. LoopNext("run", h) /\ UNCHANGED <<bindings, exec>>
  BY DEF RunNext
<1>2. CASE Settled(handle[h]) /\ handle' = [handle EXCEPT ![h] = Settle(handle[h])]
  <2> DEFINE r == handle[h]
             q == Settle(r)
  <2>1. HandleInv' /\ r \in HandleType /\ ExecOK(r, exec[h]) /\ RecordOK(r)
    BY <1>1, LoopNextKeeps DEF PlanInv, HandleInv
  <2>2. r.status # "none"
    BY <1>2, <2>1 DEF RecordOK, Settled
  <2>3. handle' = [handle EXCEPT ![h] = q] /\ Settled(r)
    BY <1>2
  <2> HIDE DEF r
  <2>4. Quietly(r, q)
    BY <2>1, <2>2, <2>3 DEF Settle, Settled, Quietly, HandleType
  <2> HIDE DEF q
  <2> QED
    BY <1>1, <2>1, <2>3, <2>4, QuietlyOK, ReplacedHandle
<1>3. CASE Resume(h, NoBudget)
  BY <1>1, <1>3, ResumeExec, ProcessAssumption
<1> QED
  BY <1>1, <1>2, <1>3 DEF LoopNext

\* A process is started, for its own sake or by run().
LEMMA BeginExec ==
    ASSUME PlanInv, NEW h \in Handles, NEW plan \in Plans, NEW input \in Values,
           NEW budget \in Budgets,
           Process(h, plan, input, budget) \/ Run(h, plan, input, budget)
    PROVE  PlanInv'
<1> DEFINE s == Started(budget)
           x == Idle(plan, input)
<1>1. /\ HandleInv /\ handle[h].status = "none"
      /\ handle' = [handle EXCEPT ![h] = s] /\ exec' = [exec EXCEPT ![h] = x]
      /\ bindings' = bindings /\ bindings' \subseteq Impls
      /\ UNCHANGED stack \/ Push(Frame("run", h))
  BY DEF Process, Run, Begin, PlanInv
<1>2. RecordOK(s) /\ s.status = "ready" /\ RecordOK(handle[h])
  BY StartedOK DEF PlanInv, HandleInv
<1>3. s.got = <<>> /\ s.at = 0 /\ s.result = FALSE /\ s.seq = 0
  BY DEF Started, Unstarted
<1>4. StepsOK(x) /\ x.events = <<>> /\ x.at = "idle"
  BY IdleOK
<1> HIDE DEF s, x
<1>5. Keeps(handle[h], s)
  BY <1>1, <1>2 DEF Keeps, RecordOK
<1>6. HandleInv'
  <2>1. CASE UNCHANGED stack
    BY <1>1, <1>2, <1>5, <2>1, InPlace
  <2>2. CASE Push(Frame("run", h))
    BY <1>1, <1>2, <1>5, <2>2, OnPush
  <2> QED
    BY <1>1, <2>1, <2>2
<1>7. Log(s.got, s.at, s.seq, x.events)
  BY <1>3, <1>4, LogEmpty
<1>8. Played(s, x)
  <2>1. Len(<<>>) = 0 /\ 1..0 = {}
    OBVIOUS
  <2> QED
    BY <1>2, <1>3, <1>4, <2>1 DEF Played
<1>9. ExecOK(s, x) /\ x \in ExecType
  BY <1>2, <1>4, <1>7, <1>8 DEF ExecOK, StepsOK
<1> QED
  BY <1>1, <1>6, <1>9, Replaced

LEMMA RegisterExec ==
    ASSUME PlanInv, NEW impl \in Impls, Register(impl)
    PROVE  PlanInv'
<1>1. /\ handle' = handle /\ stack' = stack /\ exec' = exec
      /\ bindings' \subseteq Impls
  BY DEF Register, PlanInv
<1>2. HandleInv'
  BY <1>1 DEF PlanInv, HandleInv, PulledIn, PullIsLast
<1> QED
  BY <1>1, <1>2 DEF PlanInv

-----------------------------------------------------------------------------
(* Pulls                                                                     *)

Telling == EventKind \ {"budget_exhausted", "result"}

\* The events of a step are numbered from the context's counter on.
LEMMA MadeAsOK ==
    ASSUME NEW r \in HandleType, NEW kinds \in Seq(EventKind)
    PROVE  /\ MadeAs(r, kinds) \in Seq(EventType) /\ Len(MadeAs(r, kinds)) = Len(kinds)
           /\ \A k \in 1..Len(kinds) :
                 MadeAs(r, kinds)[k].kind = kinds[k] /\ MadeAs(r, kinds)[k].seq = r.seq + k
<1> DEFINE m == MadeAs(r, kinds)
<1>1. Len(kinds) \in Nat /\ r.seq \in Nat
  BY Fields
<1>2. ASSUME NEW k \in 1..Len(kinds)
      PROVE  m[k] \in EventType /\ m[k].kind = kinds[k] /\ m[k].seq = r.seq + k
  <2>1. kinds[k] \in EventKind /\ r.seq + k \in Nat
    BY <1>1
  <2>2. m[k] = [kind |-> kinds[k], seq |-> r.seq + k]
    BY DEF MadeAs
  <2> HIDE DEF m
  <2> QED
    BY <2>1, <2>2 DEF EventType
<1>3. m \in [1..Len(kinds) -> EventType]
  <2>1. m = [k \in 1..Len(kinds) |-> m[k]]
    BY DEF MadeAs
  <2> HIDE DEF m
  <2> QED
    BY <1>2, <2>1
<1>4. m \in Seq(EventType) /\ Len(m) = Len(kinds)
  <2> HIDE DEF m
  <2> QED
    BY <1>1, <1>3
<1> HIDE DEF m
<1>5. \A k \in 1..Len(kinds) : m[k].kind = kinds[k] /\ m[k].seq = r.seq + k
  BY <1>2
<1> QED
  BY <1>4, <1>5 DEF m

\* Events followed by events.
LEMMA Joined ==
    ASSUME NEW e \in Seq(EventType), NEW m \in Seq(EventType)
    PROVE  /\ e \o m \in Seq(EventType) /\ Len(e) \in Nat /\ Len(m) \in Nat
           /\ Len(e \o m) = Len(e) + Len(m)
           /\ \A i \in 1..(Len(e) + Len(m)) :
                 (e \o m)[i] = IF i <= Len(e) THEN e[i] ELSE m[i - Len(e)]
BY ConcatProperties

\* What a handle's own fields are after its region has made n events.
LEMMA MadeFields ==
    ASSUME NEW r \in HandleType, NEW n \in Nat
    PROVE  /\ Made(r, n) \in HandleType
           /\ Made(r, n).got = r.got /\ Made(r, n).at = r.at /\ Made(r, n).seq = r.seq + n
           /\ Made(r, n).status = r.status /\ Made(r, n).result = r.result
           /\ Made(r, n).cancelled = r.cancelled
<1>1. r.seq + n \in Nat
  BY Fields
<1> QED
  BY <1>1 DEF Made, HandleType

LEMMA YieldedFields ==
    ASSUME NEW r \in HandleType, NEW ev \in EventType
    PROVE  /\ Yielded(r, ev).got = Append(r.got, ev) /\ Yielded(r, ev).at = r.at + 1
           /\ Yielded(r, ev).seq = r.seq /\ Yielded(r, ev).status = "suspended"
           /\ Yielded(r, ev).result <=> r.result \/ ev.kind = "result"
           /\ Yielded(r, ev).cancelled = r.cancelled
BY DEF Yielded, HandleType

\* The pull that is in progress is of a handle that was started.
LEMMA PulledExec ==
    ASSUME PlanInv, NEW h \in Handles, OnTop("pull", h)
    PROVE  /\ handle[h] \in HandleType /\ handle[h].status = "running"
           /\ StepsOK(exec[h]) /\ exec[h] \in ExecType
           /\ Log(handle[h].got, handle[h].at, handle[h].seq, exec[h].events)
           /\ Played(handle[h], exec[h])
           /\ handle[h].got \in Seq(EventType) /\ handle[h].at \in Nat
           /\ handle[h].seq \in Nat /\ exec[h].events \in Seq(EventType)
<1>1. handle[h] \in HandleType /\ handle[h].status = "running" /\ ExecOK(handle[h], exec[h])
  BY TopIsRunning DEF PlanInv, HandleInv
<1>2. /\ StepsOK(exec[h]) /\ exec[h] \in ExecType
      /\ Log(handle[h].got, handle[h].at, handle[h].seq, exec[h].events)
      /\ Played(handle[h], exec[h])
  BY <1>1 DEF ExecOK, StepsOK
<1> QED
  BY <1>1, <1>2, Fields, ExecFields

\* The execution goes on, inside its first pull.
LEMMA EmitExec ==
    ASSUME PlanInv, NEW h \in Handles, InFirstPull(h),
           exec[h].at \in {"idle", "resolve", "call"},
           NEW x, StepsOK(x), x.events = exec[h].events,
           x.at \in {"resolve", "call", "finish"},
           NEW kinds \in Seq(Telling), Emit(h, x, kinds)
    PROVE  PlanInv'
<1> DEFINE r == handle[h]
           e == exec[h].events
           m == MadeAs(r, kinds)
           n == Len(kinds)
           q == Made(r, n)
           y == [x EXCEPT !.events = e \o m]
<1>1. /\ r \in HandleType /\ r.status = "running" /\ r.at = 0
      /\ Log(r.got, r.at, r.seq, e) /\ Played(r, exec[h])
      /\ r.got \in Seq(EventType) /\ r.at \in Nat /\ r.seq \in Nat /\ e \in Seq(EventType)
      /\ OnTop("pull", h)
  BY PulledExec DEF InFirstPull
<1>2. /\ exec' = [exec EXCEPT ![h] = y] /\ handle' = [handle EXCEPT ![h] = q]
      /\ UNCHANGED <<stack, bindings>>
  BY DEF Emit
<1>3. n \in Nat /\ kinds \in Seq(EventKind) /\ \A k \in 1..n : kinds[k] \in Telling
  BY DEF Telling
<1>4. /\ m \in Seq(EventType) /\ Len(m) = n
      /\ \A k \in 1..n : m[k].kind = kinds[k] /\ m[k].seq = r.seq + k
  BY <1>1, <1>3, MadeAsOK
<1>5. /\ q \in HandleType /\ q.got = r.got /\ q.at = r.at /\ q.seq = r.seq + n
      /\ q.status = r.status /\ q.result = r.result
  BY <1>1, <1>3, MadeFields
<1>6. HandleInv'
  BY <1>1, <1>2, <1>3, MadeKeeps DEF PlanInv
<1> HIDE DEF m, q, n, r, e
<1>7. \A k \in 1..Len(m) : IsTold(m[k]) /\ m[k].seq = r.seq + k /\ m[k].kind # "result"
  BY <1>3, <1>4 DEF Telling, IsTold
<1>8. Log(q.got, q.at, q.seq, e \o m)
  BY <1>1, <1>4, <1>5, <1>7, LogMade
<1>9. /\ e \o m \in Seq(EventType) /\ Len(e) \in Nat
      /\ Len(e \o m) = Len(e) + Len(m)
      /\ \A i \in 1..(Len(e) + Len(m)) : (e \o m)[i] = IF i <= Len(e) THEN e[i] ELSE m[i - Len(e)]
  BY <1>1, <1>4, Joined
<1>10. /\ StepsOK(y) /\ y.events = e \o m /\ y.at = x.at
  BY <1>9, WithEvents
<1> HIDE DEF y
<1>11. \A i \in 1..Len(e) : e[i].kind # "result"
  BY <1>1 DEF Played, e
<1>12. ASSUME NEW i \in 1..Len(y.events) PROVE y.events[i].kind # "result"
  <2>1. CASE i <= Len(e)
    BY <1>9, <1>10, <1>11, <2>1
  <2>2. CASE ~(i <= Len(e))
    <3>1. i - Len(e) \in 1..Len(m) /\ y.events[i] = m[i - Len(e)]
      BY <1>3, <1>4, <1>9, <1>10, <2>2
    <3> QED
      BY <1>7, <3>1
  <2> QED
    BY <2>1, <2>2
<1>13. Played(q, y)
  BY <1>1, <1>5, <1>10, <1>12 DEF Played
<1>14. ExecOK(q, y) /\ y \in ExecType
  BY <1>1, <1>5, <1>8, <1>10, <1>13 DEF ExecOK, StepsOK
<1> QED
  BY <1>2, <1>6, <1>14, Replaced DEF PlanInv

LEMMA ExecuteStartExec ==
    ASSUME PlanInv, NEW h \in Handles, ExecuteStart(h)
    PROVE  PlanInv'
<1> DEFINE x == exec[h]
<1>1. InFirstPull(h) /\ x.at = "idle" /\ Emit(h, Onward(x), <<"execute_start">>)
  BY DEF ExecuteStart
<1>2. StepsOK(x) /\ x \in ExecType
  BY <1>1, PulledExec DEF InFirstPull
<1>3. BetweenSteps(x)
  <2>1. Len(x.plan) \in Nat
    BY <1>2, ExecFields
  <2> HIDE DEF x
  <2> QED
    BY <1>1, <1>2, <2>1 DEF StepsOK, BetweenSteps
<1>4. /\ StepsOK(Onward(x)) /\ Onward(x).events = x.events
      /\ Onward(x).at \in {"resolve", "finish"}
  BY <1>3, OnwardOK
<1>5. <<"execute_start">> \in Seq(Telling)
  BY DEF Telling, EventKind
<1> HIDE DEF x
<1> QED
  BY <1>1, <1>4, <1>5, EmitExec DEF x

LEMMA ResolveStepExec ==
    ASSUME PlanInv, NEW h \in Handles, ResolveStep(h)
    PROVE  PlanInv'
<1> DEFINE x == exec[h]
           y == [x EXCEPT !.at = "call", !.called = Append(@, Len(x.runSteps) + 1)]
<1>1. /\ InFirstPull(h) /\ x.at = "resolve"
      /\ Emit(h, y, <<"step_start">>) \/ Emit(h, Failed(x), <<"step_start", "diagnostic">>)
  BY DEF ResolveStep, StepIndex
<1>2. StepsOK(x)
  BY <1>1, PulledExec DEF InFirstPull
<1>3. /\ StepsOK(y) /\ y.events = x.events /\ y.at = "call"
  BY <1>1, <1>2, CalledOK
<1>4. /\ StepsOK(Failed(x)) /\ Failed(x).events = x.events /\ Failed(x).at = "finish"
  BY <1>1, <1>2, FailedOK
<1>5. <<"step_start">> \in Seq(Telling) /\ <<"step_start", "diagnostic">> \in Seq(Telling)
  BY DEF Telling, EventKind
<1> HIDE DEF y
<1>6. CASE Emit(h, y, <<"step_start">>)
  BY <1>1, <1>3, <1>5, <1>6, EmitExec
<1>7. CASE Emit(h, Failed(x), <<"step_start", "diagnostic">>)
  BY <1>1, <1>4, <1>5, <1>7, EmitExec
<1> QED
  BY <1>1, <1>6, <1>7

LEMMA StepReturnsExec ==
    ASSUME PlanInv, NEW h \in Handles, StepReturns(h)
    PROVE  PlanInv'
<1> DEFINE x == exec[h]
<1>1. InFirstPull(h) /\ x.at = "call"
  BY DEF StepReturns, InStep
<1>2. PICK output \in Outputs, noted \in {0, 1} :
          Emit(h, Onward([Done(x, output) EXCEPT !.diagnostics = @ + noted]), <<"step_done">>)
  BY DEF StepReturns
<1> DEFINE d == Done(x, output)
           z == [d EXCEPT !.diagnostics = @ + noted]
           y == Onward(z)
<1>3. StepsOK(x)
  BY <1>1, PulledExec DEF InFirstPull
<1>4. BetweenSteps(d) /\ d.events = x.events
  BY <1>1, <1>3, DoneOK
<1> HIDE DEF d
<1>5. BetweenSteps(z) /\ z.events = x.events
  <2>1. noted \in Nat
    BY <1>2
  <2> QED
    BY <1>4, <2>1, NotedOK
<1> HIDE DEF z
<1>6. StepsOK(y) /\ y.events = x.events /\ y.at \in {"resolve", "finish"}
  BY <1>5, OnwardOK
<1>7. Emit(h, y, <<"step_done">>)
  BY <1>2 DEF z, d
<1>8. <<"step_done">> \in Seq(Telling)
  BY DEF Telling, EventKind
<1> HIDE DEF y
<1> QED
  BY <1>1, <1>6, <1>7, <1>8, EmitExec

LEMMA StepRaisesExec ==
    ASSUME PlanInv, NEW h \in Handles, StepRaises(h)
    PROVE  PlanInv'
<1> DEFINE x == exec[h]
<1>1. InFirstPull(h) /\ x.at = "call" /\ Emit(h, Failed(x), <<"diagnostic">>)
  BY DEF StepRaises, InStep
<1>2. StepsOK(x)
  BY <1>1, PulledExec DEF InFirstPull
<1>3. /\ StepsOK(Failed(x)) /\ Failed(x).events = x.events /\ Failed(x).at = "finish"
  BY <1>1, <1>2, FailedOK
<1>4. <<"diagnostic">> \in Seq(Telling)
  BY DEF Telling, EventKind
<1> QED
  BY <1>1, <1>3, <1>4, EmitExec

\* What an execution that raises had made is lost, but none of it was told.
LEMMA ResolveRaisesExec ==
    ASSUME PlanInv, NEW h \in Handles, ResolveRaises(h)
    PROVE  PlanInv'
<1> DEFINE r == handle[h]
           x == exec[h]
           q == [r EXCEPT !.status = "failed"]
           y == [x EXCEPT !.at = "lost"]
           z == [y EXCEPT !.events = <<>>]
<1>1. /\ InFirstPull(h) /\ x.at = "resolve" /\ PullRaises(h) /\ OnTop("pull", h)
      /\ exec' = [exec EXCEPT ![h].at = "lost", ![h].events = <<>>]
      /\ handle' = [handle EXCEPT ![h] = q] /\ bindings' = bindings
  BY DEF ResolveRaises, PullRaises
<1>2. /\ r \in HandleType /\ StepsOK(x) /\ x \in ExecType /\ Log(r.got, r.at, r.seq, x.events)
      /\ Played(r, x) /\ r.at = 0 /\ r.got \in Seq(EventType) /\ r.seq \in Nat
  BY <1>1, PulledExec DEF InFirstPull
<1>3. HandleInv'
  BY <1>1, PullStopsKeeps DEF PlanInv
<1>4. /\ q.got = r.got /\ q.at = r.at /\ q.seq = r.seq /\ q.result = r.result
      /\ q.status = "failed"
  BY <1>2 DEF HandleType
<1>5. StepsOK(y) /\ y.at = "lost"
  BY <1>2, WithAt
<1>6. exec' = [exec EXCEPT ![h] = z]
  <2>1. exec[h] \in ExecType /\ exec \in [Handles -> ExecType \cup {NoPlan}]
    BY <1>2 DEF PlanInv
  <2> QED
    BY <1>1, <2>1 DEF ExecType
<1> HIDE DEF y, q
<1>7. StepsOK(z) /\ z.events = <<>> /\ z.at = "lost"
  <2>1. <<>> \in Seq(EventType)
    OBVIOUS
  <2> QED
    BY <1>5, <2>1, WithEvents
<1> HIDE DEF z
<1>8. Log(q.got, q.at, q.seq, z.events)
  BY <1>2, <1>4, <1>7, LogLost
<1>9. Played(q, z)
  <2>1. Len(<<>>) = 0 /\ 1..0 = {} /\ ~r.result
    BY <1>1, <1>2 DEF Played
  <2> QED
    BY <1>2, <1>4, <1>7, <2>1 DEF Played
<1>10. ExecOK(q, z) /\ z \in ExecType
  BY <1>4, <1>7, <1>8, <1>9 DEF ExecOK, StepsOK
<1> QED
  BY <1>1, <1>3, <1>6, <1>10, Replaced DEF PlanInv

\* A yield is one of the handle's own, with the events the region made.
LEMMA YieldedExec ==
    ASSUME PlanInv, NEW h \in Handles, OnTop("pull", h), Pop, bindings' = bindings,
           NEW n \in Nat, NEW x, StepsOK(x), x.at = "finished",
           Log(handle[h].got, handle[h].at, handle[h].seq + n, x.events),
           handle[h].at + 1 <= Len(x.events),
           \A i \in 1..Len(x.events) : x.events[i].kind = "result" <=> i = Len(x.events),
           handle[h].result <=> handle[h].at = Len(x.events),
           exec' = [exec EXCEPT ![h] = x],
           handle' = [handle EXCEPT ![h] =
                        Yielded(Made(handle[h], n), x.events[handle[h].at + 1])]
    PROVE  PlanInv'
<1> DEFINE r == handle[h]
           e == x.events
           ev == e[r.at + 1]
           p == Made(r, n)
           q == Yielded(p, ev)
<1>1. /\ r \in HandleType /\ r.status = "running" /\ r.got \in Seq(EventType)
      /\ r.at \in Nat /\ r.seq \in Nat
  BY PulledExec
<1>2. x \in ExecType /\ e \in Seq(EventType) /\ Len(e) \in Nat
  BY ExecFields DEF StepsOK
<1>3. r.at + 1 \in 1..Len(e) /\ ev \in EventType
  BY <1>1, <1>2
<1>4. HandleInv'
  BY <1>3, YieldKeeps DEF PlanInv
<1>5. /\ p \in HandleType /\ p.got = r.got /\ p.at = r.at /\ p.seq = r.seq + n
      /\ p.result = r.result
  BY <1>1, MadeFields
<1> HIDE DEF p, ev
<1>6. /\ q.got = Append(r.got, ev) /\ q.at = r.at + 1 /\ q.seq = r.seq + n
      /\ q.status = "suspended"
      /\ q.result <=> r.result \/ ev.kind = "result"
  BY <1>3, <1>5, YieldedFields
<1>7. handle' = [handle EXCEPT ![h] = q]
  BY DEF p, ev
<1>8. r.seq + n \in Nat
  BY <1>1
<1>9. Log(Append(r.got, ev), r.at + 1, r.seq + n, e)
  BY <1>1, <1>2, <1>8, LogYielded DEF ev
<1>10. q.result <=> q.at = Len(e)
  <2>1. (r.result <=> r.at = Len(e)) /\ (ev.kind = "result" <=> r.at + 1 = Len(e))
    BY <1>3 DEF ev
  <2>2. ~(r.at = Len(e))
    BY <1>1, <1>2
  <2> QED
    BY <1>6, <2>1, <2>2
<1> HIDE DEF q, r, e
<1>11. Played(q, x)
  <2>1. Len(e) > 0
    BY <1>2, <1>3
  <2>2. \A i \in 1..Len(e) : e[i].kind = "result" <=> i = Len(e)
    BY DEF e
  <2> QED
    BY <1>6, <1>10, <2>1, <2>2 DEF Played, e
<1>12. ExecOK(q, x)
  BY <1>6, <1>9, <1>11 DEF ExecOK, e
<1> QED
  BY <1>2, <1>4, <1>7, <1>12, Replaced DEF PlanInv

LEMMA ExecuteFinishExec ==
    ASSUME PlanInv, NEW h \in Handles, ExecuteFinish(h)
    PROVE  PlanInv'
<1> DEFINE r == handle[h]
           x == exec[h]
           kinds == <<"execute_done", "result">>
           m == MadeAs(r, kinds)
           e == x.events \o m
           y == [x EXCEPT !.at = "finished"]
           z == [y EXCEPT !.events = e]
<1>1. /\ InFirstPull(h) /\ OnTop("pull", h) /\ x.at = "finish" /\ Pop /\ bindings' = bindings
      /\ exec' = [exec EXCEPT ![h] = [x EXCEPT !.at = "finished", !.events = e]]
      /\ handle' = [handle EXCEPT ![h] = Yielded(Made(r, 2), e[1])]
  BY DEF ExecuteFinish, InFirstPull
<1>2. /\ r \in HandleType /\ StepsOK(x) /\ x \in ExecType /\ Log(r.got, r.at, r.seq, x.events)
      /\ Played(r, x) /\ r.at = 0 /\ r.got \in Seq(EventType) /\ r.seq \in Nat
      /\ x.events \in Seq(EventType) /\ r.at \in Nat
  BY <1>1, PulledExec DEF InFirstPull
<1>3. kinds \in Seq(EventKind) /\ Len(kinds) = 2 /\ kinds[1] = "execute_done" /\ kinds[2] = "result"
  BY DEF EventKind
<1> HIDE DEF kinds
<1>4. /\ m \in Seq(EventType) /\ Len(m) = 2
      /\ \A k \in 1..2 : m[k].kind = kinds[k] /\ m[k].seq = r.seq + k
  BY <1>2, <1>3, MadeAsOK
<1> HIDE DEF m
<1>5. \A k \in 1..Len(m) : IsTold(m[k]) /\ m[k].seq = r.seq + k
  BY <1>3, <1>4 DEF IsTold
<1>6. Log(r.got, r.at, r.seq + 2, e)
  BY <1>2, <1>4, <1>5, LogMade
<1>7. /\ e \in Seq(EventType) /\ Len(x.events) \in Nat
      /\ Len(e) = Len(x.events) + 2
      /\ \A i \in 1..(Len(x.events) + 2) :
            e[i] = IF i <= Len(x.events) THEN x.events[i] ELSE m[i - Len(x.events)]
  <2>1. /\ e \in Seq(EventType) /\ Len(x.events) \in Nat
        /\ Len(e) = Len(x.events) + Len(m)
        /\ \A i \in 1..(Len(x.events) + Len(m)) :
              e[i] = IF i <= Len(x.events) THEN x.events[i] ELSE m[i - Len(x.events)]
    BY <1>2, <1>4, Joined
  <2> HIDE DEF e
  <2> QED
    BY <1>4, <2>1
<1>8. StepsOK(y) /\ y.at = "finished"
  BY <1>1, <1>2, WithAt
<1>9. [x EXCEPT !.at = "finished", !.events = e] = z
  BY <1>2 DEF ExecType
<1> HIDE DEF e
<1>10. StepsOK(z) /\ z.events = e /\ z.at = "finished"
  <2> HIDE DEF y
  <2> QED
    BY <1>7, <1>8, WithEvents
<1>11. ASSUME NEW i \in 1..Len(e) PROVE e[i].kind = "result" <=> i = Len(e)
  <2>1. CASE i <= Len(x.events)
    <3>1. i \in 1..Len(x.events) /\ i # Len(e) /\ e[i] = x.events[i]
      BY <1>7, <2>1
    <3> QED
      BY <1>1, <1>2, <3>1 DEF Played
  <2>2. CASE i = Len(x.events) + 1
    <3>1. i - Len(x.events) = 1 /\ i # Len(e) /\ e[i] = m[i - Len(x.events)]
      BY <1>7, <2>2
    <3> QED
      BY <1>3, <1>4, <3>1
  <2>3. CASE i = Len(x.events) + 2
    <3>1. i - Len(x.events) = 2 /\ i = Len(e) /\ e[i] = m[i - Len(x.events)]
      BY <1>7, <2>3
    <3> QED
      BY <1>3, <1>4, <3>1
  <2> QED
    BY <1>7, <2>1, <2>2, <2>3
<1>12. ~r.result /\ ~(r.at = Len(e)) /\ r.at + 1 <= Len(e)
  BY <1>1, <1>2, <1>7 DEF Played
<1>13. exec' = [exec EXCEPT ![h] = z] /\ handle' = [handle EXCEPT ![h] = Yielded(Made(r, 2), e[r.at + 1])]
  BY <1>1, <1>2, <1>9
<1> HIDE DEF z, y
<1>14. \A i \in 1..Len(z.events) : z.events[i].kind = "result" <=> i = Len(z.events)
  BY <1>10, <1>11
<1>15. /\ Log(handle[h].got, handle[h].at, handle[h].seq + 2, z.events)
       /\ handle[h].at + 1 <= Len(z.events)
       /\ handle[h].result <=> handle[h].at = Len(z.events)
       /\ handle' = [handle EXCEPT ![h] =
                       Yielded(Made(handle[h], 2), z.events[handle[h].at + 1])]
  BY <1>6, <1>10, <1>12, <1>13
<1> QED
  BY <1>1, <1>10, <1>13, <1>14, <1>15, YieldedExec

LEMMA ReplayExec ==
    ASSUME PlanInv, NEW h \in Handles, Replay(h)
    PROVE  PlanInv'
<1> DEFINE r == handle[h]
           x == exec[h]
<1>1. /\ OnTop("pull", h) /\ x.at = "finished" /\ bindings' = bindings /\ exec' = exec
      /\ \/ /\ r.at + 1 <= Len(x.events) /\ Pop
            /\ handle' = [handle EXCEPT ![h] = Yielded(r, x.events[r.at + 1])]
         \/ ~(r.at + 1 <= Len(x.events)) /\ PullEnds(h)
  BY DEF Replay, MoreEvents, EventIndex
<1>2. /\ r \in HandleType /\ StepsOK(x) /\ x \in ExecType /\ Log(r.got, r.at, r.seq, x.events)
      /\ Played(r, x) /\ r.seq \in Nat /\ r.at \in Nat /\ x.events \in Seq(EventType)
      /\ r.status = "running"
  BY <1>1, PulledExec
<1>3. CASE /\ r.at + 1 <= Len(x.events) /\ Pop
           /\ handle' = [handle EXCEPT ![h] = Yielded(r, x.events[r.at + 1])]
  <2>1. Made(r, 0) = r /\ r.seq + 0 = r.seq
    <3>1. r.seq + 0 = r.seq
      BY <1>2
    <3>2. [r EXCEPT !.seq = r.seq] = r
      BY <1>2 DEF HandleType
    <3> QED
      BY <3>1, <3>2 DEF Made
  <2>2. exec' = [exec EXCEPT ![h] = x]
    BY <1>1 DEF PlanInv
  <2>3. /\ \A i \in 1..Len(x.events) : x.events[i].kind = "result" <=> i = Len(x.events)
        /\ r.result <=> r.at = Len(x.events)
    BY <1>1, <1>2 DEF Played
  <2>4. /\ Log(r.got, r.at, r.seq + 0, x.events)
        /\ handle' = [handle EXCEPT ![h] = Yielded(Made(r, 0), x.events[r.at + 1])]
        /\ 0 \in Nat
    BY <1>2, <1>3, <2>1
  <2> QED
    BY <1>1, <1>2, <1>3, <2>2, <2>3, <2>4, YieldedExec
<1>4. CASE ~(r.at + 1 <= Len(x.events)) /\ PullEnds(h)
  <2> DEFINE q == [r EXCEPT !.status = "done"]
  <2>1. HandleInv'
    BY <1>4, PullStopsKeeps DEF PlanInv
  <2>2. handle' = [handle EXCEPT ![h] = q]
    BY <1>4 DEF PullEnds
  <2>3. /\ q.got = r.got /\ q.at = r.at /\ q.seq = r.seq /\ q.result = r.result
        /\ q.status = "done"
    BY <1>2 DEF HandleType
  <2>4. r.result
    <3>1. Len(x.events) \in Nat /\ r.at <= Len(x.events)
      BY <1>2 DEF Log, ToldUpTo
    <3>2. r.at = Len(x.events)
      BY <1>2, <1>4, <3>1
    <3> QED
      BY <1>1, <1>2, <3>2 DEF Played
  <2> HIDE DEF q
  <2>5. Played(q, x)
    BY <1>2, <2>3, <2>4 DEF Played
  <2>6. ExecOK(q, x)
    BY <1>2, <2>3, <2>5 DEF ExecOK
  <2> QED
    BY <1>1, <2>1, <2>2, <2>6, ReplacedHandle
<1> QED
  BY <1>1, <1>3, <1>4

-----------------------------------------------------------------------------

LEMMA PlanInvInit == Init => PlanInv
<1> SUFFICES ASSUME Init PROVE PlanInv
  OBVIOUS
<1>1. /\ handle = [h \in Handles |-> Unstarted] /\ stack = <<>>
      /\ bindings = {} /\ exec = [h \in Handles |-> NoPlan]
  BY DEF Init
<1>2. RecordOK(Unstarted) /\ Unstarted.status = "none"
  BY StartedOK, ProcessAssumption DEF Unstarted
<1>3. Unstarted \in HandleType
  BY <1>2 DEF RecordOK
<1>4. stack \in Seq(Frames) /\ Len(stack) = 0
  BY <1>1
<1>5. \A h \in Handles : ~PulledIn(stack, h) /\ PullIsLast(stack, h)
  BY <1>4 DEF PulledIn, PullIsLast
<1>6. HandleInv
  BY <1>1, <1>2, <1>3, <1>4, <1>5 DEF HandleInv
<1> QED
  BY <1>1, <1>2, <1>6 DEF PlanInv, ExecOK

LEMMA PlanInvNext == PlanInv /\ [Next]_vars => PlanInv'
<1> SUFFICES ASSUME PlanInv, [Next]_vars PROVE PlanInv'
  OBVIOUS
<1>1. CASE UNCHANGED vars
  <2>1. handle' = handle /\ stack' = stack /\ bindings' = bindings /\ exec' = exec
    BY <1>1 DEF vars
  <2>2. HandleInv'
    BY <2>1 DEF PlanInv, HandleInv, PulledIn, PullIsLast
  <2> QED
    BY <2>1, <2>2 DEF PlanInv
<1>2. ASSUME NEW impl \in Impls, Register(impl) PROVE PlanInv'
  BY <1>2, RegisterExec
<1>3. ASSUME NEW h \in Handles, NEW budget \in Budgets, NEW plan \in Plans, NEW input \in Values,
             Process(h, plan, input, budget) \/ Run(h, plan, input, budget)
      PROVE  PlanInv'
  BY <1>3, BeginExec
<1>4. ASSUME NEW h \in Handles, NEW budget \in Budgets,
             Resume(h, budget) /\ UNCHANGED <<bindings, exec>>
      PROVE  PlanInv'
  BY <1>4, ResumeExec
<1>5. ASSUME NEW h \in Handles, Cancel(h) /\ UNCHANGED <<bindings, exec>> PROVE PlanInv'
  BY <1>5, CancelExec
<1>6. ASSUME NEW h \in Handles, RunNext(h) PROVE PlanInv'
  BY <1>6, RunNextExec
<1>7. ASSUME NEW h \in Handles, PullNext(h) PROVE PlanInv'
  BY <1>7, ExecuteStartExec, ResolveStepExec, ResolveRaisesExec, StepReturnsExec,
     StepRaisesExec, ExecuteFinishExec, ReplayExec DEF PullNext
<1> QED
  BY <1>1, <1>2, <1>3, <1>4, <1>5, <1>6, <1>7 DEF Next, UserNext

-----------------------------------------------------------------------------
(* What the runs check                                                       *)

LEMMA PlannedOK ==
    ASSUME PlanInv, NEW h \in Planned
    PROVE  /\ handle[h] \in HandleType
           /\ StepsOK(exec[h]) /\ Played(handle[h], exec[h])
           /\ Log(handle[h].got, handle[h].at, handle[h].seq, exec[h].events)
<1>1. h \in Handles /\ exec[h] # NoPlan /\ ExecOK(handle[h], exec[h])
  BY DEF Planned, PlanInv
<1> QED
  BY <1>1 DEF ExecOK, PlanInv, HandleInv

\* Handles, executions and the registry keep their types, however processes
\* are nested, budgeted, cancelled and resumed.
THEOREM ExecuteTypes == Spec => []TypeOK
<1>1. PlanInv => TypeOK
  BY HandleInvImplies DEF PlanInv, TypeOK
<1> QED
  BY <1>1, PlanInvInit, PlanInvNext, PTL DEF Spec

\* The code of a plan's steps is called in order and each step's at most once,
\* for any plans, registries, budgets, cancels and nesting.
THEOREM ExecuteOnce == Spec => []StepsRunOnce
<1>1. PlanInv => StepsRunOnce
  <2> SUFFICES ASSUME PlanInv, NEW h \in Planned
               PROVE  /\ exec[h].called = [k \in 1..Len(exec[h].called) |-> k]
                      /\ Len(exec[h].called) <= Len(exec[h].plan)
    BY DEF StepsRunOnce
  <2>1. StepsOK(exec[h])
    BY PlannedOK
  <2>2. exec[h].called \in Seq(Nat)
    BY <2>1, ExecFields DEF StepsOK
  <2>3. /\ \A k \in 1..Len(exec[h].called) : exec[h].called[k] = k
        /\ Len(exec[h].called) <= Len(exec[h].plan)
    BY <2>1 DEF StepsOK
  <2>4. exec[h].called = [k \in 1..Len(exec[h].called) |-> exec[h].called[k]]
    BY <2>2
  <2> QED
    BY <2>3, <2>4
<1> QED
  BY <1>1, PlanInvInit, PlanInvNext, PTL DEF Spec

\* A finished report is true of what the steps were given and returned, for
\* plans of any length.
THEOREM ExecuteReport == Spec => []ReportIsTrue
<1>1. PlanInv => ReportIsTrue
  <2> SUFFICES ASSUME PlanInv, NEW h \in Planned, exec[h].at \in {"finish", "finished"}
               PROVE  LET x == exec[h] IN
                      LET n == Len(x.steps) IN
                      /\ StepsChain(x)
                      /\ x.ok <=> n = Len(x.plan)
                      /\ \A k \in 1..n : x.runSteps[k] = "done"
                      /\ x.ok => Len(x.runSteps) = n
                      /\ ~x.ok => /\ Len(x.runSteps) = n + 1 /\ x.runSteps[n + 1] = "failed"
                                  /\ Len(x.called) \in {n, n + 1}
                                  /\ x.diagnostics >= 1
    BY DEF ReportIsTrue
  <2> DEFINE x == exec[h]
             n == Len(x.steps)
             out == [k \in 0..n |-> IF k = 0 THEN x.input ELSE x.steps[k].output]
  <2>1. StepsOK(x) /\ x \in ExecType /\ (AllDone(x) \/ OneFailed(x))
    BY PlannedOK DEF StepsOK
  <2>2. n \in Nat /\ Len(x.plan) \in Nat
    BY <2>1, ExecFields
  <2>3. StepsChain(x)
    <3>1. Chained(x)
      BY <2>1 DEF StepsOK
    <3> HIDE DEF x
    <3>2. ASSUME NEW k \in 1..(n + 1) PROVE InputOf(x, k) = out[k - 1]
      <4>1. k - 1 \in 0..n /\ (k - 1 = 0 <=> k = 1)
        BY <2>2
      <4> QED
        BY <4>1 DEF InputOf
    <3>3. \A k \in 1..n : k \in 1..(n + 1)
      BY <2>2
    <3>4. n + 1 \in 1..(n + 1) /\ (n + 1) - 1 = n
      BY <2>2
    <3> HIDE DEF out
    <3>5. \A k \in 1..n : x.steps[k].input = out[k - 1]
      BY <3>1, <3>2, <3>3 DEF Chained
    <3>6. x.current = out[n]
      BY <3>1, <3>2, <3>4 DEF Chained
    <3> QED
      BY <3>5, <3>6 DEF StepsChain, out
  <2>4. \A k \in 1..n : x.runSteps[k] = "done"
    BY <2>1 DEF StepsOK
  <2>5. /\ x.ok <=> n = Len(x.plan)
        /\ x.ok => Len(x.runSteps) = n
        /\ ~x.ok => /\ Len(x.runSteps) = n + 1 /\ x.runSteps[n + 1] = "failed"
                    /\ Len(x.called) \in {n, n + 1}
                    /\ x.diagnostics >= 1
    BY <2>1, <2>2 DEF AllDone, OneFailed
  <2> QED
    BY <2>3, <2>4, <2>5
<1> QED
  BY <1>1, PlanInvInit, PlanInvNext, PTL DEF Spec

\* resume() delivers an execution's events in order, each once, and only after
\* the whole plan has run.
THEOREM ExecuteDelivery == Spec => []DeliveredInOrder
<1>1. PlanInv => DeliveredInOrder
  <2> SUFFICES ASSUME PlanInv, NEW h \in Planned
               PROVE  LET got == handle[h].got IN
                      LET events == exec[h].events IN
                      LET told == {k \in 1..Len(got) : got[k].kind # "budget_exhausted"} IN
                      /\ {got[k] : k \in told} = {events[i] : i \in 1..handle[h].at}
                      /\ \A j, k \in told : j < k => got[j].seq < got[k].seq
                      /\ \A i, j \in 1..Len(events) : i < j => events[i].seq < events[j].seq
                      /\ told # {} => exec[h].at = "finished"
                      /\ \A j, k \in 1..Len(got) : got[j].seq = got[k].seq => j = k
    BY DEF DeliveredInOrder
  <2> DEFINE got == handle[h].got
             events == exec[h].events
             at == handle[h].at
             told == {k \in 1..Len(got) : got[k].kind # "budget_exhausted"}
  <2>1. /\ Log(got, at, handle[h].seq, events) /\ Played(handle[h], exec[h])
        /\ handle[h] \in HandleType /\ exec[h] \in ExecType
    BY PlannedOK DEF StepsOK
  <2>2. /\ ToldUpTo(got, at, events) /\ InOrderOnce(got)
        /\ \A i, j \in 1..Len(events) : i < j => events[i].seq < events[j].seq
        /\ \A i \in 1..Len(events) : IsTold(events[i])
    BY <2>1 DEF Log, NumbersUpTo
  <2>3. at \in Nat /\ Len(events) \in Nat /\ at <= Len(events)
    BY <2>1, <2>2, Fields, ExecFields DEF ToldUpTo
  <2>4. \A k \in 1..Len(got) : k \in told <=> IsTold(got[k])
    BY DEF IsTold
  <2>5. told \subseteq 1..Len(got)
    OBVIOUS
  <2>6. exec[h].at # "finished" => at = 0
    BY <2>1 DEF Played
  <2> HIDE DEF told, got, events, at
  <2>7. ASSUME NEW k \in told PROVE \E i \in 1..at : got[k] = events[i]
    BY <2>2, <2>4, <2>5 DEF ToldUpTo
  <2>8. ASSUME NEW i \in 1..at PROVE \E k \in told : got[k] = events[i]
    <3>1. PICK k \in 1..Len(got) : got[k] = events[i]
      BY <2>2 DEF ToldUpTo
    <3>2. i \in 1..Len(events)
      BY <2>3
    <3>3. IsTold(got[k])
      BY <2>2, <3>1, <3>2
    <3> QED
      BY <2>4, <3>1, <3>3
  <2>9. {got[k] : k \in told} = {events[i] : i \in 1..at}
    BY <2>7, <2>8
  <2>10. /\ \A j, k \in told : j < k => got[j].seq < got[k].seq
         /\ \A j, k \in 1..Len(got) : got[j].seq = got[k].seq => j = k
    BY <2>2, <2>4, <2>5 DEF InOrderOnce
  <2>11. told # {} => exec[h].at = "finished"
    <3> SUFFICES ASSUME NEW k \in told, exec[h].at # "finished" PROVE FALSE
      OBVIOUS
    <3>1. PICK i \in 1..at : got[k] = events[i]
      BY <2>7
    <3> QED
      BY <2>6, <3>1
  <2> QED
    BY <2>2, <2>9, <2>10, <2>11 DEF told, got, events, at
<1> QED
  BY <1>1, PlanInvInit, PlanInvNext, PTL DEF Spec

\* executor:run() never returns nil for a plan that ran: an execution that ends
\* by itself has its result, the last of its events.
THEOREM ExecuteResult == Spec => []EndHasResult
<1>1. PlanInv => EndHasResult
  <2> SUFFICES ASSUME PlanInv, NEW h \in Planned
               PROVE  /\ handle[h].status = "done" /\ ~handle[h].cancelled => handle[h].result
                      /\ handle[h].result => handle[h].at = Len(exec[h].events)
    BY DEF EndHasResult
  <2>1. Played(handle[h], exec[h])
    BY PlannedOK
  <2> QED
    BY <2>1 DEF Played
<1> QED
  BY <1>1, PlanInvInit, PlanInvNext, PTL DEF Spec
=============================================================================
