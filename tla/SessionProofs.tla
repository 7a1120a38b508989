--------------------------- MODULE SessionProofs ---------------------------
(* Proofs about the session loop: its types; that its list of window ids    *)
(* and its table of windows never disagree; the lives of windows, hosts and *)
(* the text system; that owed draws and deadlines are kept; and which       *)
(* callbacks are started.                                                   *)
EXTENDS Session, SequenceTheorems, WellFoundedInduction, TLAPS

------------------------------------------------------------------------------
(* Frames and stacks                                                        *)

\* The fields of a frame may be changed one by one.
LEMMA FrameUpdates ==
    ASSUME NEW f \in FrameType
    PROVE  /\ f.fn \in {"run", "step", "dispatch", "update", "draw", "closeWindow",
                        "close", "callback"}
           /\ f.w \in Windows \cup {NoWindow} /\ f.i \in Nat /\ f.n \in Int
           /\ f.evs \in Seq(Events) /\ f.left \in 0..MaxCalls
           /\ \A a \in {"loop", "after", "delay", "exit", "poll", "events", "dispatched",
                        "check", "draw", "idle", "start", "scan", "raw", "route", "host"} :
                  [f EXCEPT !.at = a] \in FrameType
           /\ [f EXCEPT !.i = @ + 1] \in FrameType
BY DEF FrameType, Kinds

\* A new frame is a frame.
LEMMA FrameTyped ==
    ASSUME NEW w \in Windows \cup {NoWindow}
    PROVE  /\ Frame("step", "poll", w) \in FrameType
           /\ Frame("run", "loop", w) \in FrameType
           /\ Frame("dispatch", "global", w) \in FrameType
           /\ Frame("update", "start", w) \in FrameType
           /\ Frame("draw", "start", w) \in FrameType
           /\ Frame("close", "loop", w) \in FrameType
           /\ Frame("closeWindow", "host", w) \in FrameType
           /\ \A k \in Kinds : Callback(k, w) \in FrameType
<1>1. 0 \in 0..MaxCalls /\ MaxCalls \in 0..MaxCalls
  BY SessionAssumption
<1>2. <<>> \in Seq(Events)
  OBVIOUS
<1>3. \A fn \in {"run", "step", "dispatch", "update", "draw", "closeWindow", "close",
                 "callback"}, at \in Kinds \cup {"loop", "poll", "start", "host"} :
          Frame(fn, at, w) \in FrameType
  BY <1>1, <1>2 DEF Frame, FrameType
<1>4. \A k \in Kinds : Callback(k, w) \in FrameType
  <2> SUFFICES ASSUME NEW k \in Kinds PROVE Callback(k, w) \in FrameType
    OBVIOUS
  <2>1. Frame("callback", k, w) \in FrameType
    BY <1>3
  <2> QED
    BY <2>1, <1>1 DEF Callback, FrameType
<1> QED
  BY <1>3, <1>4 DEF Kinds

\* The running function's frame and the ones below it.
LEMMA TopTyped ==
    ASSUME stack \in Seq(FrameType), stack # <<>>
    PROVE  Top \in FrameType /\ Below \in Seq(FrameType)
BY DEF Top, Below

\* Going on, calling and returning keep a stack of frames.
LEMMA StackMoves ==
    ASSUME stack \in Seq(FrameType), stack # <<>>
    PROVE  /\ Return => stack' \in Seq(FrameType)
           /\ \A f \in FrameType : Goto(f) => stack' \in Seq(FrameType)
           /\ \A a \in {"loop", "after", "delay", "exit", "poll", "events", "dispatched",
                        "check", "draw", "idle", "start", "scan", "raw", "route", "host"} :
                  GoAt(a) => stack' \in Seq(FrameType)
           /\ \A f, g \in FrameType : Call(g, f) => stack' \in Seq(FrameType)
           /\ \A k \in Kinds, w \in Windows \cup {NoWindow}, f \in FrameType :
                  Invoke(k, w, f) => stack' \in Seq(FrameType)
<1>1. Top \in FrameType /\ Below \in Seq(FrameType)
  BY TopTyped
<1>2. \A f \in FrameType : Append(Below, f) \in Seq(FrameType)
  BY <1>1
<1>3. \A f, g \in FrameType : Append(Append(Below, f), g) \in Seq(FrameType)
  BY <1>2
<1>4. \A k \in Kinds, w \in Windows \cup {NoWindow} : Callback(k, w) \in FrameType
  BY FrameTyped
<1>5. Return => stack' \in Seq(FrameType)
  BY <1>1 DEF Return
<1>6. \A f \in FrameType : Goto(f) => stack' \in Seq(FrameType)
  BY <1>2 DEF Goto
<1>7. \A a \in {"loop", "after", "delay", "exit", "poll", "events", "dispatched",
                 "check", "draw", "idle", "start", "scan", "raw", "route", "host"} :
          GoAt(a) => stack' \in Seq(FrameType)
  BY <1>1, <1>6, FrameUpdates DEF GoAt
<1>8. \A f, g \in FrameType : Call(g, f) => stack' \in Seq(FrameType)
  BY <1>3 DEF Call
<1>9. \A k \in Kinds, w \in Windows \cup {NoWindow}, f \in FrameType :
          Invoke(k, w, f) => stack' \in Seq(FrameType)
  BY <1>4, <1>6, <1>8 DEF Invoke
<1> QED
  BY <1>5, <1>6, <1>7, <1>8, <1>9

\* What user code leaves on the stack when it makes a call.
LEMMA CallerTyped ==
    ASSUME stack \in Seq(FrameType), NEW name, May(name)
    PROVE  Caller \in Seq(FrameType)
<1>1. CASE stack = <<>>
  BY <1>1 DEF Caller
<1>2. CASE stack # <<>>
  <2>1. Top \in FrameType /\ Below \in Seq(FrameType) /\ Top.left > 0
    BY <1>2, TopTyped DEF May
  <2>2. [Top EXCEPT !.left = @ - 1] \in FrameType
    <3>1. Top.left \in 0..MaxCalls
      BY <2>1 DEF FrameType
    <3>2. Top.left - 1 \in 0..MaxCalls
      BY <2>1, <3>1, SessionAssumption
    <3> QED
      BY <2>1, <3>2 DEF FrameType
  <2> QED
    BY <1>2, <2>1, <2>2 DEF Caller
<1> QED
  BY <1>1, <1>2

------------------------------------------------------------------------------
(* Windows                                                                  *)

\* A set of naturals that is not empty has a least member.
LEMMA LeastNatural ==
    ASSUME NEW S \in SUBSET Nat, S # {}
    PROVE  \E t \in S : \A u \in S : t <= u
<1> DEFINE R == {ss \in Nat \X Nat : ss[1] < ss[2]}
<1>1. IsWellFoundedOn(R, Nat)
  BY NatLessThanWellFounded DEF OpToRel
<1>2. \E t \in S : \A u \in S : ~ (<<u, t>> \in R)
  <2> HIDE DEF R
  <2> QED
    BY <1>1, WFMin
<1>3. PICK t \in S : \A u \in S : ~ (<<u, t>> \in R)
  BY <1>2
<1>4. \A u \in S : t <= u
  <2> SUFFICES ASSUME NEW u \in S PROVE t <= u
    OBVIOUS
  <2>1. u \in Nat /\ t \in Nat /\ ~ (u < t)
    BY <1>3
  <2> QED
    BY <2>1
<1> QED
  BY <1>4

\* Of two times, either may be nil.
LEMMA EarlierTyped ==
    ASSUME NEW a \in Nat \cup {NoTime}, NEW b \in Nat \cup {NoTime}
    PROVE  Earlier(a, b) \in Nat \cup {NoTime}
BY DEF Earlier

\* Marking a window for a redraw changes neither its type nor its host.
LEMMA MarkedTyped ==
    ASSUME win \in [Windows -> WindowType], now \in 0..MaxTime, NEW w \in Windows
    PROVE  /\ Marked(w) \in WindowType /\ Marked(w).host = win[w].host
           /\ MarkedNow(w) \in WindowType /\ MarkedNow(w).host = win[w].host
<1>1. win[w] \in WindowType /\ now \in Nat
  BY SessionAssumption
<1>2. Earlier(win[w].owed, now) \in Nat \cup {NoTime}
  BY <1>1, EarlierTyped DEF WindowType
<1>3. Marked(w) \in WindowType /\ Marked(w).host = win[w].host
  BY <1>1, <1>2 DEF Marked, WindowType
<1> QED
  BY <1>3 DEF MarkedNow, WindowType, NoTime

\* How long run() sleeps is a number.
LEMMA SleepTyped ==
    ASSUME win \in [Windows -> WindowType], now \in 0..MaxTime, windows \subseteq Windows
    PROVE  SleepMs \in Nat
<1>1. NowMs \in Nat /\ FrameDelay \in Nat
  BY SessionAssumption DEF NowMs
<1>2. Deadlines \in SUBSET Nat
  BY DEF Deadlines, WindowType
<1>3. CASE Deadlines = {}
  BY <1>1, <1>3 DEF SleepMs
<1>4. CASE Deadlines # {}
  <2>1. \E t \in Deadlines : \A u \in Deadlines : t <= u
    BY <1>2, <1>4, LeastNatural
  <2>2. SoonestRedrawAt \in Nat
    BY <1>2, <2>1 DEF SoonestRedrawAt
  <2> QED
    BY <1>1, <1>4, <2>2 DEF SleepMs
<1> QED
  BY <1>3, <1>4

NoRepeat(s) == \A i, j \in 1..Len(s) : s[i] = s[j] => i = j
Members(s) == {s[i] : i \in 1..Len(s)}

\* Removing a window from a list without repetitions leaves the others, in the
\* same order, without repetitions.
LEMMA RemoveFirstRemoves ==
    ASSUME NEW W, NEW s \in Seq(W), NEW w \in Members(s), NoRepeat(s),
           NEW t, t = RemoveFirst(s, w)
    PROVE  t \in Seq(W) /\ NoRepeat(t) /\ Members(t) = Members(s) \ {w}
<1>8. /\ \A i, j \in 1..Len(s) : s[i] = s[j] => i = j
      /\ \E k \in 1..Len(s) : s[k] = w
  BY DEF NoRepeat, Members
<1> DEFINE p == PositionOf(s, w)
<1>1. p \in 1..Len(s) /\ s[p] = w
  BY <1>8 DEF PositionOf
<1>2. t = [k \in 1..(Len(s) - 1) |-> IF k < p THEN s[k] ELSE s[k + 1]]
  BY <1>8 DEF RemoveFirst
<1>7. \A k \in 1..(Len(s) - 1) : t[k] = IF k < p THEN s[k] ELSE s[k + 1]
  BY <1>2
<1> HIDE DEF p
<1>3. \A k \in 1..(Len(s) - 1) : t[k] \in W
  BY <1>1, <1>7
<1>4. t \in Seq(W) /\ Len(t) = Len(s) - 1
  BY <1>1, <1>2, <1>3
<1>5. \A i, j \in 1..Len(t) : t[i] = t[j] => i = j
  <2> SUFFICES ASSUME NEW i \in 1..Len(t), NEW j \in 1..Len(t), t[i] = t[j] PROVE i = j
    OBVIOUS
  <2>1. i \in 1..(Len(s) - 1) /\ j \in 1..(Len(s) - 1) /\ Len(s) \in Nat
    BY <1>4
  <2> DEFINE k == IF i < p THEN i ELSE i + 1
             l == IF j < p THEN j ELSE j + 1
  <2>2. t[i] = s[k] /\ t[j] = s[l]
    BY <1>7, <2>1
  <2>3. k \in 1..Len(s) /\ l \in 1..Len(s)
    BY <2>1
  <2>4. k = l => i = j
    BY <1>1, <2>1
  <2> HIDE DEF k, l
  <2> QED
    BY <1>8, <2>2, <2>3, <2>4
<1>6. {t[i] : i \in 1..Len(t)} = {s[i] : i \in 1..Len(s)} \ {w}
  <2>1. \A i \in 1..Len(t) : \E k \in 1..Len(s) : k # p /\ t[i] = s[k]
    BY <1>1, <1>4, <1>7
  <2>2. \A k \in 1..Len(s) : k # p => \E i \in 1..Len(t) : t[i] = s[k]
    <3> SUFFICES ASSUME NEW k \in 1..Len(s), k # p PROVE \E i \in 1..Len(t) : t[i] = s[k]
      OBVIOUS
    <3>1. CASE k < p
      <4>1. k \in 1..Len(t) /\ t[k] = s[k]
        BY <1>1, <1>4, <1>7, <3>1
      <4> QED
        BY <4>1
    <3>2. CASE k > p
      <4>1. k - 1 \in 1..(Len(s) - 1) /\ ~ (k - 1 < p) /\ (k - 1) + 1 = k
        BY <1>1, <3>2
      <4>2. t[k - 1] = s[(k - 1) + 1]
        BY <1>7, <4>1
      <4> QED
        BY <1>4, <4>1, <4>2
    <3> QED
      BY <1>1, <3>1, <3>2
  <2>3. \A k \in 1..Len(s) : (s[k] = w) <=> (k = p)
    BY <1>1, <1>8
  <2>4. \A i \in 1..Len(t) : t[i] \in {s[k] : k \in 1..Len(s)} \ {w}
    BY <2>1, <2>3
  <2>5. \A k \in 1..Len(s) : s[k] # w => s[k] \in {t[i] : i \in 1..Len(t)}
    BY <2>2, <2>3
  <2> QED
    BY <2>4, <2>5
<1> QED
  BY <1>4, <1>5, <1>6 DEF NoRepeat, Members

\* The same, in the terms of OrderIsWindows.
LEMMA OrderRemoves ==
    ASSUME NEW w \in windows, order \in Seq(Windows), OrderIsWindows,
           order' = RemoveFirst(order, w)
    PROVE  order' \in Seq(Windows) /\ NoRepeat(order') /\ Members(order') = windows \ {w}
<1>1. NoRepeat(order) /\ windows = Members(order)
  BY DEF OrderIsWindows, NoRepeat, Members
<1> QED
  BY <1>1, RemoveFirstRemoves

------------------------------------------------------------------------------
(* The inductive invariant.  OrderIsWindows needs the types, and that a      *)
(* window that is created was not listed: listed windows have had a host.   *)

ListedHasHost == \A w \in windows : win[w].host # "none"
IInv == TypeOK /\ OrderIsWindows /\ ListedHasHost

\* What a step does to the window records: no host is taken back.
WinKept ==
    /\ win' \in [Windows -> WindowType]
    /\ \A w \in Windows : win[w].host # "none" => win'[w].host # "none"

LEMMA MarkKeeps ==
    ASSUME TypeOK, NEW S, Mark(S) \/ ArmDueRedraws
    PROVE  WinKept
<1>1. \A w \in Windows : /\ Marked(w) \in WindowType /\ Marked(w).host = win[w].host
                        /\ MarkedNow(w) \in WindowType /\ MarkedNow(w).host = win[w].host
  BY MarkedTyped DEF TypeOK
<1> QED
  BY <1>1 DEF TypeOK, WinKept, Mark, ArmDueRedraws

\* Unlisting a window and starting to close it.
LEMMA CloseFromKeeps ==
    ASSUME IInv, NEW below \in Seq(FrameType), NEW w \in windows, CloseFrom(below, w)
    PROVE  /\ windows' \subseteq windows /\ order' \in Seq(Windows)
           /\ OrderIsWindows' /\ stack' \in Seq(FrameType)
<1>1. order \in Seq(Windows) /\ w \in Windows
  BY DEF IInv, TypeOK
<1>4. order' = RemoveFirst(order, w) /\ windows' = windows \ {w}
  BY DEF CloseFrom
<1>5. order' \in Seq(Windows) /\ NoRepeat(order') /\ Members(order') = windows \ {w}
  BY <1>1, <1>4, OrderRemoves DEF IInv
<1>6. OrderIsWindows'
  BY <1>4, <1>5 DEF OrderIsWindows, NoRepeat, Members
<1>7. stack' \in Seq(FrameType)
  <2>1. Frame("closeWindow", "host", w) \in FrameType /\ Callback("close", w) \in FrameType
    BY <1>1, FrameTyped DEF Kinds
  <2> QED
    BY <2>1 DEF CloseFrom
<1> QED
  BY <1>4, <1>5, <1>6, <1>7

\* A step that leaves both lists alone keeps the invariant if it keeps the rest.
LEMMA ListsUnchanged ==
    ASSUME IInv, windows' = windows, order' = order, WinKept,
           self' \in SelfType, now' \in 0..MaxTime, stack' \in Seq(FrameType)
    PROVE  IInv'
<1>1. OrderIsWindows'
  BY DEF IInv, OrderIsWindows
<1>2. ListedHasHost'
  BY DEF IInv, ListedHasHost, WinKept, TypeOK
<1> QED
  BY <1>1, <1>2 DEF IInv, TypeOK, WinKept

\* A step of the session's functions that only moves the stack.
LEMMA OnlyStackKeeps ==
    ASSUME IInv, OnlyStack, stack' \in Seq(FrameType)
    PROVE  IInv'
<1>1. WinKept
  BY DEF IInv, TypeOK, OnlyStack, WinKept
<1> QED
  BY <1>1, ListsUnchanged DEF IInv, TypeOK, OnlyStack

\* The functions of the main loop: run, step.
LEMMA RunAndStep ==
    ASSUME IInv,
           \/ RunLoop \/ RunAfterStep \/ RunWakes \/ RunExit \/ StepPoll \/ StepDispatches
           \/ StepDispatched \/ StepUpdates \/ StepDraws \/ StepIdles
    PROVE  IInv'
<1>1. stack \in Seq(FrameType) /\ stack # <<>>
  BY DEF IInv, TypeOK, At, RunLoop, RunAfterStep, RunWakes, RunExit, StepPoll, StepDispatches,
         StepDispatched, StepUpdates, StepDraws, StepIdles
<1>2. Top \in FrameType
  BY <1>1, TopTyped
<1> DEFINE Moves == {"loop", "after", "delay", "exit", "poll", "events", "dispatched",
                     "check", "draw", "idle", "start", "scan", "raw", "route", "host"}
<1>3. \A a \in Moves : [Top EXCEPT !.at = a] \in FrameType
  BY <1>2, FrameUpdates
<1>4. /\ \A f \in FrameType : Goto(f) => stack' \in Seq(FrameType)
      /\ \A a \in Moves : GoAt(a) => stack' \in Seq(FrameType)
      /\ \A f, g \in FrameType : Call(g, f) => stack' \in Seq(FrameType)
      /\ Return => stack' \in Seq(FrameType)
  BY <1>1, StackMoves
<1>5. CASE RunLoop
  <2>1. stack' \in Seq(FrameType)
    BY <1>3, <1>4, <1>5, FrameTyped DEF RunLoop
  <2> QED
    BY <1>5, <2>1, OnlyStackKeeps DEF RunLoop
<1>6. CASE RunAfterStep
  <2>1. self' \in SelfType
    BY <1>6 DEF RunAfterStep, IInv, TypeOK, SelfType
  <2>2. now + SleepMs \in Int
    BY SleepTyped, SessionAssumption DEF IInv, TypeOK
  <2>3. [Top EXCEPT !.at = "delay", !.n = now + SleepMs] \in FrameType
    BY <1>2, <2>2 DEF FrameType
  <2>4. stack' \in Seq(FrameType)
    BY <1>4, <1>6, <2>3 DEF RunAfterStep
  <2>5. WinKept
    BY <1>6 DEF RunAfterStep, IInv, TypeOK, WinKept
  <2> QED
    BY <1>6, <2>1, <2>4, <2>5, ListsUnchanged DEF RunAfterStep, IInv, TypeOK
<1>7. CASE RunWakes
  <2>1. stack' \in Seq(FrameType)
    BY <1>4, <1>7 DEF RunWakes
  <2> QED
    BY <1>7, <2>1, OnlyStackKeeps DEF RunWakes
<1>8. CASE RunExit
  <2>1. self' \in SelfType
    BY <1>8 DEF RunExit, IInv, TypeOK, SelfType
  <2>2. stack' \in Seq(FrameType)
    BY <1>4, <1>8, FrameTyped DEF RunExit
  <2>3. WinKept
    BY <1>8 DEF RunExit, IInv, TypeOK, WinKept
  <2> QED
    BY <1>8, <2>1, <2>2, <2>3, ListsUnchanged DEF RunExit, IInv, TypeOK
<1>9. CASE StepPoll
  <2>5. PICK k \in 0..MaxEvents : \E evs \in [1..k -> Events] :
            Goto([Top EXCEPT !.at = "events", !.evs = evs])
    BY <1>9 DEF StepPoll
  <2>1. PICK evs \in [1..k -> Events] : Goto([Top EXCEPT !.at = "events", !.evs = evs])
    BY <2>5
  <2>2. evs \in Seq(Events)
    BY SessionAssumption
  <2>3. [Top EXCEPT !.at = "events", !.evs = evs] \in FrameType
    BY <1>2, <2>2 DEF FrameType
  <2>4. stack' \in Seq(FrameType)
    BY <1>4, <2>1, <2>3
  <2> QED
    BY <1>9, <2>4, OnlyStackKeeps DEF StepPoll
<1>10. CASE StepDispatches
  <2>1. CASE Top.evs = <<>>
    <3>1. stack' \in Seq(FrameType)
      BY <1>4, <1>10, <2>1 DEF StepDispatches
    <3> QED
      BY <1>10, <3>1, OnlyStackKeeps DEF StepDispatches
  <2>2. CASE Top.evs # <<>>
    <3>1. Top.evs \in Seq(Events)
      BY <1>2 DEF FrameType
    <3>2. <<Head(Top.evs)>> \in Seq(Events) /\ Tail(Top.evs) \in Seq(Events)
      BY <2>2, <3>1
    <3>3. [Frame("dispatch", "global", NoWindow) EXCEPT !.evs = <<Head(Top.evs)>>] \in FrameType
      <4>1. Frame("dispatch", "global", NoWindow) \in FrameType
        BY FrameTyped
      <4> QED
        BY <3>2, <4>1 DEF FrameType
    <3>4. [Top EXCEPT !.at = "dispatched", !.evs = Tail(@)] \in FrameType
      BY <1>2, <3>2 DEF FrameType
    <3>5. stack' \in Seq(FrameType)
      BY <1>4, <1>10, <2>2, <3>3, <3>4 DEF StepDispatches
    <3> QED
      BY <1>10, <3>5, OnlyStackKeeps DEF StepDispatches
  <2> QED
    BY <2>1, <2>2
<1>11. CASE StepDispatched
  <2>1. stack' \in Seq(FrameType)
    BY <1>4, <1>11 DEF StepDispatched
  <2> QED
    BY <1>11, <2>1, OnlyStackKeeps DEF StepDispatched
<1>12. CASE StepUpdates
  <2>1. stack' \in Seq(FrameType)
    BY <1>3, <1>4, <1>12, FrameTyped DEF StepUpdates
  <2> QED
    BY <1>12, <2>1, OnlyStackKeeps DEF StepUpdates
<1>13. CASE StepDraws
  <2>1. stack' \in Seq(FrameType)
    BY <1>3, <1>4, <1>13, FrameTyped DEF StepDraws
  <2> QED
    BY <1>13, <2>1, OnlyStackKeeps DEF StepDraws
<1>14. CASE StepIdles
  <2>1. stack' \in Seq(FrameType)
    BY <1>4, <1>14, FrameTyped DEF StepIdles, Kinds
  <2> QED
    BY <1>14, <2>1, OnlyStackKeeps DEF StepIdles
<1> QED
  BY <1>5, <1>6, <1>7, <1>8, <1>9, <1>10, <1>11, <1>12, <1>13, <1>14

\* The loops over the windows: update, draw.
LEMMA UpdateAndDraw ==
    ASSUME IInv, UpdateStart \/ UpdateScan \/ UpdateNext \/ DrawStart \/ DrawNext
    PROVE  IInv'
<1>1. stack \in Seq(FrameType) /\ stack # <<>>
  BY DEF IInv, TypeOK, At, UpdateStart, UpdateScan, UpdateNext, DrawStart, DrawNext
<1>2. Top \in FrameType
  BY <1>1, TopTyped
<1>3. Following \in FrameType /\ [Top EXCEPT !.at = "scan"] \in FrameType
  BY <1>2, FrameUpdates DEF Following
<1>4. [Top EXCEPT !.at = "loop", !.n = Len(order)] \in FrameType
  <2>1. Len(order) \in Int
    BY DEF IInv, TypeOK
  <2> QED
    BY <1>2, <2>1 DEF FrameType
<1>5. windows \subseteq Windows /\ win \in [Windows -> WindowType]
  BY DEF IInv, TypeOK
<1>6. /\ \A f \in FrameType : Goto(f) => stack' \in Seq(FrameType)
      /\ \A f, g \in FrameType : Call(g, f) => stack' \in Seq(FrameType)
      /\ \A k \in Kinds, w \in Windows \cup {NoWindow}, f \in FrameType :
             Invoke(k, w, f) => stack' \in Seq(FrameType)
      /\ Return => stack' \in Seq(FrameType)
  BY <1>1, StackMoves
<1>7. CASE UpdateStart
  <2>1. WinKept
    BY <1>7, MarkKeeps DEF UpdateStart, IInv
  <2>2. stack' \in Seq(FrameType)
    BY <1>3, <1>6, <1>7 DEF UpdateStart, Kinds
  <2> QED
    BY <1>7, <2>1, <2>2, ListsUnchanged DEF UpdateStart, IInv, TypeOK
<1>8. CASE UpdateScan
  <2>1. stack' \in Seq(FrameType)
    BY <1>4, <1>6, <1>8 DEF UpdateScan
  <2> QED
    BY <1>8, <2>1, OnlyStackKeeps DEF UpdateScan
<1>9. CASE UpdateNext
  <2>1. CASE Top.i > Top.n
    <3>1. stack' \in Seq(FrameType)
      BY <1>6, <1>9, <2>1 DEF UpdateNext
    <3> QED
      BY <1>9, <3>1, OnlyStackKeeps DEF UpdateNext
  <2>2. CASE ~ (Top.i > Top.n)
    <3>1. stack' \in Seq(FrameType)
      BY <1>3, <1>5, <1>6, <1>9, <2>2 DEF UpdateNext, Kinds
    <3> QED
      BY <1>9, <3>1, OnlyStackKeeps DEF UpdateNext
  <2> QED
    BY <2>1, <2>2
<1>10. CASE DrawStart
  <2>1. WinKept
    BY <1>10, MarkKeeps DEF DrawStart, IInv
  <2>2. stack' \in Seq(FrameType)
    BY <1>4, <1>6, <1>10 DEF DrawStart
  <2> QED
    BY <1>10, <2>1, <2>2, ListsUnchanged DEF DrawStart, IInv, TypeOK
<1>11. CASE DrawNext
  <2>1. WinKept
    <3>1. CASE win' = win
      BY <1>5, <3>1 DEF WinKept
    <3>2. CASE win' # win
      <4>1. PICK w : /\ w = InOrder(Top.i) /\ w \in Windows
                     /\ win' = [win EXCEPT ![w].redrawAt = NoTime, ![w].owed = NoTime]
        BY <1>5, <1>11, <3>2 DEF DrawNext, WantsDraw
      <4> QED
        BY <1>5, <4>1 DEF WinKept, WindowType
    <3> QED
      BY <3>1, <3>2
  <2>2. stack' \in Seq(FrameType)
    <3>1. CASE Top.i > Top.n
      BY <1>6, <1>11, <3>1 DEF DrawNext
    <3>2. CASE ~ (Top.i > Top.n) /\ WantsDraw(InOrder(Top.i))
      <4>1. InOrder(Top.i) \in Windows
        BY <1>5, <3>2 DEF WantsDraw
      <4>2. Callback("draw", InOrder(Top.i)) \in FrameType
        BY <4>1, FrameTyped DEF Kinds
      <4> QED
        BY <1>3, <1>6, <1>11, <3>2, <4>2 DEF DrawNext
    <3>3. CASE ~ (Top.i > Top.n) /\ ~WantsDraw(InOrder(Top.i))
      BY <1>3, <1>6, <1>11, <3>3 DEF DrawNext
    <3> QED
      BY <3>1, <3>2, <3>3
  <2> QED
    BY <1>11, <2>1, <2>2, ListsUnchanged DEF DrawNext, IInv, TypeOK
<1> QED
  BY <1>7, <1>8, <1>9, <1>10, <1>11

\* A step that unlists windows keeps the invariant if it touches no host.
LEMMA ClosingKeeps ==
    ASSUME IInv, NEW below \in Seq(FrameType), NEW w \in windows, CloseFrom(below, w),
           UNCHANGED <<win, self, now>>
    PROVE  IInv'
<1>1. /\ windows' \subseteq windows /\ order' \in Seq(Windows)
      /\ OrderIsWindows' /\ stack' \in Seq(FrameType)
  BY CloseFromKeeps
<1>2. TypeOK'
  BY <1>1 DEF IInv, TypeOK
<1>3. ListedHasHost'
  BY <1>1 DEF IInv, ListedHasHost
<1> QED
  BY <1>1, <1>2, <1>3 DEF IInv

\* Event dispatch.
LEMMA Dispatching ==
    ASSUME IInv,
           DispatchGlobal \/ DispatchRoute \/ DispatchRaw \/ DispatchAutoClose \/ DispatchRedraw
    PROVE  IInv'
<1>1. stack \in Seq(FrameType) /\ stack # <<>>
  BY DEF IInv, TypeOK, At, DispatchGlobal, DispatchRoute, DispatchRaw, DispatchAutoClose,
         DispatchRedraw
<1>2. Top \in FrameType /\ Below \in Seq(FrameType)
  BY <1>1, TopTyped
<1>3. Following \in FrameType /\ [Top EXCEPT !.at = "route"] \in FrameType
  BY <1>2, FrameUpdates DEF Following
<1>4. windows \subseteq Windows
  BY DEF IInv, TypeOK
<1>5. /\ \A f, g \in FrameType : Call(g, f) => stack' \in Seq(FrameType)
      /\ \A k \in Kinds, w \in Windows \cup {NoWindow}, f \in FrameType :
             Invoke(k, w, f) => stack' \in Seq(FrameType)
      /\ Return => stack' \in Seq(FrameType)
  BY <1>1, StackMoves
<1>6. CASE DispatchGlobal
  <2>1. stack' \in Seq(FrameType)
    BY <1>3, <1>5, <1>6 DEF DispatchGlobal, Kinds
  <2> QED
    BY <1>6, <2>1, OnlyStackKeeps DEF DispatchGlobal
<1>7. CASE DispatchRoute
  <2>1. self' \in SelfType
    <3>1. (self.stop \/ Ev.type = "quit") \in BOOLEAN
      OBVIOUS
    <3> QED
      BY <1>7, <3>1 DEF DispatchRoute, IInv, TypeOK, SelfType
  <2>2. stack' \in Seq(FrameType)
    <3>1. CASE Ev.type # "quit" /\ Ev.w \in windows
      <4>1. [Top EXCEPT !.at = "raw", !.w = Ev.w] \in FrameType
        BY <1>2, <1>4, <3>1 DEF FrameType, Kinds
      <4> QED
        BY <1>4, <1>5, <1>7, <3>1, <4>1 DEF DispatchRoute, Kinds
    <3>2. CASE ~ (Ev.type # "quit" /\ Ev.w \in windows)
      BY <1>5, <1>7, <3>2 DEF DispatchRoute
    <3> QED
      BY <3>1, <3>2
  <2>3. WinKept
    BY <1>7 DEF DispatchRoute, IInv, TypeOK, WinKept
  <2> QED
    BY <1>7, <2>1, <2>2, <2>3, ListsUnchanged DEF DispatchRoute, IInv, TypeOK
<1>8. CASE DispatchRaw
  <2>1. CASE Return
    BY <1>5, <1>8, <2>1, OnlyStackKeeps DEF DispatchRaw
  <2>2. CASE Listed(Top.w) /\ Call(Callback("raw", Top.w), Following)
    <3>1. Callback("raw", Top.w) \in FrameType
      BY <1>4, <2>2, FrameTyped DEF Listed, Kinds
    <3>2. stack' \in Seq(FrameType)
      BY <1>3, <1>5, <2>2, <3>1
    <3> QED
      BY <1>8, <3>2, OnlyStackKeeps DEF DispatchRaw
  <2> QED
    BY <1>8, <2>1, <2>2 DEF DispatchRaw
<1>9. CASE DispatchAutoClose
  BY <1>2, <1>9, ClosingKeeps DEF DispatchAutoClose, Listed
<1>10. CASE DispatchRedraw
  <2>1. WinKept
    BY <1>10, MarkKeeps DEF DispatchRedraw, IInv
  <2> QED
    BY <1>5, <1>10, <2>1, ListsUnchanged DEF DispatchRedraw, IInv, TypeOK
<1> QED
  BY <1>6, <1>7, <1>8, <1>9, <1>10

\* Closing windows and the text system.
LEMMA ClosingSteps ==
    ASSUME IInv, CloseWindowHost \/ CloseNextWindow \/ CloseText
    PROVE  IInv'
<1>1. stack \in Seq(FrameType) /\ stack # <<>>
  BY DEF IInv, TypeOK, At, CloseWindowHost, CloseNextWindow, CloseText
<1>2. Return => stack' \in Seq(FrameType)
  BY <1>1, StackMoves
<1>3. CASE CloseWindowHost
  <2>1. WinKept
    BY <1>3 DEF CloseWindowHost, IInv, TypeOK, WinKept, WindowType
  <2> QED
    BY <1>2, <1>3, <2>1, ListsUnchanged DEF CloseWindowHost, IInv, TypeOK
<1>4. CASE CloseNextWindow
  BY <1>1, <1>4, ClosingKeeps DEF CloseNextWindow
<1>5. CASE CloseText
  <2>1. self' \in SelfType /\ WinKept
    BY <1>5 DEF CloseText, IInv, TypeOK, SelfType, WinKept
  <2> QED
    BY <1>2, <1>5, <2>1, ListsUnchanged DEF CloseText, IInv, TypeOK
<1> QED
  BY <1>3, <1>4, <1>5

\* A window that is created goes to the end of the order it was not in.
LEMMA Creating ==
    ASSUME IInv, NEW w \in Windows, CreateWindow(w)
    PROVE  IInv'
<1>1. w \notin windows
  BY DEF CreateWindow, IInv, ListedHasHost
<1>2. /\ order \in Seq(Windows) /\ NoRepeat(order) /\ windows = Members(order)
      /\ windows' = windows \cup {w} /\ order' = Append(order, w)
  BY DEF CreateWindow, IInv, TypeOK, OrderIsWindows, NoRepeat, Members
<1>3. order' \in Seq(Windows) /\ NoRepeat(order') /\ Members(order') = Members(order) \cup {w}
  <2>1. /\ order' \in Seq(Windows) /\ Len(order') = Len(order) + 1
        /\ \A i \in 1..Len(order) : order'[i] = order[i]
        /\ order'[Len(order) + 1] = w
    BY <1>2
  <2>2. NoRepeat(order')
    BY <1>1, <1>2, <2>1 DEF NoRepeat, Members
  <2>3. Members(order') = Members(order) \cup {w}
    BY <1>2, <2>1 DEF Members
  <2> QED
    BY <2>1, <2>2, <2>3
<1>4. OrderIsWindows'
  BY <1>2, <1>3 DEF OrderIsWindows, NoRepeat, Members
<1>5. stack' \in Seq(FrameType)
  <2>1. Caller \in Seq(FrameType)
    BY CallerTyped DEF CreateWindow, IInv, TypeOK
  <2>2. Callback("init", w) \in FrameType
    BY FrameTyped DEF Kinds
  <2> QED
    BY <2>1, <2>2 DEF CreateWindow
<1>6. win' \in [Windows -> WindowType] /\ \A v \in windows' : win'[v].host # "none"
  <2>1. PICK needs \in BOOLEAN :
            win' = [win EXCEPT ![w] = [host |-> "open", text |-> self.textOpen, needs |-> needs,
                         redrawAt |-> NoTime, owed |-> IF needs THEN now ELSE NoTime]]
    BY DEF CreateWindow
  <2>2. now \in Nat /\ self.textOpen \in BOOLEAN
    BY SessionAssumption DEF IInv, TypeOK, SelfType
  <2>3. win'[w] \in WindowType /\ win'[w].host = "open"
    BY <2>1, <2>2 DEF IInv, TypeOK, WindowType
  <2>4. win' \in [Windows -> WindowType] /\ \A v \in Windows : v # w => win'[v] = win[v]
    BY <2>1, <2>3 DEF IInv, TypeOK
  <2> QED
    BY <1>2, <2>3, <2>4 DEF IInv, TypeOK, ListedHasHost
<1>7. self' = self /\ now' = now /\ windows' \subseteq Windows
  BY <1>2 DEF CreateWindow, IInv, TypeOK
<1> QED
  BY <1>3, <1>4, <1>5, <1>6, <1>7 DEF IInv, TypeOK, ListedHasHost

\* The other calls of user code.
LEMMA Calling ==
    ASSUME IInv, UserCall
    PROVE  IInv'
<1>1. stack \in Seq(FrameType) /\ windows \subseteq Windows
      /\ win \in [Windows -> WindowType] /\ now \in 0..MaxTime
  BY DEF IInv, TypeOK
<1>2. \A name : May(name) => Caller \in Seq(FrameType)
  BY <1>1, CallerTyped
<1>3. ASSUME NEW w \in Windows, CloseWindow(w) PROVE IInv'
  <2>1. CASE Listed(w)
    BY <1>2, <1>3, <2>1, ClosingKeeps DEF CloseWindow, Listed
  <2>2. CASE ~Listed(w)
    BY <1>2, <1>3, <2>2, OnlyStackKeeps DEF CloseWindow, OnlyStack
  <2> QED
    BY <2>1, <2>2
<1>4. ASSUME NEW w \in Windows, CancelRedraw(w) PROVE IInv'
  <2>1. WinKept
    BY <1>1, <1>4 DEF CancelRedraw, WinKept, WindowType
  <2> QED
    BY <1>2, <1>4, <2>1, ListsUnchanged DEF CancelRedraw, IInv, TypeOK
<1>5. ASSUME NEW S, RequestRedraw(S) PROVE IInv'
  <2>1. WinKept
    BY <1>5, MarkKeeps DEF RequestRedraw, IInv
  <2> QED
    BY <1>2, <1>5, <2>1, ListsUnchanged DEF RequestRedraw, IInv, TypeOK
<1>6. ASSUME NEW w \in windows, NEW t \in 0..MaxTime, RequestRedrawAt(w, t) PROVE IInv'
  <2>1. MarkedNow(w) \in WindowType /\ MarkedNow(w).host = win[w].host
    BY <1>1, MarkedTyped
  <2>2. /\ Earlier(win[w].redrawAt, t) \in Nat \cup {NoTime}
        /\ Earlier(win[w].owed, t) \in Nat \cup {NoTime}
    <3>1. /\ win[w].redrawAt \in Nat \cup {NoTime} /\ win[w].owed \in Nat \cup {NoTime}
          /\ t \in Nat \cup {NoTime}
      BY <1>1, SessionAssumption DEF WindowType
    <3> QED
      BY <3>1, EarlierTyped
  <2>3. PICK r \in WindowType : win' = [win EXCEPT ![w] = r] /\ r.host = win[w].host
    <3>1. CASE t <= NowMs
      BY <1>6, <2>1, <3>1 DEF RequestRedrawAt
    <3>2. CASE ~ (t <= NowMs)
      <4>1. win[w] \in WindowType
        BY <1>1
      <4>2. MarkedAt(w, t) \in WindowType /\ MarkedAt(w, t).host = win[w].host
        BY <2>2, <4>1 DEF MarkedAt, WindowType
      <4> QED
        BY <1>6, <3>2, <4>2 DEF RequestRedrawAt
    <3> QED
      BY <3>1, <3>2
  <2>4. WinKept
    BY <1>1, <2>3 DEF WinKept
  <2> QED
    BY <1>2, <1>6, <2>4, ListsUnchanged DEF RequestRedrawAt, IInv, TypeOK
<1>7. CASE Stop
  <2>1. self' \in SelfType /\ WinKept
    BY <1>7 DEF Stop, IInv, TypeOK, SelfType, WinKept
  <2> QED
    BY <1>2, <1>7, <2>1, ListsUnchanged DEF Stop, IInv, TypeOK
<1>8. CASE Close
  <2>1. self' \in SelfType /\ WinKept
    BY <1>8 DEF Close, IInv, TypeOK, SelfType, WinKept
  <2>2. stack' \in Seq(FrameType)
    BY <1>2, <1>8, FrameTyped DEF Close
  <2> QED
    BY <1>8, <2>1, <2>2, ListsUnchanged DEF Close, IInv, TypeOK
<1> QED
  BY <1>3, <1>4, <1>5, <1>6, <1>7, <1>8, Creating DEF UserCall

\* The ends of callbacks.
LEMMA CallbacksEnd ==
    ASSUME IInv, CallbackReturns \/ CallbackRaises
    PROVE  IInv'
<1>1. CASE CallbackReturns
  <2>1. stack' \in Seq(FrameType)
    BY <1>1, StackMoves DEF CallbackReturns, IInv, TypeOK
  <2>2. WinKept
    <3>1. CASE Top.at = "update"
      BY <1>1, <3>1, MarkKeeps DEF CallbackReturns, IInv
    <3>2. CASE Top.at = "draw"
      <4>1. \A w \in Windows : /\ [win[w] EXCEPT !.needs = FALSE] \in WindowType
                              /\ [win[w] EXCEPT !.needs = FALSE].host = win[w].host
        BY DEF IInv, TypeOK, WindowType
      <4>2. win' = [w \in Windows |-> IF w \in Drawn(Top.w)
                                      THEN [win[w] EXCEPT !.needs = FALSE] ELSE win[w]]
        BY <1>1, <3>2 DEF CallbackReturns
      <4> QED
        BY <4>1, <4>2 DEF IInv, TypeOK, WinKept
    <3>3. CASE Top.at # "update" /\ Top.at # "draw"
      BY <1>1, <3>3 DEF CallbackReturns, IInv, TypeOK, WinKept
    <3> QED
      BY <3>1, <3>2, <3>3
  <2> QED
    BY <1>1, <2>1, <2>2, ListsUnchanged DEF CallbackReturns, IInv, TypeOK
<1>2. CASE CallbackRaises
  <2>1. self' \in SelfType /\ WinKept
    BY <1>2 DEF CallbackRaises, IInv, TypeOK, SelfType, WinKept
  <2>2. stack' \in Seq(FrameType)
    BY <1>2 DEF CallbackRaises
  <2> QED
    BY <1>2, <2>1, <2>2, ListsUnchanged DEF CallbackRaises, IInv, TypeOK
<1> QED
  BY <1>1, <1>2

\* What the top level starts, and time.
LEMMA Starting ==
    ASSUME IInv, Run \/ Step \/ Tick
    PROVE  IInv'
<1>1. NowMs \in Nat
  BY SessionAssumption DEF IInv, TypeOK, NowMs
<1>2. CASE Run
  <2>1. [Frame("run", "loop", NoWindow) EXCEPT !.i = NowMs] \in FrameType
    <3>1. Frame("run", "loop", NoWindow) \in FrameType
      BY FrameTyped
    <3> QED
      BY <1>1, <3>1 DEF FrameType
  <2>2. self' \in SelfType /\ WinKept
    BY <1>2 DEF Run, IInv, TypeOK, SelfType, WinKept
  <2> QED
    BY <1>2, <2>1, <2>2, ListsUnchanged DEF Run, IInv, TypeOK
<1>3. CASE Step
  BY <1>3, FrameTyped, OnlyStackKeeps DEF Step
<1>4. CASE Tick
  <2>1. now' \in 0..MaxTime /\ WinKept
    BY <1>4, SessionAssumption DEF Tick, IInv, TypeOK, WinKept
  <2> QED
    BY <1>4, <2>1, ListsUnchanged DEF Tick, IInv, TypeOK
<1> QED
  BY <1>2, <1>3, <1>4

LEMMA InitIInv == Init => IInv
<1> SUFFICES ASSUME Init PROVE IInv
  OBVIOUS
<1>1. TypeOK
  BY SessionAssumption DEF Init, TypeOK, WindowType, SelfType
<1>2. OrderIsWindows /\ ListedHasHost
  BY DEF Init, OrderIsWindows, ListedHasHost
<1> QED
  BY <1>1, <1>2 DEF IInv

LEMMA NextIInv == IInv /\ [Next]_vars => IInv'
<1> SUFFICES ASSUME IInv, [Next]_vars PROVE IInv'
  OBVIOUS
<1>1. CASE SessionStep
  BY <1>1, RunAndStep, UpdateAndDraw, Dispatching, ClosingSteps DEF SessionStep
<1>2. CASE CallbackReturns \/ CallbackRaises
  BY <1>2, CallbacksEnd
<1>3. CASE UserCall
  BY <1>3, Calling
<1>4. CASE Run \/ Step \/ Tick
  BY <1>4, Starting
<1>5. CASE UNCHANGED vars
  BY <1>5 DEF vars, IInv, TypeOK, OrderIsWindows, ListedHasHost
<1> QED
  BY <1>1, <1>2, <1>3, <1>4, <1>5 DEF Next

\* The session's state keeps its types: its tables, flags, clock and call stack.
THEOREM SessionTypes == Spec => []TypeOK
<1>1. Spec => []IInv
  BY InitIInv, NextIInv, PTL DEF Spec
<1>2. IInv => TypeOK
  BY DEF IInv
<1> QED
  BY <1>1, <1>2, PTL

\* self.order and self.windows list the same windows, each once, whatever the
\* callbacks do and wherever an error strikes, for any number of windows.
THEOREM SessionOrder == Spec => []OrderIsWindows
<1>1. Spec => []IInv
  BY InitIInv, NextIInv, PTL DEF Spec
<1>2. IInv => OrderIsWindows
  BY DEF IInv
<1> QED
  BY <1>1, <1>2, PTL

------------------------------------------------------------------------------
(* The life of windows and hosts.  What a step does to the call stack is    *)
(* said in these terms: the close_window calls in progress, the on_draw     *)
(* callbacks in progress, and whether run() sleeps.                         *)

ClosersIn(s, w) == {k \in 1..Len(s) : s[k].fn = "closeWindow" /\ s[k].w = w}
DrawnIn(s, w) ==
    \E k \in 1..Len(s) : s[k].fn = "callback" /\ s[k].at = "draw" /\ s[k].w = w
Sleeping(f) == f.fn = "run" /\ f.at = "delay"
AwakeIn(s) == \A k \in 1..Len(s) : ~Sleeping(s[k])

\* A frame that is none of the three
Harmless(f) ==
    f.fn # "closeWindow" /\ ~ (f.fn = "callback" /\ f.at = "draw") /\ ~Sleeping(f)

\* t closes the same windows as s, draws no other window and puts no run to sleep
Like(t, s) ==
    /\ \A w \in Windows : ClosersIn(t, w) = ClosersIn(s, w) /\ (DrawnIn(t, w) => DrawnIn(s, w))
    /\ AwakeIn(s) => AwakeIn(t)

\* t is s with f on top, in those terms
OneOn(t, s, f) ==
    /\ \A w \in Windows \cup {NoWindow} :
           /\ ClosersIn(t, w) = ClosersIn(s, w) \cup
                  (IF f.fn = "closeWindow" /\ f.w = w THEN {Len(s) + 1} ELSE {})
           /\ DrawnIn(t, w) <=>
                  DrawnIn(s, w) \/ (f.fn = "callback" /\ f.at = "draw" /\ f.w = w)
    /\ AwakeIn(t) <=> AwakeIn(s) /\ ~Sleeping(f)

\* What one more frame on a stack adds to the closers, the draws and the sleepers.
LEMMA OneMore ==
    ASSUME NEW s \in Seq(FrameType), NEW f \in FrameType, NEW t, t = Append(s, f)
    PROVE  t \in Seq(FrameType) /\ Len(t) = Len(s) + 1 /\ t[Len(t)] = f /\ OneOn(t, s, f)
<1>1. /\ t \in Seq(FrameType) /\ Len(t) = Len(s) + 1 /\ t[Len(s) + 1] = f
      /\ \A k \in 1..Len(s) : t[k] = s[k]
      /\ Len(s) \in Nat
  OBVIOUS
<1>2. 1..Len(t) = (1..Len(s)) \cup {Len(s) + 1}
  BY <1>1
<1>3. ASSUME NEW w
      PROVE  ClosersIn(t, w) = ClosersIn(s, w) \cup
                        (IF f.fn = "closeWindow" /\ f.w = w THEN {Len(s) + 1} ELSE {})
  BY <1>1, <1>2 DEF ClosersIn
<1>4. ASSUME NEW w
      PROVE  DrawnIn(t, w) <=>
                        DrawnIn(s, w) \/ (f.fn = "callback" /\ f.at = "draw" /\ f.w = w)
  BY <1>1, <1>2 DEF DrawnIn
<1>5. AwakeIn(t) <=> AwakeIn(s) /\ ~Sleeping(f)
  BY <1>1, <1>2 DEF AwakeIn
<1>6. OneOn(t, s, f)
  BY <1>3, <1>4, <1>5 DEF OneOn
<1> QED
  BY <1>1, <1>6

\* A harmless frame changes none of them.
LEMMA HarmlessLike ==
    ASSUME NEW s \in Seq(FrameType), NEW f \in FrameType, Harmless(f)
    PROVE  Like(Append(s, f), s)
<1>1. OneOn(Append(s, f), s, f)
  BY OneMore
<1>2. f.fn # "closeWindow" /\ ~ (f.fn = "callback" /\ f.at = "draw") /\ ~Sleeping(f)
  BY DEF Harmless
<1> QED
  BY <1>1, <1>2 DEF Like, OneOn

LEMMA LikeChains ==
    ASSUME NEW r, NEW s, NEW t, Like(t, s), Like(s, r)
    PROVE  Like(t, r)
BY DEF Like

LEMMA LikeItself == \A s : Like(s, s)
BY DEF Like

\* The first n elements of a sequence.
LEMMA FrontOf ==
    ASSUME NEW S, NEW s \in Seq(S), NEW n \in 0..Len(s)
    PROVE  /\ SubSeq(s, 1, n) \in Seq(S) /\ Len(SubSeq(s, 1, n)) = n
           /\ \A k \in 1..n : SubSeq(s, 1, n)[k] = s[k]
<1>1. n \in Int /\ n >= 0 /\ Len(s) \in Nat /\ 1 \in Int
  OBVIOUS
<1>2. \A k \in 1..n : s[k] \in S
  BY <1>1
<1>3. /\ Len(SubSeq(s, 1, n)) = IF 1 <= n THEN n - 1 + 1 ELSE 0
      /\ \A k \in 1..(n - 1 + 1) : SubSeq(s, 1, n)[k] = s[1 + k - 1]
  BY <1>1, <1>2, SubSeqProperties
<1>4. Len(SubSeq(s, 1, n)) = n /\ \A k \in 1..n : SubSeq(s, 1, n)[k] = s[k]
  BY <1>1, <1>3
<1>5. SubSeq(s, 1, n) \in Seq(S)
  BY <1>1, <1>2, SubSeqProperties
<1> QED
  BY <1>4, <1>5

\* The stack is the running function's frame on top of the ones below.
LEMMA TopOnBelow ==
    ASSUME stack \in Seq(FrameType), stack # <<>>
    PROVE  /\ Top \in FrameType /\ Below \in Seq(FrameType) /\ stack = Append(Below, Top)
           /\ Len(Below) = Len(stack) - 1 /\ stack[Len(stack)] = Top
<1>1. Len(stack) \in Nat /\ Len(stack) > 0
  OBVIOUS
<1>2. Top \in FrameType /\ Below \in Seq(FrameType)
  BY TopTyped
<1>3. /\ Len(Below) = Len(stack) - 1 /\ stack[Len(stack)] = Top
      /\ \A k \in 1..Len(Below) : Below[k] = stack[k]
  <2>1. Len(stack) - 1 \in 0..Len(stack)
    BY <1>1
  <2>2. /\ Len(SubSeq(stack, 1, Len(stack) - 1)) = Len(stack) - 1
        /\ \A k \in 1..(Len(stack) - 1) : SubSeq(stack, 1, Len(stack) - 1)[k] = stack[k]
    BY <2>1, FrontOf
  <2> QED
    BY <2>2 DEF Below, Top
<1>4. /\ Append(Below, Top) \in Seq(FrameType) /\ Len(Append(Below, Top)) = Len(stack)
      /\ \A k \in 1..Len(stack) : Append(Below, Top)[k] = stack[k]
  BY <1>1, <1>2, <1>3
<1>5. stack = Append(Below, Top)
  BY <1>4, SeqEqual
<1> QED
  BY <1>2, <1>3, <1>5

\* Returning from anything but a close_window leaves the rest as it was.
LEMMA BelowLike ==
    ASSUME stack \in Seq(FrameType), stack # <<>>, Top.fn # "closeWindow"
    PROVE  Like(Below, stack)
<1>1. Top \in FrameType /\ Below \in Seq(FrameType) /\ stack = Append(Below, Top)
  BY TopOnBelow
<1>2. OneOn(stack, Below, Top)
  BY <1>1, OneMore
<1> QED
  BY <1>2 DEF Like, OneOn

\* The moves of a function other than close_window, with harmless frames.
LEMMA MovesLike ==
    ASSUME stack \in Seq(FrameType), stack # <<>>, Top.fn # "closeWindow",
           NEW f \in FrameType, Harmless(f)
    PROVE  /\ Return => Like(stack', stack)
           /\ Goto(f) => Like(stack', stack)
           /\ \A g \in FrameType : Harmless(g) /\ Call(g, f) => Like(stack', stack)
           /\ \A k \in Kinds \ {"draw"}, w \in Windows \cup {NoWindow} :
                  Invoke(k, w, f) => Like(stack', stack)
<1>1. Below \in Seq(FrameType) /\ Like(Below, stack)
  BY TopOnBelow, BelowLike
<1>9. \A r, s, t : Like(t, s) /\ Like(s, r) => Like(t, r)
  BY LikeChains
<1>2. Append(Below, f) \in Seq(FrameType) /\ Like(Append(Below, f), stack)
  <2>1. Append(Below, f) \in Seq(FrameType) /\ Like(Append(Below, f), Below)
    BY <1>1, HarmlessLike
  <2> QED
    BY <1>1, <1>9, <2>1
<1>3. \A g \in FrameType : Harmless(g) => Like(Append(Append(Below, f), g), stack)
  <2> SUFFICES ASSUME NEW g \in FrameType, Harmless(g)
               PROVE  Like(Append(Append(Below, f), g), stack)
    OBVIOUS
  <2>1. Like(Append(Append(Below, f), g), Append(Below, f))
    BY <1>2, HarmlessLike
  <2> QED
    BY <1>2, <1>9, <2>1
<1>4. Return => Like(stack', stack)
  BY <1>1 DEF Return
<1>5. Goto(f) => Like(stack', stack)
  BY <1>2 DEF Goto
<1>6. \A g \in FrameType : Harmless(g) /\ Call(g, f) => Like(stack', stack)
  BY <1>3 DEF Call
<1>7. \A k \in Kinds \ {"draw"}, w \in Windows \cup {NoWindow} :
          Callback(k, w) \in FrameType /\ Harmless(Callback(k, w))
  <2>1. \A k \in Kinds, w \in Windows \cup {NoWindow} : Callback(k, w) \in FrameType
    BY FrameTyped
  <2>2. \A k, w : Callback(k, w).fn = "callback" /\ Callback(k, w).at = k
    BY DEF Callback, Frame
  <2> QED
    BY <2>1, <2>2 DEF Harmless, Sleeping
<1>8. \A k \in Kinds \ {"draw"}, w \in Windows \cup {NoWindow} :
          Invoke(k, w, f) => Like(stack', stack)
  BY <1>5, <1>6, <1>7 DEF Invoke
<1> QED
  BY <1>4, <1>5, <1>6, <1>8

\* The frame of the user code that makes a call stays what it was.
LEMMA CallerLike ==
    ASSUME stack \in Seq(FrameType), NEW name, May(name)
    PROVE  Caller \in Seq(FrameType) /\ Like(Caller, stack) /\ Len(Caller) = Len(stack)
<1>1. Caller \in Seq(FrameType)
  BY CallerTyped
<1>2. CASE stack = <<>>
  BY <1>1, <1>2, LikeItself DEF Caller
<1>3. CASE stack # <<>>
  <2>1. /\ Top \in FrameType /\ Below \in Seq(FrameType) /\ stack = Append(Below, Top)
        /\ Len(Below) = Len(stack) - 1
    BY <1>3, TopOnBelow
  <2> DEFINE f == [Top EXCEPT !.left = @ - 1]
  <2>2. Top.fn = "callback" /\ Top.left > 0
    BY <1>3 DEF May
  <2>3. f \in FrameType /\ f.fn = Top.fn /\ f.at = Top.at /\ f.w = Top.w
    <3>1. Top.left \in 0..MaxCalls
      BY <2>1 DEF FrameType
    <3>2. Top.left - 1 \in 0..MaxCalls
      BY <2>2, <3>1, SessionAssumption
    <3> QED
      BY <2>1, <3>2 DEF FrameType
  <2>4. Caller = Append(Below, f)
    BY <1>3 DEF Caller
  <2> HIDE DEF f
  <2>5. OneOn(stack, Below, Top)
    BY <2>1, OneMore
  <2>6. Len(Caller) = Len(Below) + 1 /\ OneOn(Caller, Below, f)
    BY <2>1, <2>3, <2>4, OneMore
  <2>7. ~Sleeping(f)
    BY <2>2, <2>3 DEF Sleeping
  <2>8. Like(Caller, stack)
    BY <2>2, <2>3, <2>5, <2>6, <2>7 DEF Like, OneOn
  <2> QED
    BY <1>1, <2>1, <2>6, <2>8
<1> QED
  BY <1>2, <1>3

------------------------------------------------------------------------------
(* The invariant of the windows' lives.  HostLifecycle is inductive; the    *)
(* text system needs it.  That an owed draw is pending needs more while its *)
(* own on_draw runs, which will clear the mark: a deadline; and that no     *)
(* window is drawn before it is created.  That run() does not oversleep     *)
(* needs that it sleeps only as the topmost function.                       *)

Pending(r, own) ==
    r.owed # NoTime =>
        (r.redrawAt # NoTime /\ r.redrawAt <= r.owed) \/ (r.needs /\ ~own)
OwedSafe == \A w \in windows : Pending(win[w], DrawnIn(stack, w))
DrawnHaveHosts == \A w \in Windows : DrawnIn(stack, w) => win[w].host # "none"
SleepsOnTop == stack # <<>> => AwakeIn(Below)
LifeInv ==
    /\ HostLifecycle /\ TextOutlivesHosts /\ OwedSafe /\ DrawnHaveHosts
    /\ SleepsOnTop /\ NoOversleep

\* A step that touches no host and no list, and closes, draws and sleeps no more
HostsAlike == \A w \in Windows : win'[w].host = win[w].host /\ win'[w].text = win[w].text
SelfAlike == self'.raised = self.raised /\ self'.textOpen = self.textOpen
Quiet == windows' = windows /\ HostsAlike /\ SelfAlike /\ Like(stack', stack)
\* The same, but that a listed window to which no draw is owed may be drawn
QuietOrDraws ==
    /\ windows' = windows /\ HostsAlike /\ SelfAlike
    /\ \A w \in Windows :
           /\ ClosersIn(stack', w) = ClosersIn(stack, w)
           /\ DrawnIn(stack', w) =>
                  DrawnIn(stack, w) \/ (w \in windows /\ win'[w].owed = NoTime)
PendingNext == \A w \in windows : Pending(win'[w], DrawnIn(stack, w))
StackAwake == stack \in Seq(FrameType) /\ AwakeIn(stack)

\* The four that speak of the stack, of any state
HostsLive(ws, wn, sf, s) ==
    \A w \in Windows :
        /\ w \in ws => wn[w].host = "open" /\ ClosersIn(s, w) = {}
        /\ ClosersIn(s, w) # {} =>
               wn[w].host = "open" /\ \A j, k \in ClosersIn(s, w) : j = k
        /\ wn[w].host = "open" /\ w \notin ws => ClosersIn(s, w) # {} \/ sf.raised
TextLives(wn, sf, s) ==
    ~sf.textOpen => \A w \in Windows :
        wn[w].text /\ wn[w].host = "open" => ClosersIn(s, w) # {} \/ sf.raised
OwedOn(ws, wn, s) == \A w \in ws : Pending(wn[w], DrawnIn(s, w))
DrawsLive(wn, s) == \A w \in Windows : DrawnIn(s, w) => wn[w].host # "none"

LEMMA LifePrimed ==
    /\ HostLifecycle <=> HostsLive(windows, win, self, stack)
    /\ HostLifecycle' <=> HostsLive(windows', win', self', stack')
    /\ TextOutlivesHosts <=> TextLives(win, self, stack)
    /\ TextOutlivesHosts' <=> TextLives(win', self', stack')
    /\ OwedSafe <=> OwedOn(windows, win, stack)
    /\ OwedSafe' <=> OwedOn(windows', win', stack')
    /\ DrawnHaveHosts <=> DrawsLive(win, stack)
    /\ DrawnHaveHosts' <=> DrawsLive(win', stack')
<1>1. /\ HostLifecycle <=> HostsLive(windows, win, self, stack)
      /\ HostLifecycle' <=> HostsLive(windows', win', self', stack')
  BY DEF HostLifecycle, HostsLive, Closers, ClosersIn
<1>2. /\ TextOutlivesHosts <=> TextLives(win, self, stack)
      /\ TextOutlivesHosts' <=> TextLives(win', self', stack')
  BY DEF TextOutlivesHosts, TextLives, Closers, ClosersIn
<1>3. /\ OwedSafe <=> OwedOn(windows, win, stack)
      /\ OwedSafe' <=> OwedOn(windows', win', stack')
  BY DEF OwedSafe, OwedOn, DrawnIn, Pending
<1>4. /\ DrawnHaveHosts <=> DrawsLive(win, stack)
      /\ DrawnHaveHosts' <=> DrawsLive(win', stack')
  BY DEF DrawnHaveHosts, DrawsLive, DrawnIn
<1> QED
  BY <1>1, <1>2, <1>3, <1>4

LEMMA NoOneSleeps == StackAwake => SleepsOnTop /\ NoOversleep
<1> SUFFICES ASSUME StackAwake PROVE SleepsOnTop /\ NoOversleep
  OBVIOUS
<1>1. CASE stack = <<>>
  BY <1>1 DEF SleepsOnTop, NoOversleep, At
<1>2. CASE stack # <<>>
  <2>1. Top \in FrameType /\ Below \in Seq(FrameType) /\ stack = Append(Below, Top)
    BY <1>2, TopOnBelow DEF StackAwake
  <2>2. OneOn(stack, Below, Top)
    BY <2>1, OneMore
  <2>3. AwakeIn(Below) /\ ~Sleeping(Top)
    BY <2>2 DEF OneOn, StackAwake
  <2> QED
    BY <2>3 DEF SleepsOnTop, NoOversleep, At, Sleeping
<1> QED
  BY <1>1, <1>2

\* Only run() sleeps, and only on top.
LEMMA AwakeUnless ==
    ASSUME IInv, LifeInv, ~At("run", "delay")
    PROVE  StackAwake
<1>1. stack \in Seq(FrameType)
  BY DEF IInv, TypeOK
<1>2. CASE stack = <<>>
  BY <1>1, <1>2 DEF StackAwake, AwakeIn
<1>3. CASE stack # <<>>
  <2>1. Top \in FrameType /\ Below \in Seq(FrameType) /\ stack = Append(Below, Top)
    BY <1>1, <1>3, TopOnBelow
  <2>2. OneOn(stack, Below, Top)
    BY <2>1, OneMore
  <2>3. AwakeIn(Below) /\ ~Sleeping(Top)
    BY <1>3 DEF LifeInv, SleepsOnTop, At, Sleeping
  <2> QED
    BY <1>1, <2>2, <2>3 DEF OneOn, StackAwake
<1> QED
  BY <1>2, <1>3

\* Such a step keeps hosts, text and draws as they were, whoever sleeps.
LEMMA QuietHosts ==
    ASSUME IInv, LifeInv, QuietOrDraws, PendingNext
    PROVE  HostLifecycle' /\ TextOutlivesHosts' /\ OwedSafe' /\ DrawnHaveHosts'
<1>1. windows \subseteq Windows
  BY DEF IInv, TypeOK
<1>2. \A w \in Windows :
          /\ ClosersIn(stack', w) = ClosersIn(stack, w)
          /\ DrawnIn(stack', w) =>
                 DrawnIn(stack, w) \/ (w \in windows /\ win'[w].owed = NoTime)
  BY DEF QuietOrDraws
<1>3. \A w \in Windows : win'[w].host = win[w].host /\ win'[w].text = win[w].text
  BY DEF QuietOrDraws, HostsAlike
<1>4. self'.raised = self.raised /\ self'.textOpen = self.textOpen /\ windows' = windows
  BY DEF QuietOrDraws, SelfAlike
<1>5. /\ HostsLive(windows, win, self, stack) /\ TextLives(win, self, stack)
      /\ DrawsLive(win, stack)
  BY LifePrimed DEF LifeInv
<1>7. HostsLive(windows', win', self', stack')
  BY <1>2, <1>3, <1>4, <1>5 DEF HostsLive
<1>8. TextLives(win', self', stack')
  BY <1>2, <1>3, <1>4, <1>5 DEF TextLives
<1>9. OwedOn(windows', win', stack')
  <2>1. ASSUME NEW w \in windows PROVE Pending(win'[w], DrawnIn(stack', w))
    <3>1. /\ Pending(win'[w], DrawnIn(stack, w))
          /\ DrawnIn(stack', w) => DrawnIn(stack, w) \/ win'[w].owed = NoTime
      BY <1>1, <1>2 DEF PendingNext
    <3> QED
      BY <3>1 DEF Pending
  <2> QED
    BY <1>4, <2>1 DEF OwedOn
<1>10. DrawsLive(win', stack')
  <2>1. \A w \in windows : win[w].host = "open"
    BY <1>1, <1>5 DEF HostsLive
  <2> QED
    BY <1>2, <1>3, <1>5, <2>1 DEF DrawsLive
<1> QED
  BY <1>7, <1>8, <1>9, <1>10, LifePrimed

\* A step that leaves no one asleep.
LEMMA AwakeAfter ==
    ASSUME IInv', AwakeIn(stack'),
           HostLifecycle' /\ TextOutlivesHosts' /\ OwedSafe' /\ DrawnHaveHosts'
    PROVE  LifeInv'
<1>1. StackAwake'
  BY DEF IInv, TypeOK, StackAwake, AwakeIn
<1>2. SleepsOnTop' /\ NoOversleep'
  BY <1>1, NoOneSleeps, PTL
<1> QED
  BY <1>2 DEF LifeInv

LEMMA QuietKeeps ==
    ASSUME IInv, LifeInv, IInv', ~At("run", "delay"), Quiet, PendingNext
    PROVE  LifeInv'
<1>1. AwakeIn(stack')
  BY AwakeUnless DEF Quiet, Like, StackAwake
<1>2. QuietOrDraws
  BY DEF Quiet, QuietOrDraws, Like
<1> QED
  BY <1>1, <1>2, QuietHosts, AwakeAfter

\* Marking a window leaves its draw pending, and its host alone.
LEMMA MarkPends ==
    ASSUME IInv, LifeInv, NEW S, Mark(S) \/ ArmDueRedraws
    PROVE  HostsAlike /\ PendingNext
<1>1. win \in [Windows -> WindowType] /\ windows \subseteq Windows
  BY DEF IInv, TypeOK
<1>2. ASSUME NEW w \in Windows
      PROVE  /\ Marked(w).host = win[w].host /\ Marked(w).text = win[w].text
             /\ MarkedNow(w).host = win[w].host /\ MarkedNow(w).text = win[w].text
             /\ Pending(Marked(w), DrawnIn(stack, w))
             /\ Pending(MarkedNow(w), DrawnIn(stack, w))
  <2>1. win[w] \in WindowType
    BY <1>1
  <2>2. InOwnDraw(w) <=> DrawnIn(stack, w)
    BY DEF InOwnDraw, DrawnIn
  <2>3. /\ Marked(w).host = win[w].host /\ Marked(w).text = win[w].text
        /\ Marked(w).needs = TRUE /\ (DrawnIn(stack, w) => Marked(w).owed = NoTime)
    BY <2>1, <2>2 DEF Marked, WindowType
  <2>4. /\ MarkedNow(w).host = win[w].host /\ MarkedNow(w).text = win[w].text
        /\ MarkedNow(w).needs = TRUE /\ (DrawnIn(stack, w) => MarkedNow(w).owed = NoTime)
    BY <2>1, <2>2 DEF Marked, MarkedNow, WindowType
  <2> QED
    BY <2>3, <2>4 DEF Pending
<1>3. \A w \in windows : Pending(win[w], DrawnIn(stack, w))
  BY DEF LifeInv, OwedSafe
<1>4. \A w \in Windows : win'[w] \in {win[w], Marked(w), MarkedNow(w)}
  BY DEF Mark, ArmDueRedraws
<1>5. HostsAlike
  BY <1>2, <1>4 DEF HostsAlike
<1>6. PendingNext
  BY <1>1, <1>2, <1>3, <1>4 DEF PendingNext
<1> QED
  BY <1>5, <1>6

LEMMA SameWindows ==
    ASSUME IInv, LifeInv, win' = win
    PROVE  HostsAlike /\ PendingNext
BY DEF HostsAlike, PendingNext, LifeInv, OwedSafe

\* A frame of a loop that does not go to sleep is harmless.
LEMMA LoopsHarmless ==
    ASSUME NEW f \in FrameType, f.fn \notin {"closeWindow", "callback"}, f.at # "delay"
    PROVE  Harmless(f)
BY DEF Harmless, Sleeping

\* The functions of the main loop, run and step, but for the sleep.
LEMMA LoopsQuiet ==
    ASSUME IInv, LifeInv,
           \/ RunLoop \/ RunExit \/ StepPoll \/ StepDispatches \/ StepDispatched
           \/ StepUpdates \/ StepDraws \/ StepIdles
    PROVE  Quiet /\ PendingNext /\ ~At("run", "delay")
<1>1. /\ stack \in Seq(FrameType) /\ stack # <<>> /\ ~At("run", "delay")
      /\ Top.fn \in {"run", "step"} /\ Top.at # "delay"
  BY DEF IInv, TypeOK, At, RunLoop, RunExit, StepPoll, StepDispatches,
         StepDispatched, StepUpdates, StepDraws, StepIdles
<1>2. Top \in FrameType /\ Top.fn # "closeWindow" /\ Harmless(Top)
  BY <1>1, TopTyped, LoopsHarmless
<1> DEFINE Moves == {"loop", "after", "exit", "poll", "events", "dispatched",
                     "check", "draw", "idle", "start", "scan", "raw", "route", "host"}
<1>3. \A a \in Moves : [Top EXCEPT !.at = a] \in FrameType /\ Harmless([Top EXCEPT !.at = a])
  <2> SUFFICES ASSUME NEW a \in Moves
               PROVE  [Top EXCEPT !.at = a] \in FrameType /\ Harmless([Top EXCEPT !.at = a])
    OBVIOUS
  <2>1. [Top EXCEPT !.at = a] \in FrameType
    BY <1>2, FrameUpdates
  <2>2. [Top EXCEPT !.at = a].fn = Top.fn /\ [Top EXCEPT !.at = a].at = a
    BY <1>2 DEF FrameType
  <2> QED
    BY <1>1, <2>1, <2>2, LoopsHarmless
<1>4. /\ Return => Like(stack', stack)
      /\ \A f \in FrameType : Harmless(f) /\ Goto(f) => Like(stack', stack)
      /\ \A a \in Moves : GoAt(a) => Like(stack', stack)
      /\ \A f, g \in FrameType : Harmless(f) /\ Harmless(g) /\ Call(g, f) => Like(stack', stack)
  BY <1>1, <1>2, <1>3, MovesLike DEF GoAt
<1>5. /\ \A fn \in {"step", "dispatch", "update", "draw", "close"}, at \in Kinds \cup {"loop", "poll", "start"} :
             Frame(fn, at, NoWindow) \in FrameType => Harmless(Frame(fn, at, NoWindow))
      /\ Harmless(Callback("idle", NoWindow))
  BY DEF Harmless, Sleeping, Frame, Callback, Kinds
<1>6. Like(stack', stack)
  <2>1. CASE RunLoop
    BY <1>3, <1>4, <1>5, <2>1, FrameTyped DEF RunLoop, Kinds
  <2>2. CASE RunExit
    BY <1>4, <1>5, <2>2, FrameTyped DEF RunExit, Kinds
  <2>3. CASE StepPoll
    <3>1. PICK k \in 0..MaxEvents : \E evs \in [1..k -> Events] :
              Goto([Top EXCEPT !.at = "events", !.evs = evs])
      BY <2>3 DEF StepPoll
    <3>2. PICK evs \in [1..k -> Events] : Goto([Top EXCEPT !.at = "events", !.evs = evs])
      BY <3>1
    <3>3. evs \in Seq(Events)
      BY SessionAssumption
    <3> DEFINE f == [Top EXCEPT !.at = "events", !.evs = evs]
    <3>4. f \in FrameType /\ f.fn = Top.fn /\ f.at = "events"
      BY <1>2, <3>3 DEF FrameType
    <3> HIDE DEF f
    <3>5. Harmless(f)
      BY <1>1, <3>4, LoopsHarmless
    <3> QED
      BY <1>4, <3>2, <3>4, <3>5 DEF f
  <2>4. CASE StepDispatches
    <3>1. CASE Top.evs = <<>>
      BY <1>4, <2>4, <3>1 DEF StepDispatches
    <3>2. CASE Top.evs # <<>>
      <4> DEFINE f == [Top EXCEPT !.at = "dispatched", !.evs = Tail(@)]
                 g == [Frame("dispatch", "global", NoWindow) EXCEPT !.evs = <<Head(Top.evs)>>]
      <4>1. Top.evs \in Seq(Events)
        BY <1>2, FrameUpdates
      <4>2. Tail(Top.evs) \in Seq(Events) /\ <<Head(Top.evs)>> \in Seq(Events)
        BY <3>2, <4>1
      <4>3. f \in FrameType /\ f.fn = Top.fn /\ f.at = "dispatched"
        BY <1>2, <4>2 DEF FrameType
      <4>4. Frame("dispatch", "global", NoWindow) \in FrameType
        BY FrameTyped
      <4>5. g \in FrameType /\ g.fn = "dispatch" /\ g.at = "global"
        BY <4>2, <4>4 DEF FrameType, Frame
      <4>6. Call(g, f)
        BY <2>4, <3>2 DEF StepDispatches
      <4> HIDE DEF f, g
      <4>7. Harmless(f) /\ Harmless(g)
        BY <1>1, <4>3, <4>5, LoopsHarmless
      <4> QED
        BY <1>4, <4>3, <4>5, <4>6, <4>7
    <3> QED
      BY <3>1, <3>2
  <2>5. CASE StepDispatched
    BY <1>4, <2>5 DEF StepDispatched
  <2>6. CASE StepUpdates
    BY <1>3, <1>4, <1>5, <2>6, FrameTyped DEF StepUpdates, Kinds
  <2>7. CASE StepDraws
    BY <1>3, <1>4, <1>5, <2>7, FrameTyped DEF StepDraws, Kinds
  <2>8. CASE StepIdles
    BY <1>4, <1>5, <2>8, FrameTyped DEF StepIdles, Kinds
  <2> QED
    BY <2>1, <2>2, <2>3, <2>4, <2>5, <2>6, <2>7, <2>8
<1>7. windows' = windows /\ win' = win /\ SelfAlike
  BY DEF RunLoop, RunExit, StepPoll, StepDispatches, StepDispatched, StepUpdates, StepDraws,
         StepIdles, OnlyStack, SelfAlike, IInv, TypeOK, SelfType
<1> QED
  BY <1>1, <1>6, <1>7, SameWindows DEF Quiet

\* The starts of update and draw, and update's loop.
LEMMA UpdatesQuiet ==
    ASSUME IInv, LifeInv, UpdateStart \/ UpdateScan \/ UpdateNext \/ DrawStart
    PROVE  Quiet /\ PendingNext /\ ~At("run", "delay")
<1>1. /\ stack \in Seq(FrameType) /\ stack # <<>> /\ ~At("run", "delay")
      /\ Top.fn \in {"update", "draw"} /\ Top.at # "delay"
  BY DEF IInv, TypeOK, At, UpdateStart, UpdateScan, UpdateNext, DrawStart
<1>2. Top \in FrameType /\ Top.fn # "closeWindow" /\ Harmless(Top)
  BY <1>1, TopTyped, LoopsHarmless
<1> DEFINE f1 == [Top EXCEPT !.at = "scan"]
           f2 == [Top EXCEPT !.at = "loop", !.n = Len(order)]
<1>3. f1 \in FrameType /\ f2 \in FrameType /\ Following \in FrameType
  <2>1. Len(order) \in Int
    BY DEF IInv, TypeOK
  <2>2. f2 \in FrameType
    BY <1>2, <2>1 DEF FrameType
  <2>3. f1 \in FrameType /\ Following \in FrameType
    BY <1>2, FrameUpdates DEF Following
  <2> QED
    BY <2>2, <2>3
<1>4. f1.fn = Top.fn /\ f2.fn = Top.fn /\ Following.fn = Top.fn
      /\ f1.at = "scan" /\ f2.at = "loop" /\ Following.at = Top.at
  BY <1>2 DEF FrameType, Following
<1> HIDE DEF f1, f2
<1>5. Harmless(f1) /\ Harmless(f2) /\ Harmless(Following)
  BY <1>1, <1>3, <1>4, LoopsHarmless
<1>6. /\ Return => Like(stack', stack)
      /\ \A f \in FrameType : Harmless(f) /\ Goto(f) => Like(stack', stack)
      /\ \A f \in FrameType, k \in Kinds \ {"draw"}, w \in Windows \cup {NoWindow} :
             Harmless(f) /\ Invoke(k, w, f) => Like(stack', stack)
  BY <1>1, <1>2, MovesLike
<1>7. windows \subseteq Windows
  BY DEF IInv, TypeOK
<1>8. CASE UpdateStart
  <2>1. Invoke("tick", NoWindow, f1)
    BY <1>8 DEF UpdateStart, f1
  <2>2. Like(stack', stack)
    BY <1>3, <1>5, <1>6, <2>1 DEF Kinds
  <2> QED
    BY <1>1, <1>8, <2>2, MarkPends DEF UpdateStart, Quiet, SelfAlike
<1>9. CASE UpdateScan
  <2>1. Goto(f2)
    BY <1>9 DEF UpdateScan, f2
  <2>2. Like(stack', stack)
    BY <1>3, <1>5, <1>6, <2>1
  <2> QED
    BY <1>1, <1>9, <2>2, SameWindows DEF UpdateScan, Quiet, SelfAlike, OnlyStack
<1>10. CASE UpdateNext
  <2>1. Return \/ (\E w \in windows : Invoke("update", w, Following)) \/ Goto(Following)
    BY <1>10 DEF UpdateNext
  <2>2. Like(stack', stack)
    BY <1>3, <1>5, <1>6, <1>7, <2>1 DEF Kinds
  <2> QED
    BY <1>1, <1>10, <2>2, SameWindows DEF UpdateNext, Quiet, SelfAlike, OnlyStack
<1>11. CASE DrawStart
  <2>1. Goto(f2)
    BY <1>11 DEF DrawStart, f2
  <2>2. Like(stack', stack)
    BY <1>3, <1>5, <1>6, <2>1
  <2> QED
    BY <1>1, <1>11, <2>2, MarkPends DEF DrawStart, Quiet, SelfAlike
<1> QED
  BY <1>8, <1>9, <1>10, <1>11

\* draw's loop: the window that is drawn has no draw owed while it is drawn.
LEMMA DrawingKeeps ==
    ASSUME IInv, LifeInv, IInv', DrawNext
    PROVE  LifeInv'
<1>1. /\ stack \in Seq(FrameType) /\ stack # <<>> /\ ~At("run", "delay")
      /\ Top.fn = "draw" /\ Top.at = "loop"
  BY DEF IInv, TypeOK, At, DrawNext
<1>2. Top \in FrameType /\ Below \in Seq(FrameType)
  BY <1>1, TopTyped
<1>3. Following \in FrameType /\ Following.fn = "draw" /\ Following.at = "loop"
  <2>1. Following \in FrameType
    BY <1>2, FrameUpdates DEF Following
  <2>2. Following.fn = Top.fn /\ Following.at = Top.at
    BY <1>2 DEF Following, FrameType
  <2> QED
    BY <1>1, <2>1, <2>2
<1>4. Harmless(Following)
  BY <1>3, LoopsHarmless
<1>5. windows \subseteq Windows /\ win \in [Windows -> WindowType]
  BY DEF IInv, TypeOK
<1>6. windows' = windows /\ SelfAlike
  BY DEF DrawNext, SelfAlike
<1>7. CASE Top.i > Top.n \/ ~WantsDraw(InOrder(Top.i))
  <2>1. win' = win /\ (Return \/ Goto(Following))
    BY <1>7 DEF DrawNext
  <2>2. Like(stack', stack)
    BY <1>1, <1>3, <1>4, <2>1, MovesLike
  <2> QED
    BY <1>1, <1>6, <2>1, <2>2, SameWindows, QuietKeeps DEF Quiet
<1>8. CASE ~ (Top.i > Top.n) /\ WantsDraw(InOrder(Top.i))
  <2> DEFINE w == InOrder(Top.i)
             s == Append(Below, Following)
             f == Callback("draw", w)
  <2>1. /\ w \in windows /\ stack' = Append(s, f)
        /\ win' = [win EXCEPT ![w].redrawAt = NoTime, ![w].owed = NoTime]
    BY <1>8 DEF DrawNext, WantsDraw, Call
  <2>2. f \in FrameType /\ f.fn = "callback" /\ f.at = "draw" /\ f.w = w
    BY <1>5, <2>1, FrameTyped DEF Callback, Frame, Kinds
  <2> HIDE DEF w, f
  <2>3. /\ \A v \in Windows : v # w => win'[v] = win[v]
        /\ win'[w].host = win[w].host /\ win'[w].text = win[w].text /\ win'[w].owed = NoTime
    BY <1>5, <2>1 DEF WindowType
  <2>4. s \in Seq(FrameType) /\ Like(s, stack)
    <3>2. Like(Below, stack) /\ Like(s, Below) /\ s \in Seq(FrameType)
      BY <1>1, <1>2, <1>3, <1>4, BelowLike, HarmlessLike
    <3> QED
      BY <3>2, LikeChains
  <2> HIDE DEF s
  <2>5. OneOn(stack', s, f)
    BY <2>1, <2>2, <2>4, OneMore
  <2>6. ASSUME NEW v \in Windows
        PROVE  /\ ClosersIn(stack', v) = ClosersIn(stack, v)
               /\ DrawnIn(stack', v) =>
                      DrawnIn(stack, v) \/ (v \in windows /\ win'[v].owed = NoTime)
    <3>1. /\ ClosersIn(stack', v) = ClosersIn(s, v)
          /\ DrawnIn(stack', v) => DrawnIn(s, v) \/ w = v
      BY <2>2, <2>5 DEF OneOn
    <3>2. ClosersIn(s, v) = ClosersIn(stack, v) /\ (DrawnIn(s, v) => DrawnIn(stack, v))
      BY <2>4 DEF Like
    <3> QED
      BY <2>1, <2>3, <3>1, <3>2
  <2>7. HostsAlike
    BY <2>3 DEF HostsAlike
  <2>8. PendingNext
    <3>1. \A v \in windows : Pending(win[v], DrawnIn(stack, v))
      BY DEF LifeInv, OwedSafe
    <3>2. Pending(win'[w], DrawnIn(stack, w))
      BY <2>3 DEF Pending
    <3> QED
      BY <1>5, <2>3, <3>1, <3>2 DEF PendingNext
  <2>9. AwakeIn(stack')
    <3>1. AwakeIn(stack) /\ ~Sleeping(f)
      BY <1>1, <2>2, AwakeUnless DEF StackAwake, Sleeping
    <3> QED
      BY <2>4, <2>5, <3>1 DEF OneOn, Like
  <2>10. QuietOrDraws
    BY <1>6, <2>6, <2>7 DEF QuietOrDraws
  <2> QED
    BY <2>8, <2>9, <2>10, QuietHosts, AwakeAfter
<1> QED
  BY <1>7, <1>8

\* The frame on top of a stack can be taken off again.
LEMMA Popped ==
    ASSUME NEW s \in Seq(FrameType), NEW f \in FrameType, NEW t, t = Append(s, f)
    PROVE  SubSeq(t, 1, Len(t) - 1) = s /\ t[Len(t)] = f
<1>1. /\ t \in Seq(FrameType) /\ Len(t) = Len(s) + 1 /\ t[Len(s) + 1] = f
      /\ \A k \in 1..Len(s) : t[k] = s[k]
      /\ Len(s) \in Nat
  OBVIOUS
<1>2. /\ SubSeq(t, 1, Len(s)) \in Seq(FrameType) /\ Len(SubSeq(t, 1, Len(s))) = Len(s)
      /\ \A k \in 1..Len(s) : SubSeq(t, 1, Len(s))[k] = t[k]
  BY <1>1, FrontOf
<1>3. SubSeq(t, 1, Len(s)) = s
  BY <1>1, <1>2, SeqEqual
<1>4. Len(t) - 1 = Len(s)
  BY <1>1
<1> QED
  BY <1>1, <1>3, <1>4

\* run() sleeps no longer than until the soonest deadline.
LEMMA SleepsNoLonger ==
    ASSUME IInv, order # <<>>, SleepMs > 0, NEW w \in windows, win[w].redrawAt # NoTime
    PROVE  now + SleepMs <= win[w].redrawAt
<1>1. now \in Nat /\ NowMs = now /\ FrameDelay \in Nat
  BY SessionAssumption DEF IInv, TypeOK, NowMs
<1>2. Deadlines \in SUBSET Nat /\ win[w].redrawAt \in Deadlines
  BY DEF Deadlines, IInv, TypeOK, WindowType
<1>3. \E t \in Deadlines : \A u \in Deadlines : t <= u
  BY <1>2, LeastNatural
<1>4. SoonestRedrawAt \in Nat /\ SoonestRedrawAt <= win[w].redrawAt
  BY <1>2, <1>3 DEF SoonestRedrawAt
<1>5. Deadlines # {}
  BY <1>2
<1> HIDE DEF Deadlines
<1>6. SleepMs = IF SoonestRedrawAt >= now + FrameDelay THEN FrameDelay
                ELSE IF SoonestRedrawAt <= now THEN 0 ELSE SoonestRedrawAt - now
  BY <1>1, <1>5 DEF SleepMs
<1>7. win[w].redrawAt \in Nat
  BY <1>2
<1> QED
  BY <1>1, <1>4, <1>6, <1>7

\* After a step run() may go to sleep, as the topmost function.
LEMMA SleepKeeps ==
    ASSUME IInv, LifeInv, IInv', RunAfterStep
    PROVE  LifeInv'
<1>1. /\ stack \in Seq(FrameType) /\ stack # <<>> /\ ~At("run", "delay")
      /\ Top.fn = "run" /\ Top.at = "after"
  BY DEF IInv, TypeOK, At, RunAfterStep
<1>2. Top \in FrameType /\ Below \in Seq(FrameType)
  BY <1>1, TopTyped
<1>3. windows' = windows /\ win' = win /\ SelfAlike
  BY DEF RunAfterStep, SelfAlike, IInv, TypeOK, SelfType
<1>4. HostsAlike /\ PendingNext
  BY <1>3, SameWindows
<1>5. CASE GoAt("exit") \/ GoAt("loop")
  <2> DEFINE f1 == [Top EXCEPT !.at = "exit"]
             f2 == [Top EXCEPT !.at = "loop"]
  <2>1. f1 \in FrameType /\ f2 \in FrameType
    BY <1>2, FrameUpdates
  <2>2. f1.fn = "run" /\ f1.at = "exit" /\ f2.fn = "run" /\ f2.at = "loop"
    BY <1>1, <1>2 DEF FrameType
  <2>3. Goto(f1) \/ Goto(f2)
    BY <1>5 DEF GoAt
  <2> HIDE DEF f1, f2
  <2>4. Like(stack', stack)
    BY <1>1, <2>1, <2>2, <2>3, MovesLike, LoopsHarmless
  <2> QED
    BY <1>1, <1>3, <1>4, <2>4, QuietKeeps DEF Quiet
<1>6. CASE SleepMs > 0 /\ order # <<>> /\ Goto([Top EXCEPT !.at = "delay", !.n = now + SleepMs])
  <2> DEFINE f == [Top EXCEPT !.at = "delay", !.n = now + SleepMs]
  <2>1. now + SleepMs \in Int
    BY SleepTyped, SessionAssumption DEF IInv, TypeOK
  <2>2. f \in FrameType /\ f.fn = "run" /\ f.at = "delay" /\ f.n = now + SleepMs
    BY <1>1, <1>2, <2>1 DEF FrameType
  <2>3. stack' = Append(Below, f)
    BY <1>6 DEF Goto
  <2> HIDE DEF f
  <2>4. OneOn(stack', Below, f) /\ Like(Below, stack)
    BY <1>1, <1>2, <2>2, <2>3, OneMore, BelowLike
  <2>5. QuietOrDraws
    <3>1. ASSUME NEW v \in Windows
          PROVE  ClosersIn(stack', v) = ClosersIn(stack, v) /\ (DrawnIn(stack', v) => DrawnIn(stack, v))
      BY <2>2, <2>4 DEF OneOn, Like
    <3> QED
      BY <1>3, <1>4, <3>1 DEF QuietOrDraws
  <2>6. HostLifecycle' /\ TextOutlivesHosts' /\ OwedSafe' /\ DrawnHaveHosts'
    BY <1>4, <2>5, QuietHosts
  <2>7. Below' = Below /\ Top' = f
    BY <1>2, <2>2, <2>3, Popped DEF Below, Top
  <2>8. SleepsOnTop'
    <3>1. AwakeIn(Below)
      BY <1>1, <2>4, AwakeUnless DEF Like, StackAwake
    <3>2. AwakeIn(Below')
      BY <2>7, <3>1
    <3> QED
      BY <3>2 DEF SleepsOnTop, AwakeIn
  <2>9. NoOversleep'
    <3>1. \A w \in windows : win[w].redrawAt # NoTime => now + SleepMs <= win[w].redrawAt
      BY <1>6, SleepsNoLonger
    <3> QED
      BY <1>3, <2>2, <2>7, <3>1 DEF NoOversleep
  <2> QED
    BY <2>6, <2>8, <2>9 DEF LifeInv
<1> QED
  BY <1>5, <1>6 DEF RunAfterStep

\* Waking up, and time.
LEMMA WakingKeeps ==
    ASSUME IInv, LifeInv, IInv', RunWakes
    PROVE  LifeInv'
<1>1. stack \in Seq(FrameType) /\ stack # <<>> /\ Top.fn = "run"
  BY DEF IInv, TypeOK, At, RunWakes
<1>2. Top \in FrameType /\ Below \in Seq(FrameType)
  BY <1>1, TopTyped
<1> DEFINE f == [Top EXCEPT !.at = "loop"]
<1>3. f \in FrameType /\ f.fn = "run" /\ f.at = "loop"
  BY <1>1, <1>2 DEF FrameType, Kinds
<1>4. Goto(f) /\ windows' = windows /\ win' = win /\ SelfAlike
  BY DEF RunWakes, GoAt, OnlyStack, SelfAlike
<1> HIDE DEF f
<1>5. Harmless(f)
  BY <1>3, LoopsHarmless
<1>6. Like(stack', stack) /\ HostsAlike /\ PendingNext
  BY <1>1, <1>3, <1>4, <1>5, MovesLike, SameWindows
<1>7. AwakeIn(stack')
  <2>1. AwakeIn(Below)
    BY <1>1 DEF LifeInv, SleepsOnTop
  <2>2. OneOn(stack', Below, f)
    BY <1>2, <1>3, <1>4, OneMore DEF Goto
  <2> QED
    BY <1>5, <2>1, <2>2 DEF OneOn, Harmless
<1>8. QuietOrDraws
  BY <1>4, <1>6 DEF QuietOrDraws, Like
<1> QED
  BY <1>6, <1>7, <1>8, QuietHosts, AwakeAfter

LEMMA SameKeeps ==
    ASSUME LifeInv, UNCHANGED <<windows, win, self, stack>>
    PROVE  LifeInv'
<1>1. HostLifecycle' /\ TextOutlivesHosts' /\ OwedSafe' /\ DrawnHaveHosts'
  BY LifePrimed DEF LifeInv
<1>2. SleepsOnTop' /\ NoOversleep'
  BY DEF LifeInv, SleepsOnTop, NoOversleep, At, Top, Below, AwakeIn
<1> QED
  BY <1>1, <1>2 DEF LifeInv

\* Starting to close a listed window: it has one closer from now on.
LEMMA ClosingLives ==
    ASSUME IInv, LifeInv, IInv', ~At("run", "delay"),
           NEW below \in Seq(FrameType), Like(below, stack),
           NEW w \in windows, CloseFrom(below, w), win' = win, self' = self
    PROVE  LifeInv'
<1> DEFINE f == Frame("closeWindow", "host", w)
           g == Callback("close", w)
           s == Append(below, f)
<1>1. windows \subseteq Windows /\ windows' = windows \ {w}
  BY DEF IInv, TypeOK, CloseFrom
<1>2. f \in FrameType /\ f.fn = "closeWindow" /\ f.w = w /\ ~Sleeping(f)
  BY <1>1, FrameTyped DEF Frame, Sleeping
<1>3. g \in FrameType /\ Harmless(g)
  <2>1. g \in FrameType
    BY <1>1, FrameTyped DEF Kinds
  <2>2. g.fn = "callback" /\ g.at = "close"
    BY DEF Callback, Frame
  <2> QED
    BY <2>1, <2>2 DEF Harmless, Sleeping
<1>4. stack' = s \/ stack' = Append(s, g)
  BY DEF CloseFrom
<1> HIDE DEF f, g
<1>5. s \in Seq(FrameType) /\ OneOn(s, below, f)
  BY <1>2, OneMore
<1>6. Like(stack', s)
  <2>1. Like(Append(s, g), s) /\ Like(s, s)
    BY <1>3, <1>5, HarmlessLike, LikeItself
  <2> HIDE DEF s
  <2> QED
    BY <1>4, <2>1
<1> HIDE DEF s
<1>7. /\ HostsLive(windows, win, self, stack) /\ TextLives(win, self, stack)
      /\ DrawsLive(win, stack) /\ OwedOn(windows, win, stack)
  BY LifePrimed DEF LifeInv
<1>8. ASSUME NEW v \in Windows
      PROVE  /\ v # w => ClosersIn(stack', v) = ClosersIn(stack, v)
             /\ v = w => ClosersIn(stack', v) = {Len(below) + 1}
             /\ DrawnIn(stack', v) => DrawnIn(stack, v)
  <2>1. /\ ClosersIn(stack', v) = ClosersIn(s, v) /\ (DrawnIn(stack', v) => DrawnIn(s, v))
        /\ ClosersIn(below, v) = ClosersIn(stack, v) /\ (DrawnIn(below, v) => DrawnIn(stack, v))
    BY <1>6 DEF Like
  <2>2. /\ ClosersIn(s, v) = ClosersIn(below, v) \cup (IF v = w THEN {Len(below) + 1} ELSE {})
        /\ DrawnIn(s, v) => DrawnIn(below, v)
    BY <1>2, <1>5 DEF OneOn
  <2>3. v = w => ClosersIn(stack, v) = {}
    BY <1>7 DEF HostsLive
  <2> QED
    BY <2>1, <2>2, <2>3
<1>9. HostsLive(windows', win', self', stack')
  <2> SUFFICES ASSUME NEW v \in Windows
               PROVE  /\ v \in windows' => win'[v].host = "open" /\ ClosersIn(stack', v) = {}
                      /\ ClosersIn(stack', v) # {} =>
                             win'[v].host = "open" /\ \A j, k \in ClosersIn(stack', v) : j = k
                      /\ win'[v].host = "open" /\ v \notin windows' =>
                             ClosersIn(stack', v) # {} \/ self'.raised
    BY DEF HostsLive
  <2>1. CASE v = w
    <3>1. win'[v].host = "open" /\ ClosersIn(stack', v) = {Len(below) + 1} /\ v \notin windows'
      BY <1>1, <1>7, <1>8, <2>1 DEF HostsLive
    <3> QED
      BY <3>1
  <2>2. CASE v # w
    <3>1. /\ ClosersIn(stack', v) = ClosersIn(stack, v)
          /\ v \in windows' <=> v \in windows
      BY <1>1, <1>8, <2>2
    <3> QED
      BY <1>7, <3>1 DEF HostsLive
  <2> QED
    BY <2>1, <2>2
<1>10. TextLives(win', self', stack')
  BY <1>7, <1>8 DEF TextLives
<1>11. OwedOn(windows', win', stack')
  BY <1>1, <1>7, <1>8 DEF OwedOn, Pending
<1>12. DrawsLive(win', stack')
  BY <1>7, <1>8 DEF DrawsLive
<1>13. AwakeIn(stack')
  BY <1>2, <1>5, <1>6, AwakeUnless DEF OneOn, Like, StackAwake
<1> QED
  BY <1>9, <1>10, <1>11, <1>12, <1>13, LifePrimed, AwakeAfter

\* The host is closed by the one close_window that is at it.
LEMMA HostClosed ==
    ASSUME IInv, LifeInv, IInv', CloseWindowHost
    PROVE  LifeInv'
<1>1. /\ stack \in Seq(FrameType) /\ stack # <<>> /\ ~At("run", "delay")
      /\ Top.fn = "closeWindow"
  BY DEF IInv, TypeOK, At, CloseWindowHost
<1>2. /\ Top \in FrameType /\ Below \in Seq(FrameType) /\ stack = Append(Below, Top)
      /\ OneOn(stack, Below, Top) /\ stack' = Below
  BY <1>1, TopOnBelow, OneMore DEF CloseWindowHost, Return
<1>3. windows' = windows /\ self' = self /\ windows \subseteq Windows
      /\ win \in [Windows -> WindowType]
  BY DEF CloseWindowHost, IInv, TypeOK
<1>4. /\ HostsLive(windows, win, self, stack) /\ TextLives(win, self, stack)
      /\ DrawsLive(win, stack) /\ OwedOn(windows, win, stack)
  BY LifePrimed DEF LifeInv
<1> DEFINE w == Top.w
<1>5. win' = [win EXCEPT ![w].host = "closed"]
  BY DEF CloseWindowHost
<1> HIDE DEF w
<1>6. ASSUME NEW v \in Windows, v # w
      PROVE  ClosersIn(stack', v) = ClosersIn(stack, v) /\ win'[v] = win[v]
  <2>1. ClosersIn(stack, v) = ClosersIn(Below, v)
    BY <1>1, <1>2, <1>6 DEF OneOn, w
  <2>2. win'[v] = win[v]
    BY <1>3, <1>5, <1>6
  <2> QED
    BY <1>2, <2>1, <2>2
<1>7. \A v \in Windows : DrawnIn(stack', v) => DrawnIn(stack, v)
  BY <1>2 DEF OneOn
<1>8. w \in Windows => /\ ClosersIn(stack', w) = {} /\ w \notin windows
                       /\ win'[w].host = "closed"
  <2> SUFFICES ASSUME w \in Windows
               PROVE  ClosersIn(stack', w) = {} /\ w \notin windows /\ win'[w].host = "closed"
    OBVIOUS
  <2>1. ClosersIn(stack, w) = ClosersIn(Below, w) \cup {Len(Below) + 1}
    BY <1>1, <1>2 DEF OneOn, w
  <2>2. \A k \in ClosersIn(Below, w) : k \in 1..Len(Below)
    BY DEF ClosersIn
  <2>3. \A j, k \in ClosersIn(stack, w) : j = k
    BY <1>4, <2>1 DEF HostsLive
  <2>4. Len(Below) \in Nat
    BY <1>2
  <2>5. ClosersIn(Below, w) = {}
    <3> SUFFICES ASSUME NEW k \in ClosersIn(Below, w) PROVE FALSE
      OBVIOUS
    <3>1. k = Len(Below) + 1
      BY <2>1, <2>3
    <3> QED
      BY <2>2, <2>4, <3>1
  <2>6. w \notin windows
    BY <1>4, <2>1 DEF HostsLive
  <2>7. win'[w].host = "closed"
    BY <1>3, <1>5 DEF WindowType
  <2> QED
    BY <1>2, <2>5, <2>6, <2>7
<1>9. HostsLive(windows', win', self', stack')
  <2> SUFFICES ASSUME NEW v \in Windows
               PROVE  /\ v \in windows' => win'[v].host = "open" /\ ClosersIn(stack', v) = {}
                      /\ ClosersIn(stack', v) # {} =>
                             win'[v].host = "open" /\ \A j, k \in ClosersIn(stack', v) : j = k
                      /\ win'[v].host = "open" /\ v \notin windows' =>
                             ClosersIn(stack', v) # {} \/ self'.raised
    BY DEF HostsLive
  <2>1. CASE v = w
    BY <1>3, <1>8, <2>1
  <2>2. CASE v # w
    BY <1>3, <1>4, <1>6, <2>2 DEF HostsLive
  <2> QED
    BY <2>1, <2>2
<1>10. TextLives(win', self', stack')
  BY <1>3, <1>4, <1>6, <1>8 DEF TextLives
<1>11. OwedOn(windows', win', stack')
  <2>1. \A v \in windows : v \in Windows /\ v # w
    BY <1>3, <1>8
  <2> QED
    BY <1>3, <1>4, <1>6, <1>7, <2>1 DEF OwedOn, Pending
<1>12. DrawsLive(win', stack')
  BY <1>4, <1>6, <1>7, <1>8 DEF DrawsLive
<1>13. AwakeIn(stack')
  BY <1>1, <1>2, AwakeUnless DEF OneOn, StackAwake
<1> QED
  BY <1>9, <1>10, <1>11, <1>12, <1>13, LifePrimed, AwakeAfter

\* The text system goes when no window is listed: the open hosts are closing.
LEMMA TextClosed ==
    ASSUME IInv, LifeInv, IInv', CloseText
    PROVE  LifeInv'
<1>1. /\ stack \in Seq(FrameType) /\ stack # <<>> /\ ~At("run", "delay")
      /\ Top.fn = "close" /\ Top \in FrameType
  BY TopTyped DEF IInv, TypeOK, At, CloseText
<1>2. Harmless(Top) /\ Like(stack', stack)
  <2>1. Like(Below, stack)
    BY <1>1, BelowLike
  <2> QED
    BY <1>1, <2>1 DEF CloseText, Return, Harmless, Sleeping
<1>3. windows = {} /\ windows' = {} /\ win' = win /\ self'.raised = self.raised
  BY DEF CloseText, IInv, TypeOK, SelfType
<1>4. \A v \in Windows :
          ClosersIn(stack', v) = ClosersIn(stack, v) /\ (DrawnIn(stack', v) => DrawnIn(stack, v))
  BY <1>2 DEF Like
<1>5. HostsLive(windows, win, self, stack) /\ DrawsLive(win, stack)
  BY LifePrimed DEF LifeInv
<1>6. HostsLive(windows', win', self', stack')
  BY <1>3, <1>4, <1>5 DEF HostsLive
<1>7. TextLives(win', self', stack')
  BY <1>3, <1>6 DEF HostsLive, TextLives
<1>8. OwedOn(windows', win', stack')
  BY <1>3 DEF OwedOn
<1>9. DrawsLive(win', stack')
  BY <1>3, <1>4, <1>5 DEF DrawsLive
<1>10. AwakeIn(stack')
  BY <1>1, <1>2, AwakeUnless DEF Like, StackAwake
<1> QED
  BY <1>6, <1>7, <1>8, <1>9, <1>10, LifePrimed, AwakeAfter

\* Event dispatch, but for the automatic closing.
LEMMA DispatchesQuiet ==
    ASSUME IInv, LifeInv, DispatchGlobal \/ DispatchRoute \/ DispatchRaw \/ DispatchRedraw
    PROVE  Quiet /\ PendingNext /\ ~At("run", "delay")
<1>1. /\ stack \in Seq(FrameType) /\ stack # <<>> /\ ~At("run", "delay")
      /\ Top.fn = "dispatch" /\ Top.at # "delay"
  BY DEF IInv, TypeOK, At, DispatchGlobal, DispatchRoute, DispatchRaw, DispatchRedraw
<1>2. Top \in FrameType /\ windows \subseteq Windows
  BY <1>1, TopTyped DEF IInv, TypeOK
<1>3. /\ Return => Like(stack', stack)
      /\ \A f, g \in FrameType : Harmless(f) /\ Harmless(g) /\ Call(g, f) => Like(stack', stack)
      /\ \A f \in FrameType, k \in Kinds \ {"draw"}, w \in Windows \cup {NoWindow} :
             Harmless(f) /\ Invoke(k, w, f) => Like(stack', stack)
  <2>1. Harmless(Top)
    BY <1>1, <1>2, LoopsHarmless
  <2> QED
    BY <1>1, <1>2, <2>1, MovesLike
<1>4. CASE DispatchGlobal
  <2> DEFINE f == [Top EXCEPT !.at = "route"]
  <2>1. f \in FrameType /\ f.fn = "dispatch" /\ f.at = "route" /\ Invoke("global", NoWindow, f)
    BY <1>1, <1>2, <1>4 DEF FrameType, DispatchGlobal
  <2> HIDE DEF f
  <2>2. Like(stack', stack)
    BY <1>3, <2>1, LoopsHarmless DEF Kinds
  <2> QED
    BY <1>1, <1>4, <2>2, SameWindows DEF DispatchGlobal, Quiet, SelfAlike, OnlyStack
<1>5. CASE DispatchRoute
  <2>1. Like(stack', stack)
    <3>1. CASE Ev.type # "quit" /\ Ev.w \in windows
      <4> DEFINE f == [Top EXCEPT !.at = "raw", !.w = Ev.w]
      <4>1. f \in FrameType /\ f.fn = "dispatch" /\ f.at = "raw"
        BY <1>1, <1>2, <3>1 DEF FrameType, Kinds
      <4>2. Invoke("event", Ev.w, f)
        BY <1>5, <3>1 DEF DispatchRoute
      <4> HIDE DEF f
      <4> QED
        BY <1>2, <1>3, <3>1, <4>1, <4>2, LoopsHarmless DEF Kinds
    <3>2. CASE ~ (Ev.type # "quit" /\ Ev.w \in windows)
      BY <1>3, <1>5, <3>2 DEF DispatchRoute
    <3> QED
      BY <3>1, <3>2
  <2>2. SelfAlike
    BY <1>5 DEF DispatchRoute, SelfAlike, IInv, TypeOK, SelfType
  <2> QED
    BY <1>1, <1>5, <2>1, <2>2, SameWindows DEF DispatchRoute, Quiet
<1>6. CASE DispatchRaw
  <2>1. CASE Return
    BY <1>1, <1>3, <1>6, <2>1, SameWindows DEF DispatchRaw, Quiet, SelfAlike, OnlyStack
  <2>2. CASE Listed(Top.w) /\ Call(Callback("raw", Top.w), Following)
    <3> DEFINE g == Callback("raw", Top.w)
    <3>1. Following \in FrameType
      BY <1>2, FrameUpdates DEF Following
    <3>2. Following.fn = "dispatch" /\ Following.at = Top.at
      BY <1>1, <1>2 DEF FrameType, Following
    <3>3. g \in FrameType
      BY <1>2, <2>2, FrameTyped DEF Listed, Kinds
    <3>4. g.fn = "callback" /\ g.at = "raw"
      BY DEF Callback, Frame
    <3> HIDE DEF g
    <3>5. Harmless(Following) /\ Harmless(g)
      BY <1>1, <3>1, <3>2, <3>4, LoopsHarmless DEF Harmless, Sleeping
    <3>6. Like(stack', stack)
      BY <1>3, <2>2, <3>1, <3>3, <3>5 DEF g
    <3> QED
      BY <1>1, <1>6, <3>6, SameWindows DEF DispatchRaw, Quiet, SelfAlike, OnlyStack
  <2> QED
    BY <1>6, <2>1, <2>2 DEF DispatchRaw
<1>7. CASE DispatchRedraw
  BY <1>1, <1>3, <1>7, MarkPends DEF DispatchRedraw, Quiet, SelfAlike
<1> QED
  BY <1>4, <1>5, <1>6, <1>7

\* Closing from dispatch, from close() and by a call of user code.
LEMMA ClosingsKeep ==
    ASSUME IInv, LifeInv, IInv',
           DispatchAutoClose \/ CloseNextWindow \/ (\E w \in windows : CloseWindow(w))
    PROVE  LifeInv'
<1>1. stack \in Seq(FrameType)
  BY DEF IInv, TypeOK
<1>2. CASE DispatchAutoClose
  <2>1. stack # <<>> /\ ~At("run", "delay") /\ Top.fn = "dispatch"
    BY <1>2 DEF DispatchAutoClose, At
  <2>2. Below \in Seq(FrameType) /\ Like(Below, stack)
    BY <1>1, <2>1, TopTyped, BelowLike
  <2> QED
    BY <1>2, <2>1, <2>2, ClosingLives DEF DispatchAutoClose, Listed
<1>3. CASE CloseNextWindow
  <2>1. ~At("run", "delay") /\ Like(stack, stack)
    BY <1>3, LikeItself DEF CloseNextWindow, At
  <2> QED
    BY <1>1, <1>3, <2>1, ClosingLives DEF CloseNextWindow
<1>4. ASSUME NEW w \in windows, CloseWindow(w) PROVE LifeInv'
  <2>1. ~At("run", "delay")
    BY <1>4 DEF CloseWindow, May, At
  <2>2. Caller \in Seq(FrameType) /\ Like(Caller, stack)
    BY <1>1, <1>4, CallerLike DEF CloseWindow
  <2> QED
    BY <1>4, <2>1, <2>2, ClosingLives DEF CloseWindow, Listed
<1> QED
  BY <1>2, <1>3, <1>4

\* A new window: it was never drawn and no close_window is at it.
LEMMA CreatingLives ==
    ASSUME IInv, LifeInv, IInv', NEW w \in Windows, CreateWindow(w)
    PROVE  LifeInv'
<1>1. stack \in Seq(FrameType) /\ windows \subseteq Windows /\ win \in [Windows -> WindowType]
      /\ now \in Nat
  BY SessionAssumption DEF IInv, TypeOK
<1>2. ~At("run", "delay")
  BY DEF CreateWindow, May, At
<1>3. Caller \in Seq(FrameType) /\ Like(Caller, stack)
  BY <1>1, CallerLike DEF CreateWindow
<1> DEFINE g == Callback("init", w)
<1>4. g \in FrameType /\ Harmless(g)
  <2>1. g \in FrameType
    BY FrameTyped DEF Kinds
  <2>2. g.fn = "callback" /\ g.at = "init"
    BY DEF Callback, Frame
  <2> QED
    BY <2>1, <2>2 DEF Harmless, Sleeping
<1> HIDE DEF g
<1>5. Like(stack', stack)
  <2>1. Like(Append(Caller, g), Caller)
    BY <1>3, <1>4, HarmlessLike
  <2>2. Like(Append(Caller, g), stack)
    BY <1>3, <2>1, LikeChains
  <2> QED
    BY <1>3, <2>2 DEF CreateWindow, g
<1>6. \A v \in Windows :
          ClosersIn(stack', v) = ClosersIn(stack, v) /\ (DrawnIn(stack', v) => DrawnIn(stack, v))
  BY <1>5 DEF Like
<1>7. windows' = windows \cup {w} /\ win[w].host = "none" /\ self' = self
  BY DEF CreateWindow
<1>8. /\ \A v \in Windows : v # w => win'[v] = win[v]
      /\ win'[w].host = "open" /\ win'[w].text = self.textOpen
      /\ win'[w].owed # NoTime => win'[w].needs
  <2>1. PICK needs \in BOOLEAN :
            win' = [win EXCEPT ![w] = [host |-> "open", text |-> self.textOpen, needs |-> needs,
                         redrawAt |-> NoTime, owed |-> IF needs THEN now ELSE NoTime]]
    BY DEF CreateWindow
  <2> QED
    BY <1>1, <2>1
<1>9. /\ HostsLive(windows, win, self, stack) /\ TextLives(win, self, stack)
      /\ DrawsLive(win, stack) /\ OwedOn(windows, win, stack)
  BY LifePrimed DEF LifeInv
<1>10. ClosersIn(stack, w) = {} /\ w \notin windows /\ ~DrawnIn(stack, w)
  BY <1>7, <1>9 DEF HostsLive, DrawsLive
<1>11. HostsLive(windows', win', self', stack')
  <2> SUFFICES ASSUME NEW v \in Windows
               PROVE  /\ v \in windows' => win'[v].host = "open" /\ ClosersIn(stack', v) = {}
                      /\ ClosersIn(stack', v) # {} =>
                             win'[v].host = "open" /\ \A j, k \in ClosersIn(stack', v) : j = k
                      /\ win'[v].host = "open" /\ v \notin windows' =>
                             ClosersIn(stack', v) # {} \/ self'.raised
    BY DEF HostsLive
  <2>1. CASE v = w
    <3>1. ClosersIn(stack', v) = {} /\ v \in windows' /\ win'[v].host = "open"
      BY <1>6, <1>7, <1>8, <1>10, <2>1
    <3> QED
      BY <3>1
  <2>2. CASE v # w
    BY <1>6, <1>7, <1>8, <1>9, <2>2 DEF HostsLive
  <2> QED
    BY <2>1, <2>2
<1>12. TextLives(win', self', stack')
  <2> SUFFICES ASSUME ~self'.textOpen, NEW v \in Windows, win'[v].text, win'[v].host = "open"
               PROVE  ClosersIn(stack', v) # {} \/ self'.raised
    BY DEF TextLives
  <2>1. v # w
    BY <1>7, <1>8
  <2> QED
    BY <1>6, <1>7, <1>8, <1>9, <2>1 DEF TextLives
<1>13. OwedOn(windows', win', stack')
  <2>1. ASSUME NEW v \in windows' PROVE Pending(win'[v], DrawnIn(stack', v))
    <3>1. CASE v = w
      <4>1. ~DrawnIn(stack', v)
        BY <1>6, <1>10, <3>1
      <4> QED
        BY <1>8, <3>1, <4>1 DEF Pending
    <3>2. CASE v # w
      <4>1. v \in windows /\ win'[v] = win[v] /\ (DrawnIn(stack', v) => DrawnIn(stack, v))
        BY <1>1, <1>6, <1>7, <1>8, <2>1, <3>2
      <4>2. Pending(win[v], DrawnIn(stack, v))
        BY <1>9, <4>1 DEF OwedOn
      <4> QED
        BY <4>1, <4>2 DEF Pending
    <3> QED
      BY <3>1, <3>2
  <2> QED
    BY <2>1 DEF OwedOn
<1>14. DrawsLive(win', stack')
  BY <1>6, <1>8, <1>9 DEF DrawsLive
<1>15. AwakeIn(stack')
  BY <1>2, <1>5, AwakeUnless DEF Like, StackAwake
<1> QED
  BY <1>11, <1>12, <1>13, <1>14, <1>15, LifePrimed, AwakeAfter

\* A replaced deadline stays pending, and what a cancelled one leaves is marked.
LEMMA DeadlinesPend ==
    ASSUME IInv, LifeInv, NEW w \in windows,
           CancelRedraw(w) \/ \E t \in 0..MaxTime : RequestRedrawAt(w, t)
    PROVE  HostsAlike /\ PendingNext
<1>1. /\ windows \subseteq Windows /\ win \in [Windows -> WindowType] /\ w \in Windows
      /\ win[w] \in WindowType
  BY DEF IInv, TypeOK
<1>2. \A v \in windows : Pending(win[v], DrawnIn(stack, v))
  BY DEF LifeInv, OwedSafe
<1>3. InOwnDraw(w) <=> DrawnIn(stack, w)
  BY DEF InOwnDraw, DrawnIn
<1>4. PICK r : /\ win' = [win EXCEPT ![w] = r] /\ r.host = win[w].host /\ r.text = win[w].text
               /\ Pending(r, DrawnIn(stack, w))
  <2>1. CASE CancelRedraw(w)
    <3> DEFINE r == [win[w] EXCEPT !.redrawAt = NoTime,
                          !.owed = IF win[w].needs /\ ~InOwnDraw(w) THEN @ ELSE NoTime]
    <3>1. r.host = win[w].host /\ r.text = win[w].text /\ r.needs = win[w].needs
          /\ r.owed = IF win[w].needs /\ ~InOwnDraw(w) THEN win[w].owed ELSE NoTime
      BY <1>1 DEF WindowType
    <3>2. win' = [win EXCEPT ![w] = r]
      BY <1>1, <2>1 DEF CancelRedraw
    <3> HIDE DEF r
    <3>3. Pending(r, DrawnIn(stack, w))
      BY <1>3, <3>1 DEF Pending
    <3> QED
      BY <3>1, <3>2, <3>3
  <2>2. ASSUME NEW t \in 0..MaxTime, RequestRedrawAt(w, t)
        PROVE  \E r : /\ win' = [win EXCEPT ![w] = r] /\ r.host = win[w].host
                      /\ r.text = win[w].text /\ Pending(r, DrawnIn(stack, w))
    <3>1. CASE t <= NowMs
      <4>1. win' = [win EXCEPT ![w] = MarkedNow(w)]
        BY <2>2, <3>1 DEF RequestRedrawAt
      <4>2. /\ MarkedNow(w).host = win[w].host /\ MarkedNow(w).text = win[w].text
            /\ MarkedNow(w).needs = TRUE /\ (DrawnIn(stack, w) => MarkedNow(w).owed = NoTime)
        BY <1>1, <1>3 DEF Marked, MarkedNow, WindowType
      <4> QED
        BY <4>1, <4>2 DEF Pending
    <3>2. CASE ~ (t <= NowMs)
      <4>1. win' = [win EXCEPT ![w] = MarkedAt(w, t)]
        BY <2>2, <3>2 DEF RequestRedrawAt
      <4>2. /\ MarkedAt(w, t).host = win[w].host /\ MarkedAt(w, t).text = win[w].text
            /\ MarkedAt(w, t).needs = win[w].needs
            /\ MarkedAt(w, t).redrawAt = Earlier(win[w].redrawAt, t)
            /\ MarkedAt(w, t).owed = Earlier(win[w].owed, t)
        BY <1>1 DEF MarkedAt, WindowType
      <4>3. /\ t \in Nat /\ t # NoTime /\ win[w].redrawAt \in Nat \cup {NoTime}
            /\ win[w].owed \in Nat \cup {NoTime}
        BY <1>1, SessionAssumption DEF WindowType, NoTime
      <4>4. Pending(win[w], DrawnIn(stack, w))
        BY <1>2
      <4>5. \/ MarkedAt(w, t).redrawAt # NoTime /\ MarkedAt(w, t).redrawAt <= MarkedAt(w, t).owed
            \/ win[w].owed # NoTime /\ win[w].needs /\ ~DrawnIn(stack, w)
        <5>1. CASE win[w].owed # NoTime /\ win[w].needs /\ ~DrawnIn(stack, w)
          BY <5>1
        <5>2. CASE ~ (win[w].owed # NoTime /\ win[w].needs /\ ~DrawnIn(stack, w))
          <6>1. win[w].owed = NoTime \/ (win[w].redrawAt # NoTime /\ win[w].redrawAt <= win[w].owed)
            BY <4>4, <5>2 DEF Pending
          <6>2. /\ Earlier(win[w].redrawAt, t) # NoTime
                /\ Earlier(win[w].redrawAt, t) <= Earlier(win[w].owed, t)
            BY <4>3, <6>1 DEF Earlier, NoTime
          <6> QED
            BY <4>2, <6>2
        <5> QED
          BY <5>1, <5>2
      <4>6. Pending(MarkedAt(w, t), DrawnIn(stack, w))
        BY <4>2, <4>5 DEF Pending
      <4> QED
        BY <4>1, <4>2, <4>6
    <3> QED
      BY <3>1, <3>2
  <2> QED
    BY <2>1, <2>2
<1>5. \A v \in Windows : v # w => win'[v] = win[v]
  BY <1>1, <1>4
<1>6. win'[w] = r
  BY <1>1, <1>4
<1>7. HostsAlike
  BY <1>4, <1>5, <1>6 DEF HostsAlike
<1>8. PendingNext
  BY <1>1, <1>2, <1>4, <1>5, <1>6 DEF PendingNext
<1> QED
  BY <1>7, <1>8

\* The calls of user code that only mark, stop or start to close.
LEMMA CallsQuiet ==
    ASSUME IInv, LifeInv,
           \/ \E w \in Windows : CloseWindow(w) /\ ~Listed(w)
           \/ \E w \in windows : CancelRedraw(w) \/ \E t \in 0..MaxTime : RequestRedrawAt(w, t)
           \/ \E S : RequestRedraw(S)
           \/ Stop \/ Close
    PROVE  Quiet /\ PendingNext /\ ~At("run", "delay")
<1>1. stack \in Seq(FrameType)
  BY DEF IInv, TypeOK
<1>2. \A name : May(name) =>
          Caller \in Seq(FrameType) /\ Like(Caller, stack) /\ ~At("run", "delay")
  BY <1>1, CallerLike DEF May, At
<1>3. ASSUME NEW w \in Windows, CloseWindow(w), ~Listed(w)
      PROVE  Quiet /\ PendingNext /\ ~At("run", "delay")
  BY <1>2, <1>3, SameWindows DEF CloseWindow, Quiet, SelfAlike
<1>4. ASSUME NEW w \in windows, CancelRedraw(w) \/ \E t \in 0..MaxTime : RequestRedrawAt(w, t)
      PROVE  Quiet /\ PendingNext /\ ~At("run", "delay")
  <2>1. HostsAlike /\ PendingNext
    BY <1>4, DeadlinesPend
  <2>2. /\ windows' = windows /\ self' = self /\ stack' = Caller
        /\ May("cancel") \/ May("redrawAt")
    BY <1>4 DEF CancelRedraw, RequestRedrawAt
  <2> QED
    BY <1>2, <2>1, <2>2 DEF Quiet, SelfAlike
<1>5. ASSUME NEW S, RequestRedraw(S)
      PROVE  Quiet /\ PendingNext /\ ~At("run", "delay")
  BY <1>2, <1>5, MarkPends DEF RequestRedraw, Quiet, SelfAlike
<1>6. CASE Stop
  <2>1. SelfAlike
    BY <1>6 DEF Stop, SelfAlike, IInv, TypeOK, SelfType
  <2> QED
    BY <1>2, <1>6, <2>1, SameWindows DEF Stop, Quiet
<1>7. CASE Close
  <2>1. SelfAlike
    BY <1>7 DEF Close, SelfAlike, IInv, TypeOK, SelfType
  <2> DEFINE g == Frame("close", "loop", NoWindow)
  <2>2. g \in FrameType /\ Harmless(g)
    <3>1. g \in FrameType
      BY FrameTyped
    <3>2. g.fn = "close" /\ g.at = "loop"
      BY DEF Frame
    <3> QED
      BY <3>1, <3>2 DEF Harmless, Sleeping
  <2> HIDE DEF g
  <2>3. Like(Append(Caller, g), stack) /\ ~At("run", "delay")
    <3>1. May("close")
      BY <1>7 DEF Close
    <3>2. Like(Append(Caller, g), Caller) /\ Like(Caller, stack) /\ ~At("run", "delay")
      BY <1>2, <2>2, <3>1, HarmlessLike
    <3> QED
      BY <3>2, LikeChains
  <2>4. Like(stack', stack)
    BY <1>2, <1>7, <2>3 DEF Close, g
  <2> QED
    BY <1>7, <2>1, <2>3, <2>4, SameWindows DEF Close, Quiet
<1> QED
  BY <1>3, <1>4, <1>5, <1>6, <1>7

\* A callback returns.  When it is on_draw, the mark goes, not the deadline.
LEMMA ReturnsQuiet ==
    ASSUME IInv, LifeInv, CallbackReturns
    PROVE  Quiet /\ PendingNext /\ ~At("run", "delay")
<1>1. /\ stack \in Seq(FrameType) /\ stack # <<>> /\ ~At("run", "delay")
      /\ Top.fn = "callback" /\ stack' = Below
  BY DEF IInv, TypeOK, At, CallbackReturns, Return
<1>2. Like(stack', stack)
  BY <1>1, BelowLike
<1>3. windows' = windows /\ SelfAlike
  BY DEF CallbackReturns, SelfAlike
<1>4. CASE Top.at = "update"
  BY <1>1, <1>2, <1>3, <1>4, MarkPends DEF CallbackReturns, Quiet
<1>5. CASE Top.at = "draw"
  <2>1. windows \subseteq Windows /\ \A v \in Windows : win[v] \in WindowType
    BY DEF IInv, TypeOK
  <2>2. win' = [w \in Windows |-> IF w \in Drawn(Top.w)
                                  THEN [win[w] EXCEPT !.needs = FALSE] ELSE win[w]]
    BY <1>5 DEF CallbackReturns
  <2>3. ASSUME NEW v \in Windows
        PROVE  /\ win'[v].host = win[v].host /\ win'[v].text = win[v].text
               /\ win'[v].owed = win[v].owed /\ win'[v].redrawAt = win[v].redrawAt
               /\ v # Top.w => win'[v] = win[v]
    <3>1. win'[v] = win[v] \/ (win'[v] = [win[v] EXCEPT !.needs = FALSE] /\ v = Top.w)
      BY <2>2 DEF Drawn
    <3> QED
      BY <2>1, <3>1 DEF WindowType
  <2>4. HostsAlike
    BY <2>3 DEF HostsAlike
  <2>5. DrawnIn(stack, Top.w)
    <3>1. Len(stack) \in 1..Len(stack)
      BY <1>1
    <3> QED
      BY <1>1, <1>5, <3>1 DEF DrawnIn, Top
  <2>6. PendingNext
    <3> SUFFICES ASSUME NEW v \in windows PROVE Pending(win'[v], DrawnIn(stack, v))
      BY DEF PendingNext
    <3>1. Pending(win[v], DrawnIn(stack, v))
      BY DEF LifeInv, OwedSafe
    <3>2. CASE v # Top.w
      BY <2>1, <2>3, <3>1, <3>2
    <3>3. CASE v = Top.w
      <4>1. DrawnIn(stack, v)
        BY <2>5, <3>3
      <4>2. win'[v].owed = win[v].owed /\ win'[v].redrawAt = win[v].redrawAt
        BY <2>1, <2>3
      <4> QED
        BY <3>1, <4>1, <4>2 DEF Pending
    <3> QED
      BY <3>2, <3>3
  <2> QED
    BY <1>1, <1>2, <1>3, <2>4, <2>6 DEF Quiet
<1>6. CASE Top.at # "update" /\ Top.at # "draw"
  BY <1>1, <1>2, <1>3, <1>6, SameWindows DEF CallbackReturns, Quiet
<1> QED
  BY <1>4, <1>5, <1>6

\* An error abandons every function: hosts that were being closed may stay open,
\* which is what the flag remembers.
LEMMA RaisingKeeps ==
    ASSUME IInv, LifeInv, IInv', CallbackRaises
    PROVE  LifeInv'
<1>1. windows' = windows /\ win' = win /\ stack' = <<>> /\ windows \subseteq Windows
  BY DEF CallbackRaises, IInv, TypeOK
<1>2. self'.raised = TRUE
  BY DEF CallbackRaises, IInv, TypeOK, SelfType
<1>3. \A v : ClosersIn(stack', v) = {} /\ ~DrawnIn(stack', v)
  BY <1>1 DEF ClosersIn, DrawnIn
<1>4. HostsLive(windows, win, self, stack) /\ OwedOn(windows, win, stack)
  BY LifePrimed DEF LifeInv
<1>5. HostsLive(windows', win', self', stack')
  BY <1>1, <1>2, <1>3, <1>4 DEF HostsLive
<1>6. TextLives(win', self', stack') /\ DrawsLive(win', stack')
  BY <1>2, <1>3 DEF TextLives, DrawsLive
<1>7. OwedOn(windows', win', stack')
  BY <1>1, <1>3, <1>4 DEF OwedOn, Pending
<1>8. AwakeIn(stack')
  BY <1>1 DEF AwakeIn
<1> QED
  BY <1>5, <1>6, <1>7, <1>8, LifePrimed, AwakeAfter

\* What the top level starts.
LEMMA StartsQuiet ==
    ASSUME IInv, LifeInv, Run \/ Step
    PROVE  Quiet /\ PendingNext /\ ~At("run", "delay")
<1>1. stack = <<>> /\ windows' = windows /\ win' = win /\ SelfAlike
  BY DEF Run, Step, OnlyStack, SelfAlike, IInv, TypeOK, SelfType
<1>2. stack' \in Seq(FrameType)
  BY Starting DEF IInv, TypeOK
<1>3. Len(stack') = 1 /\ stack'[1].fn \in {"run", "step"} /\ stack'[1].at # "delay"
  BY DEF Run, Step, Frame
<1>4. \A v : ClosersIn(stack', v) = {} /\ ~DrawnIn(stack', v) /\ ClosersIn(stack, v) = {}
  BY <1>1, <1>3 DEF ClosersIn, DrawnIn
<1>5. AwakeIn(stack')
  BY <1>3 DEF AwakeIn, Sleeping
<1>6. Like(stack', stack)
  BY <1>4, <1>5 DEF Like
<1> QED
  BY <1>1, <1>6, SameWindows DEF Quiet, At

LEMMA InitLifeInv == Init => LifeInv
<1> SUFFICES ASSUME Init PROVE LifeInv
  OBVIOUS
<1>1. stack = <<>> /\ windows = {} /\ \A w \in Windows : win[w].host = "none"
  BY DEF Init
<1>2. self.textOpen
  BY DEF Init
<1>3. \A w : ClosersIn(stack, w) = {} /\ ~DrawnIn(stack, w)
  <2>1. 1..Len(stack) = {}
    BY <1>1
  <2> QED
    BY <2>1 DEF ClosersIn, DrawnIn
<1>4. HostsLive(windows, win, self, stack)
  BY <1>1, <1>3 DEF HostsLive
<1>5. TextLives(win, self, stack) /\ DrawsLive(win, stack) /\ OwedOn(windows, win, stack)
  BY <1>1, <1>2, <1>3 DEF TextLives, DrawsLive, OwedOn
<1>6. SleepsOnTop /\ NoOversleep
  BY <1>1 DEF SleepsOnTop, NoOversleep, At
<1> QED
  BY <1>4, <1>5, <1>6, LifePrimed DEF LifeInv

LEMMA NextLifeInv == IInv /\ LifeInv /\ [Next]_vars => LifeInv'
<1> SUFFICES ASSUME IInv, LifeInv, [Next]_vars PROVE LifeInv'
  OBVIOUS
<1>1. IInv'
  BY NextIInv
<1>2. CASE SessionStep
  <2>1. CASE RunLoop \/ RunExit \/ StepPoll \/ StepDispatches \/ StepDispatched
             \/ StepUpdates \/ StepDraws \/ StepIdles
    BY <1>1, <2>1, LoopsQuiet, QuietKeeps
  <2>2. CASE UpdateStart \/ UpdateScan \/ UpdateNext \/ DrawStart
    BY <1>1, <2>2, UpdatesQuiet, QuietKeeps
  <2>3. CASE DispatchGlobal \/ DispatchRoute \/ DispatchRaw \/ DispatchRedraw
    BY <1>1, <2>3, DispatchesQuiet, QuietKeeps
  <2>4. CASE DispatchAutoClose \/ CloseNextWindow
    BY <1>1, <2>4, ClosingsKeep
  <2> QED
    BY <1>1, <1>2, <2>1, <2>2, <2>3, <2>4, DrawingKeeps, SleepKeeps, WakingKeeps,
       HostClosed, TextClosed DEF SessionStep
<1>3. CASE CallbackReturns
  BY <1>1, <1>3, ReturnsQuiet, QuietKeeps
<1>4. CASE CallbackRaises
  BY <1>1, <1>4, RaisingKeeps
<1>5. CASE UserCall
  <2>1. windows \subseteq Windows
    BY DEF IInv, TypeOK
  <2>2. ASSUME NEW w \in Windows, CreateWindow(w) PROVE LifeInv'
    BY <1>1, <2>2, CreatingLives
  <2>3. ASSUME NEW w \in Windows, CloseWindow(w) PROVE LifeInv'
    <3>1. CASE Listed(w)
      BY <1>1, <2>3, <3>1, ClosingsKeep DEF Listed
    <3>2. CASE ~Listed(w)
      BY <1>1, <2>3, <3>2, CallsQuiet, QuietKeeps
    <3> QED
      BY <3>1, <3>2
  <2>4. ASSUME NEW w \in Windows, CancelRedraw(w) PROVE LifeInv'
    <3>1. w \in windows
      BY <2>4 DEF CancelRedraw
    <3> QED
      BY <1>1, <2>4, <3>1, CallsQuiet, QuietKeeps
  <2>5. ASSUME NEW w \in windows, NEW t \in 0..MaxTime, RequestRedrawAt(w, t) PROVE LifeInv'
    BY <1>1, <2>5, CallsQuiet, QuietKeeps
  <2>6. ASSUME NEW S, RequestRedraw(S) PROVE LifeInv'
    BY <1>1, <2>6, CallsQuiet, QuietKeeps
  <2>7. CASE Stop \/ Close
    BY <1>1, <2>7, CallsQuiet, QuietKeeps
  <2> QED
    BY <1>5, <2>2, <2>3, <2>4, <2>5, <2>6, <2>7 DEF UserCall
<1>6. CASE Run \/ Step
  BY <1>1, <1>6, StartsQuiet, QuietKeeps
<1>7. CASE Tick \/ UNCHANGED vars
  BY <1>7, SameKeeps DEF Tick, vars
<1> QED
  BY <1>2, <1>3, <1>4, <1>5, <1>6, <1>7 DEF Next

\* Every listed window has an open host; an unlisted one is closed, or being
\* closed by exactly one call of close_window, unless an error abandoned it.
THEOREM SessionHosts == Spec => []HostLifecycle
<1>1. Spec => [](IInv /\ LifeInv)
  BY InitIInv, NextIInv, InitLifeInv, NextLifeInv, PTL DEF Spec
<1>2. LifeInv => HostLifecycle
  BY DEF LifeInv
<1> QED
  BY <1>1, <1>2, PTL

\* close() frees the text system after the hosts that draw with it.
THEOREM SessionText == Spec => []TextOutlivesHosts
<1>1. Spec => [](IInv /\ LifeInv)
  BY InitIInv, NextIInv, InitLifeInv, NextLifeInv, PTL DEF Spec
<1>2. LifeInv => TextOutlivesHosts
  BY DEF LifeInv
<1> QED
  BY <1>1, <1>2, PTL

\* No draw that is owed is forgotten, however requests, deadlines, cancellations
\* and draws of any number of windows interleave.
THEOREM SessionOwed == Spec => []OwedIsPending
<1>1. Spec => [](IInv /\ LifeInv)
  BY InitIInv, NextIInv, InitLifeInv, NextLifeInv, PTL DEF Spec
<1>2. LifeInv => OwedIsPending
  BY DEF LifeInv, OwedSafe, Pending, OwedIsPending
<1> QED
  BY <1>1, <1>2, PTL

\* run() never sleeps past a deadline.
THEOREM SessionSleep == Spec => []NoOversleep
<1>1. Spec => [](IInv /\ LifeInv)
  BY InitIInv, NextIInv, InitLifeInv, NextLifeInv, PTL DEF Spec
<1>2. LifeInv => NoOversleep
  BY DEF LifeInv
<1> QED
  BY <1>1, <1>2, PTL

------------------------------------------------------------------------------
(* What callbacks are started for                                           *)

\* The step of CallbackOnListed, and the frames it lets a step put on the stack
CallbackStarts ==
    Len(stack') > Len(stack) /\ stack'[Len(stack')].fn = "callback" =>
        LET f == stack'[Len(stack')]
        IN f.w = NoWindow \/ f.at = "close" \/ f.w \in windows'
MayStart(f) == f.fn = "callback" => f.w = NoWindow \/ f.at = "close" \/ f.w \in windows'

LEMMA LastOfAppend ==
    ASSUME NEW s \in Seq(FrameType), NEW f
    PROVE  /\ Append(s, f) \in Seq(FrameType \cup {f})
           /\ Len(Append(s, f)) = Len(s) + 1 /\ Append(s, f)[Len(s) + 1] = f
<1>1. s \in Seq(FrameType \cup {f})
  OBVIOUS
<1> QED
  BY <1>1

\* A function that returns or goes on starts nothing; one that calls starts what
\* it calls; user code starts what it is given.
LEMMA MovesStart ==
    ASSUME stack \in Seq(FrameType), stack' \in Seq(FrameType)
    PROVE  /\ Len(stack') <= Len(stack) => CallbackStarts
           /\ \A s \in Seq(FrameType) : \A g :
                  MayStart(g) /\ stack' = Append(s, g) => CallbackStarts
           /\ stack # <<>> => /\ Return => CallbackStarts
                              /\ \A f : Goto(f) => CallbackStarts
                              /\ \A f \in FrameType : \A g :
                                     MayStart(g) /\ Call(g, f) => CallbackStarts
                              /\ \A f \in FrameType : \A k, w :
                                     MayStart(Callback(k, w)) /\ Invoke(k, w, f)
                                         => CallbackStarts
<1>1. Len(stack) \in Nat /\ Len(stack') \in Nat
  OBVIOUS
<1>2. Len(stack') <= Len(stack) => CallbackStarts
  BY <1>1 DEF CallbackStarts
<1>3. ASSUME NEW s \in Seq(FrameType), NEW g, MayStart(g), stack' = Append(s, g)
      PROVE  CallbackStarts
  <2>1. Len(stack') = Len(s) + 1 /\ stack'[Len(s) + 1] = g
    BY <1>3, LastOfAppend
  <2>2. stack'[Len(stack')] = g
    BY <2>1
  <2> QED
    BY <1>3, <2>2 DEF CallbackStarts, MayStart
<1>4. ASSUME stack # <<>>
      PROVE  /\ Return => CallbackStarts
             /\ \A f : Goto(f) => CallbackStarts
             /\ \A f \in FrameType : \A g : MayStart(g) /\ Call(g, f) => CallbackStarts
             /\ \A f \in FrameType : \A k, w :
                    MayStart(Callback(k, w)) /\ Invoke(k, w, f) => CallbackStarts
  <2>1. Below \in Seq(FrameType) /\ Len(Below) = Len(stack) - 1
    BY <1>4, TopOnBelow
  <2>2. Return => CallbackStarts
    BY <1>1, <1>2, <2>1 DEF Return
  <2>3. \A f : Goto(f) => CallbackStarts
    <3> SUFFICES ASSUME NEW f, Goto(f) PROVE CallbackStarts
      OBVIOUS
    <3>1. Len(stack') = Len(Below) + 1
      BY <2>1, LastOfAppend DEF Goto
    <3> QED
      BY <1>1, <1>2, <2>1, <3>1
  <2>4. \A f \in FrameType : \A g : MayStart(g) /\ Call(g, f) => CallbackStarts
    <3> SUFFICES ASSUME NEW f \in FrameType, NEW g, MayStart(g), Call(g, f)
                 PROVE  CallbackStarts
      OBVIOUS
    <3>1. Append(Below, f) \in Seq(FrameType) /\ stack' = Append(Append(Below, f), g)
      BY <2>1 DEF Call
    <3> QED
      BY <1>3, <3>1
  <2> QED
    BY <2>2, <2>3, <2>4 DEF Invoke
<1> QED
  BY <1>2, <1>3, <1>4

\* Closing starts on_close, or a function.
LEMMA ClosingStarts ==
    ASSUME stack \in Seq(FrameType), stack' \in Seq(FrameType), windows \subseteq Windows,
           NEW below \in Seq(FrameType), NEW w \in windows, CloseFrom(below, w)
    PROVE  CallbackStarts
<1> DEFINE f == Frame("closeWindow", "host", w)
           g == Callback("close", w)
<1>1. f \in FrameType
  BY FrameTyped
<1>2. MayStart(f) /\ MayStart(g)
  BY DEF MayStart, Callback, Frame
<1>3. stack' = Append(below, f) \/ stack' = Append(Append(below, f), g)
  BY DEF CloseFrom
<1> HIDE DEF f, g
<1>4. Append(below, f) \in Seq(FrameType)
  BY <1>1
<1> QED
  BY <1>2, <1>3, <1>4, MovesStart

\* What the session's functions start.
LEMMA FunctionsStart ==
    ASSUME IInv, IInv', SessionStep
    PROVE  CallbackStarts
<1>1. /\ stack \in Seq(FrameType) /\ stack # <<>> /\ stack' \in Seq(FrameType)
      /\ windows \subseteq Windows
  BY DEF IInv, TypeOK, At, SessionStep, RunLoop, RunAfterStep, RunWakes, RunExit, StepPoll,
         StepDispatches, StepDispatched, StepUpdates, StepDraws, StepIdles, UpdateStart,
         UpdateScan, UpdateNext, DrawStart, DrawNext, DispatchGlobal, DispatchRoute,
         DispatchRaw, DispatchAutoClose, DispatchRedraw, CloseWindowHost, CloseNextWindow,
         CloseText
<1>2. Top \in FrameType /\ Below \in Seq(FrameType)
  BY <1>1, TopTyped
<1>3. /\ Return => CallbackStarts
      /\ \A f : Goto(f) => CallbackStarts
      /\ \A f : GoAt(f) => CallbackStarts
      /\ \A f \in FrameType : \A g : MayStart(g) /\ Call(g, f) => CallbackStarts
      /\ \A f \in FrameType : \A k, w :
             MayStart(Callback(k, w)) /\ Invoke(k, w, f) => CallbackStarts
  BY <1>1, MovesStart DEF GoAt
<1>4. /\ Following \in FrameType /\ [Top EXCEPT !.at = "scan"] \in FrameType
      /\ [Top EXCEPT !.at = "after"] \in FrameType /\ [Top EXCEPT !.at = "draw"] \in FrameType
      /\ [Top EXCEPT !.at = "idle"] \in FrameType /\ [Top EXCEPT !.at = "route"] \in FrameType
  BY <1>2, FrameUpdates DEF Following
<1>5. /\ \A k : MayStart(Callback(k, NoWindow))
      /\ \A k, w : w \in windows' => MayStart(Callback(k, w))
      /\ \A w : MayStart(Callback("close", w)) /\ MayStart(Frame("closeWindow", "host", w))
      /\ \A at : /\ MayStart(Frame("step", at, NoWindow)) /\ MayStart(Frame("update", at, NoWindow))
                 /\ MayStart(Frame("draw", at, NoWindow))
  BY DEF MayStart, Callback, Frame
<1>6. CASE RunLoop \/ RunAfterStep \/ RunWakes \/ RunExit \/ StepDispatched \/ StepUpdates
           \/ StepDraws \/ StepIdles
  BY <1>3, <1>4, <1>5, <1>6 DEF RunLoop, RunAfterStep, RunWakes, RunExit, StepDispatched,
     StepUpdates, StepDraws, StepIdles
<1>7. CASE StepPoll
  BY <1>3, <1>7 DEF StepPoll
<1>8. CASE StepDispatches
  <2>1. CASE Top.evs = <<>>
    BY <1>3, <1>8, <2>1 DEF StepDispatches
  <2>2. CASE Top.evs # <<>>
    <3> DEFINE f == [Top EXCEPT !.at = "dispatched", !.evs = Tail(@)]
               g == [Frame("dispatch", "global", NoWindow) EXCEPT !.evs = <<Head(Top.evs)>>]
    <3>1. Top.evs \in Seq(Events)
      BY <1>2, FrameUpdates
    <3>2. Tail(Top.evs) \in Seq(Events)
      BY <2>2, <3>1
    <3>3. f \in FrameType
      BY <1>2, <3>2 DEF FrameType
    <3>4. MayStart(g)
      BY DEF MayStart, Frame
    <3>5. Call(g, f)
      BY <1>8, <2>2 DEF StepDispatches
    <3> HIDE DEF f, g
    <3> QED
      BY <1>3, <3>3, <3>4, <3>5
  <2> QED
    BY <2>1, <2>2
<1>9. CASE UpdateStart \/ UpdateScan \/ UpdateNext \/ DrawStart
  <2>1. \/ \E f : Goto(f)
        \/ Return
        \/ Invoke("tick", NoWindow, [Top EXCEPT !.at = "scan"])
        \/ \E w \in windows' : Invoke("update", w, Following)
    BY <1>9 DEF UpdateStart, UpdateScan, UpdateNext, DrawStart, OnlyStack
  <2> QED
    BY <1>3, <1>4, <1>5, <2>1
<1>10. CASE DrawNext
  <2>1. Return \/ Goto(Following) \/ \E w \in windows' : Call(Callback("draw", w), Following)
    BY <1>10 DEF DrawNext, WantsDraw
  <2> QED
    BY <1>3, <1>4, <1>5, <2>1
<1>11. CASE DispatchGlobal
  BY <1>3, <1>4, <1>5, <1>11 DEF DispatchGlobal
<1>12. CASE DispatchRoute
  <2>1. CASE Ev.type # "quit" /\ Ev.w \in windows
    <3> DEFINE f == [Top EXCEPT !.at = "raw", !.w = Ev.w]
    <3>1. f \in FrameType
      BY <1>1, <1>2, <2>1 DEF FrameType, Kinds
    <3>2. Invoke("event", Ev.w, f) /\ Ev.w \in windows'
      BY <1>12, <2>1 DEF DispatchRoute
    <3> HIDE DEF f
    <3> QED
      BY <1>3, <1>5, <3>1, <3>2
  <2>2. CASE ~ (Ev.type # "quit" /\ Ev.w \in windows)
    BY <1>3, <1>12, <2>2 DEF DispatchRoute
  <2> QED
    BY <2>1, <2>2
<1>13. CASE DispatchRaw
  BY <1>3, <1>4, <1>5, <1>13 DEF DispatchRaw, Listed, OnlyStack
<1>14. CASE DispatchRedraw \/ CloseWindowHost \/ CloseText
  BY <1>3, <1>14 DEF DispatchRedraw, CloseWindowHost, CloseText
<1>15. CASE DispatchAutoClose \/ CloseNextWindow
  <2>1. PICK below \in Seq(FrameType), w \in windows : CloseFrom(below, w)
    BY <1>1, <1>2, <1>15 DEF DispatchAutoClose, CloseNextWindow, Listed
  <2> QED
    BY <1>1, <1>5, <2>1, ClosingStarts
<1> QED
  BY <1>6, <1>7, <1>8, <1>9, <1>10, <1>11, <1>12, <1>13, <1>14, <1>15 DEF SessionStep

\* What user code, and time, start.
LEMMA OthersStart ==
    ASSUME IInv, IInv', CallbackReturns \/ CallbackRaises \/ UserCall \/ Run \/ Step \/ Tick
    PROVE  CallbackStarts
<1>1. stack \in Seq(FrameType) /\ stack' \in Seq(FrameType) /\ windows \subseteq Windows
  BY DEF IInv, TypeOK
<1>2. \A name : May(name) => Caller \in Seq(FrameType) /\ Len(Caller) = Len(stack)
  BY <1>1, CallerLike
<1>3. /\ Len(stack') <= Len(stack) => CallbackStarts
      /\ \A s \in Seq(FrameType) : \A g : MayStart(g) /\ stack' = Append(s, g) => CallbackStarts
  BY <1>1, MovesStart
<1>4. ASSUME NEW name, May(name), stack' = Caller PROVE CallbackStarts
  <2>1. Len(stack') <= Len(stack)
    BY <1>1, <1>2, <1>4
  <2> QED
    BY <1>3, <2>1
<1>5. CASE CallbackReturns
  BY <1>1, <1>5, MovesStart DEF CallbackReturns
<1>6. CASE CallbackRaises \/ Tick
  <2>1. Len(stack') <= Len(stack)
    BY <1>1, <1>6 DEF CallbackRaises, Tick
  <2> QED
    BY <1>3, <2>1
<1>7. CASE Run \/ Step
  <2>1. Len(stack') = 1 /\ stack'[1].fn # "callback"
    BY <1>7 DEF Run, Step, Frame
  <2> QED
    BY <2>1 DEF CallbackStarts
<1>8. ASSUME NEW w \in Windows, CreateWindow(w) PROVE CallbackStarts
  <2>1. MayStart(Callback("init", w))
    BY <1>8 DEF CreateWindow, MayStart, Callback, Frame
  <2>2. May("create") /\ (stack' = Caller \/ stack' = Append(Caller, Callback("init", w)))
    BY <1>8 DEF CreateWindow
  <2> QED
    BY <1>2, <1>3, <1>4, <2>1, <2>2
<1>9. ASSUME NEW w \in Windows, CloseWindow(w) PROVE CallbackStarts
  <2>1. May("closeWindow")
    BY <1>9 DEF CloseWindow
  <2>2. CASE stack' = Caller
    BY <1>4, <2>1, <2>2
  <2>3. CASE Listed(w) /\ CloseFrom(Caller, w)
    <3>1. Caller \in Seq(FrameType)
      BY <1>2, <2>1
    <3> QED
      BY <1>1, <2>3, <3>1, ClosingStarts DEF Listed
  <2> QED
    BY <1>9, <2>2, <2>3 DEF CloseWindow
<1>10. CASE Close
  <2>1. MayStart(Frame("close", "loop", NoWindow))
    BY DEF MayStart, Frame
  <2>2. /\ May("close")
        /\ stack' = Caller \/ stack' = Append(Caller, Frame("close", "loop", NoWindow))
    BY <1>10 DEF Close
  <2> QED
    BY <1>2, <1>3, <1>4, <2>1, <2>2
<1>11. CASE \/ \E w \in Windows : CancelRedraw(w)
            \/ \E w \in windows : RequestRedraw({w}) \/ \E t \in 0..MaxTime : RequestRedrawAt(w, t)
            \/ RequestRedraw(windows) \/ Stop
  <2>1. stack' = Caller /\ \E name : May(name)
    BY <1>11 DEF CancelRedraw, RequestRedraw, RequestRedrawAt, Stop
  <2> QED
    BY <1>4, <2>1
<1> QED
  BY <1>5, <1>6, <1>7, <1>8, <1>9, <1>10, <1>11 DEF UserCall

\* No callback but on_close is started for a window that is closed or closing.
THEOREM SessionCallbacks == Spec => CallbackOnListed
<1>1. Spec => []IInv
  BY InitIInv, NextIInv, PTL DEF Spec
<1>2. IInv /\ IInv' /\ [Next]_vars => [CallbackStarts]_vars
  BY FunctionsStart, OthersStart DEF Next
<1>3. [CallbackStarts]_vars =>
          [ Len(stack') > Len(stack) /\ stack'[Len(stack')].fn = "callback" =>
               LET f == stack'[Len(stack')]
               IN f.w = NoWindow \/ f.at = "close" \/ f.w \in windows' ]_vars
  BY DEF CallbackStarts
<1> QED
  BY <1>1, <1>2, <1>3, PTL DEF Spec, CallbackOnListed
==============================================================================
