------------------------------ MODULE Session ------------------------------
(* The multi-window session loop of lua/ui/session.lua.                     *)
(*                                                                          *)
(* The session is single threaded; what interleaves with it is user code:  *)
(* every callback (on_event, on_raw_ui, on_update, on_draw, on_close,      *)
(* on_init, on_tick, on_idle, on_global_event) may call back into the       *)
(* session while the session's own function is half way through a loop.     *)
(* `stack` is that call stack, one frame per function in progress; the      *)
(* label `at` is where the function goes on when its frame is on top.       *)
EXTENDS Integers, Sequences

CONSTANTS
    Windows,       \* window ids; the host gives each window a fresh one
    NoWindow,      \* the nil window of a callback that belongs to none
    AutoClose,     \* windows created with auto_close
    RedrawOnEvent, \* windows created with redraw_on_event
    Installed,     \* the kinds of callback that are not nil
    Calls,         \* the session calls that callbacks make
    Events,        \* what the backend's poll_events may return
    RedrawMode, FrameDelay, AutoQuit,    \* the options (AutoQuit: NoTime for nil)
    MaxTime, MaxCalls, MaxEvents         \* BOUNDS: the clock, the calls one
                                         \* callback makes, the events of a poll
NoTime == -1
Kinds == {"init", "event", "raw", "update", "draw", "close", "tick", "idle", "global"}
EventType == [type : {"quit", "close", "input"}, w : Windows \cup {NoWindow}, raws : Nat]

ASSUME SessionAssumption ==
    /\ NoWindow \notin Windows /\ Events \subseteq EventType
    /\ FrameDelay \in Nat /\ AutoQuit \in Nat \cup {NoTime}
    /\ MaxTime \in Nat /\ MaxCalls \in Nat /\ MaxEvents \in Nat

VARIABLES
    windows,  \* the keys of self.windows
    order,    \* self.order
    win,      \* each window: its host, whether it draws with the session's text
              \* system, needs_redraw, redraw_at_ms (NoTime for nil), and, as
              \* HISTORY, the time from which a draw is owed to it
    self,     \* the session's flags: running, stop_requested, closed, its text
              \* system is open, and, as HISTORY, that a callback has raised
    now,      \* the hosts' clock
    stack     \* the functions in progress, the running one last

vars == <<windows, order, win, self, now, stack>>

WindowType == [host : {"none", "open", "closed"}, text : BOOLEAN, needs : BOOLEAN,
               redrawAt : Nat \cup {NoTime}, owed : Nat \cup {NoTime}]
SelfType == [running : BOOLEAN, stop : BOOLEAN, closed : BOOLEAN,
             textOpen : BOOLEAN, raised : BOOLEAN]

\* Frames.  w: the window of the call.  i, n: a loop's index and bound (for run,
\* when it started and until when it sleeps).  left: a callback's calls to come.
FrameType ==
    [fn : {"run", "step", "dispatch", "update", "draw", "closeWindow", "close", "callback"},
     at : Kinds \cup {"loop", "after", "delay", "exit", "poll", "events", "dispatched",
                      "check", "start", "scan", "route", "host"},
     w : Windows \cup {NoWindow}, i : Nat, n : Int, evs : Seq(Events), left : 0..MaxCalls]
Frame(fn, at, w) ==
    [fn |-> fn, at |-> at, w |-> w, i |-> 1, n |-> 0, evs |-> <<>>, left |-> 0]
Callback(kind, w) == [Frame("callback", kind, w) EXCEPT !.left = MaxCalls]

Top == stack[Len(stack)]
Below == SubSeq(stack, 1, Len(stack) - 1)
At(fn, at) == stack # <<>> /\ Top.fn = fn /\ Top.at = at
Return == stack' = Below
Goto(frame) == stack' = Append(Below, frame)
GoAt(at) == Goto([Top EXCEPT !.at = at])
Call(callee, frame) == stack' = Append(Append(Below, frame), callee)
OnlyStack == UNCHANGED <<windows, order, win, self, now>>

\* if cb ~= nil then cb(...) end; the caller goes on at `frame`
Invoke(kind, w, frame) ==
    IF kind \in Installed THEN Call(Callback(kind, w), frame) ELSE Goto(frame)

\* self:now_ms(): the first window's host clock, 0 without windows
NowMs == IF order = <<>> THEN 0 ELSE now
InOwnDraw(w) ==
    \E k \in 1..Len(stack) :
        stack[k].fn = "callback" /\ stack[k].at = "draw" /\ stack[k].w = w
InRun == \E k \in 1..Len(stack) : stack[k].fn = "run"

------------------------------------------------------------------------------
(* The operations the code is built from.                                   *)

Earlier(a, b) == IF a = NoTime \/ (b # NoTime /\ b < a) THEN b ELSE a

\* needs_redraw = true.  The window is owed a draw from now on, except by what
\* its own on_draw asks for: the flag is cleared when that returns.
Marked(w) == [win[w] EXCEPT !.needs = TRUE,
                            !.owed = IF InOwnDraw(w) THEN NoTime ELSE Earlier(@, now)]
MarkedNow(w) == [Marked(w) EXCEPT !.redrawAt = NoTime]
MarkedAt(w, t) == [win[w] EXCEPT !.redrawAt = Earlier(@, t), !.owed = Earlier(@, t)]
Mark(S) == win' = [w \in Windows |-> IF w \in S THEN Marked(w) ELSE win[w]]

\* arm_due_redraws
DueAt(t) == {w \in windows : win[w].redrawAt # NoTime /\ win[w].redrawAt <= t}
\* MUTANT: the deadline is dropped and its window not marked
ArmForgets == win' = [w \in Windows |-> IF w \in DueAt(NowMs)
                                        THEN [win[w] EXCEPT !.redrawAt = NoTime] ELSE win[w]]
ArmDueRedraws ==
    win' = [w \in Windows |-> IF w \in DueAt(NowMs) THEN MarkedNow(w) ELSE win[w]]

\* soonest_redraw_at
Deadlines == {win[w].redrawAt : w \in windows} \ {NoTime}
\* MUTANT: the comparison turned round
LatestRedrawAt == CHOOSE t \in Deadlines : \A u \in Deadlines : t >= u
SoonestRedrawAt == CHOOSE t \in Deadlines : \A u \in Deadlines : t <= u

\* remove_order: drop the first occurrence of w, the rest moves down
PositionOf(s, w) == CHOOSE k \in 1..Len(s) : s[k] = w /\ \A j \in 1..(k - 1) : s[j] # w
\* MUTANT: order[i] = nil in place of table.remove
LeaveHole(s, w) == [s EXCEPT ![PositionOf(s, w)] = NoWindow]
\* MUTANT: the list is forgotten
KeepAll(s, w) == s
RemoveFirst(s, w) ==
    IF \E k \in 1..Len(s) : s[k] = w
    THEN LET p == PositionOf(s, w)
         IN [k \in 1..(Len(s) - 1) |-> IF k < p THEN s[k] ELSE s[k + 1]]
    ELSE s

\* self.windows[id] ~= nil, asked again after every callback
\* MUTANT: not asked again
AssumeListed(w) == TRUE
Listed(w) == w \in windows

\* close_window(w) called from `below`: unlisted first, then on_close, then, at
\* "host", host:close()
CloseFrom(below, w) ==
    /\ windows' = windows \ {w}
    /\ order' = RemoveFirst(order, w)
    /\ LET frames == Append(below, Frame("closeWindow", "host", w))
       IN stack' = IF "close" \in Installed THEN Append(frames, Callback("close", w)) ELSE frames

CloseWindowHost ==
    /\ At("closeWindow", "host")
    /\ win' = [win EXCEPT ![Top.w].host = "closed"]
    /\ Return
    /\ UNCHANGED <<windows, order, self, now>>

------------------------------------------------------------------------------
(* run()                                                                    *)

\* MUTANT: the loop looks at the windows only
KeepsRunningWhileOpen == windows # {}
KeepsRunning == ~self.stop /\ windows # {}

RunLoop ==
    /\ At("run", "loop")
    /\ IF KeepsRunning
       THEN Call(Frame("step", "poll", NoWindow), [Top EXCEPT !.at = "after"])
       ELSE GoAt("exit")
    /\ OnlyStack

\* The frame delay, cut short by the soonest deadline; 0 when that is past
SleepMs ==
    IF Deadlines = {} \/ SoonestRedrawAt >= NowMs + FrameDelay THEN FrameDelay
    ELSE IF SoonestRedrawAt <= NowMs THEN 0 ELSE SoonestRedrawAt - NowMs

\* After a step: auto quit, or sleep on the first window's host if there is one
RunAfterStep ==
    /\ At("run", "after")
    /\ IF AutoQuit # NoTime /\ NowMs - Top.i >= AutoQuit
       THEN self' = [self EXCEPT !.stop = TRUE] /\ GoAt("exit")
       ELSE /\ UNCHANGED self
            /\ IF SleepMs > 0 /\ order # <<>>
               THEN Goto([Top EXCEPT !.at = "delay", !.n = now + SleepMs])
               ELSE GoAt("loop")
    /\ UNCHANGED <<windows, order, win, now>>

RunWakes ==
    /\ At("run", "delay") /\ (now >= Top.n \/ now = MaxTime)   \* the clock's bound
    /\ GoAt("loop") /\ OnlyStack

\* close_on_exit or not
RunExit ==
    /\ At("run", "exit")
    /\ \/ /\ ~self.closed
          /\ self' = [self EXCEPT !.running = FALSE, !.stop = TRUE, !.closed = TRUE]
          /\ Goto(Frame("close", "loop", NoWindow))
       \/ self' = [self EXCEPT !.running = FALSE] /\ Return
    /\ UNCHANGED <<windows, order, win, now>>

------------------------------------------------------------------------------
(* step()                                                                   *)

StepPoll ==
    /\ At("step", "poll")
    /\ \E k \in 0..MaxEvents : \E evs \in [1..k -> Events] :
           Goto([Top EXCEPT !.at = "events", !.evs = evs])
    /\ OnlyStack

StepDispatches ==
    /\ At("step", "events")
    /\ IF Top.evs = <<>> THEN GoAt("check")
       ELSE Call([Frame("dispatch", "global", NoWindow) EXCEPT !.evs = <<Head(Top.evs)>>],
                 [Top EXCEPT !.at = "dispatched", !.evs = Tail(@)])
    /\ OnlyStack

\* a stop drops the events that are left
StepDispatched ==
    /\ At("step", "dispatched")
    /\ GoAt(IF self.stop THEN "check" ELSE "events")
    /\ OnlyStack

StepUpdates ==
    /\ At("step", "check")
    /\ IF self.stop THEN Return
       ELSE Call(Frame("update", "start", NoWindow), [Top EXCEPT !.at = "draw"])
    /\ OnlyStack

StepDraws ==
    /\ At("step", "draw")
    /\ Call(Frame("draw", "start", NoWindow), [Top EXCEPT !.at = "idle"])
    /\ OnlyStack

StepIdles ==
    /\ At("step", "idle")
    /\ IF "idle" \in Installed THEN Goto(Callback("idle", NoWindow)) ELSE Return
    /\ OnlyStack

------------------------------------------------------------------------------
(* update() and draw(): loops over the length `order` had when they began,   *)
(* so that they meet nil at the end of a list that shrank                   *)

InOrder(i) == IF i <= Len(order) THEN order[i] ELSE NoWindow
Following == [Top EXCEPT !.i = @ + 1]

UpdateStart ==
    /\ At("update", "start")
    /\ ArmDueRedraws
    /\ Invoke("tick", NoWindow, [Top EXCEPT !.at = "scan"])
    /\ UNCHANGED <<windows, order, self, now>>

UpdateScan ==
    /\ At("update", "scan")
    /\ Goto([Top EXCEPT !.at = "loop", !.n = Len(order)]) /\ OnlyStack

UpdateNext ==
    /\ At("update", "loop")
    /\ IF Top.i > Top.n THEN Return
       ELSE IF InOrder(Top.i) \in windows THEN Invoke("update", InOrder(Top.i), Following)
       ELSE Goto(Following)
    /\ OnlyStack

DrawStart ==
    /\ At("draw", "start")
    /\ ArmDueRedraws
    /\ Goto([Top EXCEPT !.at = "loop", !.n = Len(order)])
    /\ UNCHANGED <<windows, order, self, now>>

WantsDraw(w) ==
    w \in windows /\ "draw" \in Installed /\ (RedrawMode # "dirty" \/ win[w].needs)

DrawNext ==
    /\ At("draw", "loop")
    /\ IF Top.i > Top.n THEN Return /\ UNCHANGED win
       ELSE IF WantsDraw(InOrder(Top.i))
       THEN LET w == InOrder(Top.i)
            IN /\ win' = [win EXCEPT ![w].redrawAt = NoTime, ![w].owed = NoTime]
               /\ Call(Callback("draw", w), Following)
       ELSE Goto(Following) /\ UNCHANGED win
    /\ UNCHANGED <<windows, order, self, now>>

------------------------------------------------------------------------------
(* dispatch_event(ev)                                                       *)

Ev == Top.evs[1]
RawsLeft == "raw" \in Installed /\ Top.i <= Ev.raws
ClosesOnEvent == Ev.type = "close" /\ Top.w \in AutoClose

DispatchGlobal ==
    /\ At("dispatch", "global")
    /\ Invoke("global", NoWindow, [Top EXCEPT !.at = "route"])
    /\ OnlyStack

DispatchRoute ==
    /\ At("dispatch", "route")
    /\ self' = [self EXCEPT !.stop = @ \/ Ev.type = "quit"]
    /\ IF Ev.type # "quit" /\ Ev.w \in windows
       THEN Invoke("event", Ev.w, [Top EXCEPT !.at = "raw", !.w = Ev.w])
       ELSE Return
    /\ UNCHANGED <<windows, order, win, now>>

DispatchRaw ==
    /\ At("dispatch", "raw")
    /\ \/ ~Listed(Top.w) /\ Return
       \/ Listed(Top.w) /\ RawsLeft /\ Call(Callback("raw", Top.w), Following)
    /\ OnlyStack

DispatchAutoClose ==
    /\ At("dispatch", "raw") /\ Listed(Top.w) /\ ~RawsLeft /\ ClosesOnEvent
    /\ CloseFrom(Below, Top.w)
    /\ UNCHANGED <<win, self, now>>

DispatchRedraw ==
    /\ At("dispatch", "raw") /\ Listed(Top.w) /\ ~RawsLeft /\ ~ClosesOnEvent
    /\ Mark({Top.w} \cap RedrawOnEvent)
    /\ Return
    /\ UNCHANGED <<windows, order, self, now>>

------------------------------------------------------------------------------
(* close()'s loop                                                           *)

CloseNextWindow ==
    /\ At("close", "loop")
    /\ \E w \in windows : CloseFrom(stack, w)
    /\ UNCHANGED <<win, self, now>>

\* MUTANT: the text system goes first
CloseTextFirst ==
    /\ At("close", "loop") /\ self' = [self EXCEPT !.textOpen = FALSE]
    /\ IF windows = {} THEN Return ELSE UNCHANGED stack
    /\ UNCHANGED <<windows, order, win, now>>
CloseText ==
    /\ At("close", "loop") /\ windows = {}
    /\ self' = [self EXCEPT !.textOpen = FALSE]
    /\ Return
    /\ UNCHANGED <<windows, order, win, now>>

------------------------------------------------------------------------------
(* User code: the top level (no frame), which may call what it likes, and   *)
(* the callbacks, which make the calls they have left.                      *)

May(name) == stack # <<>> => Top.fn = "callback" /\ Top.left > 0 /\ name \in Calls
Caller == IF stack = <<>> THEN <<>> ELSE Append(Below, [Top EXCEPT !.left = @ - 1])

CreateWindow(w) ==
    /\ May("create") /\ win[w].host = "none"
    /\ windows' = windows \cup {w} /\ order' = Append(order, w)
    /\ \E needs \in BOOLEAN :
           win' = [win EXCEPT ![w] = [host |-> "open", text |-> self.textOpen, needs |-> needs,
                        redrawAt |-> NoTime, owed |-> IF needs THEN now ELSE NoTime]]
    /\ stack' = IF "init" \in Installed THEN Append(Caller, Callback("init", w)) ELSE Caller
    /\ UNCHANGED <<self, now>>

CloseWindow(w) ==
    /\ May("closeWindow") /\ win[w].host # "none"
    /\ IF Listed(w) THEN CloseFrom(Caller, w) ELSE stack' = Caller /\ UNCHANGED <<windows, order>>
    /\ UNCHANGED <<win, self, now>>

\* request_redraw for {w}, request_all_redraw for all that are listed
RequestRedraw(S) ==
    /\ May("redraw") /\ Mark(S) /\ stack' = Caller
    /\ UNCHANGED <<windows, order, self, now>>

\* request_redraw_at(w, t); request_redraw_after(w, d) is t = now_ms() + d
RequestRedrawAt(w, t) ==
    /\ May("redrawAt") /\ w \in windows /\ stack' = Caller
    /\ win' = [win EXCEPT ![w] = IF t <= NowMs THEN MarkedNow(w) ELSE MarkedAt(w, t)]
    /\ UNCHANGED <<windows, order, self, now>>

\* cancel_redraw(w), request_redraw_at(w, nil): a mark that is there stays
CancelRedraw(w) ==
    /\ May("cancel") /\ w \in windows /\ stack' = Caller
    /\ win' = [win EXCEPT ![w].redrawAt = NoTime,
                          ![w].owed = IF win[w].needs /\ ~InOwnDraw(w) THEN @ ELSE NoTime]
    /\ UNCHANGED <<windows, order, self, now>>

Stop ==
    /\ May("stop") /\ self' = [self EXCEPT !.stop = TRUE] /\ stack' = Caller
    /\ UNCHANGED <<windows, order, win, now>>

Close ==
    /\ May("close")
    /\ IF self.closed THEN UNCHANGED self /\ stack' = Caller
       ELSE /\ self' = [self EXCEPT !.closed = TRUE, !.running = FALSE, !.stop = TRUE]
            /\ stack' = Append(Caller, Frame("close", "loop", NoWindow))
    /\ UNCHANGED <<windows, order, win, now>>

\* A callback returns: update() marks the window if the result says it changed,
\* draw() clears the mark of a window that is still listed.
\* MUTANT: draw() clears the marks of all the windows
DrawnAll(w) == windows
Drawn(w) == {w} \cap windows
CallbackReturns ==
    /\ stack # <<>> /\ Top.fn = "callback" /\ Return
    /\ IF Top.at = "update" THEN Mark({}) \/ Mark({Top.w})
       ELSE IF Top.at = "draw"
       THEN win' = [w \in Windows |->
                       IF w \in Drawn(Top.w) THEN [win[w] EXCEPT !.needs = FALSE] ELSE win[w]]
       ELSE UNCHANGED win
    /\ UNCHANGED <<windows, order, self, now>>

\* A callback raises.  Nothing in the session catches it: every function in
\* progress is abandoned where it is.
CallbackRaises ==
    /\ stack # <<>> /\ Top.fn = "callback" /\ "raise" \in Calls
    /\ stack' = <<>> /\ self' = [self EXCEPT !.raised = TRUE]
    /\ UNCHANGED <<windows, order, win, now>>

\* What only the top level calls; run() raises an error while it is running
Run ==
    /\ stack = <<>> /\ ~self.running
    /\ self' = [self EXCEPT !.running = TRUE, !.stop = FALSE]
    /\ stack' = <<[Frame("run", "loop", NoWindow) EXCEPT !.i = NowMs]>>
    /\ UNCHANGED <<windows, order, win, now>>
Step == stack = <<>> /\ stack' = <<Frame("step", "poll", NoWindow)>> /\ OnlyStack

Tick == now < MaxTime /\ now' = now + 1 /\ UNCHANGED <<windows, order, win, self, stack>>

------------------------------------------------------------------------------
Init ==
    /\ windows = {} /\ order = <<>>
    /\ win = [w \in Windows |-> [host |-> "none", text |-> FALSE, needs |-> FALSE,
                                 redrawAt |-> NoTime, owed |-> NoTime]]
    /\ self = [running |-> FALSE, stop |-> FALSE, closed |-> FALSE,
               textOpen |-> TRUE, raised |-> FALSE]
    /\ now = 0 /\ stack = <<>>

SessionStep ==
    \/ RunLoop \/ RunAfterStep \/ RunWakes \/ RunExit
    \/ StepPoll \/ StepDispatches \/ StepDispatched \/ StepUpdates \/ StepDraws \/ StepIdles
    \/ UpdateStart \/ UpdateScan \/ UpdateNext \/ DrawStart \/ DrawNext
    \/ DispatchGlobal \/ DispatchRoute \/ DispatchRaw \/ DispatchAutoClose \/ DispatchRedraw
    \/ CloseWindowHost \/ CloseNextWindow \/ CloseText

UserCall ==
    \/ \E w \in Windows : CreateWindow(w) \/ CloseWindow(w) \/ CancelRedraw(w)
    \/ \E w \in windows : RequestRedraw({w}) \/ \E t \in 0..MaxTime : RequestRedrawAt(w, t)
    \/ RequestRedraw(windows) \/ Stop \/ Close

Next == SessionStep \/ CallbackReturns \/ CallbackRaises \/ UserCall \/ Run \/ Step \/ Tick

\* The session's functions go on, callbacks return, the clock advances.
Fairness == WF_vars(SessionStep) /\ WF_vars(CallbackReturns) /\ WF_vars(Tick)

Spec == Init /\ [][Next]_vars
FairSpec == Spec /\ Fairness

------------------------------------------------------------------------------
(* Properties                                                               *)

\* Type invariant of the session, its windows and its call stack.
TypeOK ==
    /\ windows \subseteq Windows /\ order \in Seq(Windows)
    /\ win \in [Windows -> WindowType] /\ self \in SelfType
    /\ now \in 0..MaxTime /\ stack \in Seq(FrameType)

\* self.order and self.windows, two tables kept by hand, always list the same
\* windows, each once, whatever callbacks create and close in the middle of a
\* loop over them and wherever an error leaves them.
OrderIsWindows ==
    /\ \A i, j \in 1..Len(order) : order[i] = order[j] => i = j
    /\ windows = {order[i] : i \in 1..Len(order)}

\* The close_window calls in progress for w, their on_close running or done
Closers(w) == {k \in 1..Len(stack) : stack[k].fn = "closeWindow" /\ stack[k].w = w}

\* Every listed window has an open host; one that close_window has unlisted is
\* being closed by exactly one call, even when its on_close closes it again or
\* closes the session; and no host stays open once that call is gone, unless a
\* callback's error abandoned it.
HostLifecycle ==
    \A w \in Windows :
        /\ w \in windows => win[w].host = "open" /\ Closers(w) = {}
        /\ Closers(w) # {} => win[w].host = "open" /\ \A j, k \in Closers(w) : j = k
        /\ win[w].host = "open" /\ w \notin windows => Closers(w) # {} \/ self.raised

\* close() frees the shared text system only when the hosts that draw with it
\* are closed, save the ones whose on_close is what called close().
TextOutlivesHosts ==
    ~self.textOpen => \A w \in Windows :
        win[w].text /\ win[w].host = "open" => Closers(w) # {} \/ self.raised

\* A draw that is owed to a listed window is never forgotten: it is marked, or
\* its deadline is the one asked for or an earlier one, in whatever order the
\* requests, deadlines, cancellations and closings of other windows come and
\* wherever an error strikes.  (What on_draw asks its own window for right now
\* is not owed: draw() drops it.)
OwedIsPending ==
    \A w \in windows :
        win[w].owed # NoTime =>
            win[w].needs \/ (win[w].redrawAt # NoTime /\ win[w].redrawAt <= win[w].owed)

\* The loop never sleeps past a deadline of a listed window.
NoOversleep ==
    At("run", "delay") =>
        \A w \in windows : win[w].redrawAt # NoTime => Top.n <= win[w].redrawAt

\* No callback but on_close is started for a window that is closed or closing,
\* though callbacks close windows while lists of them and of raw events are
\* being walked.
CallbackOnListed ==
    [][ Len(stack') > Len(stack) /\ stack'[Len(stack')].fn = "callback" =>
           LET f == stack'[Len(stack')]
           IN f.w = NoWindow \/ f.at = "close" \/ f.w \in windows' ]_vars

\* A draw that is owed while run() goes on is made: the window is drawn, or
\* closed, or the run ends.
OwedIsDrawn ==
    \A w \in Windows :
        (w \in windows /\ win[w].owed # NoTime)
            ~> (win[w].owed = NoTime \/ w \notin windows \/ ~InRun)

\* stop() ends the run, whoever calls it and wherever the loop is.
StopEndsRun == (InRun /\ self.stop) ~> ~InRun
==============================================================================
