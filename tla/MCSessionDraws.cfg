\* Redraws asked for, replaced and cancelled from callbacks that also close windows and
\* stop the run: nothing owed is lost, overslept or left undrawn.
SPECIFICATION FairSpec
CONSTANTS
    w1 = w1
    w2 = w2
    NoWindow = NoWindow
    Windows = {w1, w2}
    AutoClose = {w2}
    RedrawOnEvent = {w1}
    Installed = {"tick", "draw", "idle"}
    Calls = {"redraw", "redrawAt", "cancel", "closeWindow", "stop"}
    Events <- MCInput
    RedrawMode = "dirty"
    FrameDelay = 2
    AutoQuit <- NoTime
    MaxTime = 2
    MaxCalls = 1
    MaxEvents = 1
INVARIANTS OwedIsPending NoOversleep
PROPERTIES OwedIsDrawn StopEndsRun
