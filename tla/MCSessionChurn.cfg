\* Callbacks create and close windows, close the session and raise, in the
\* middle of the dispatch, update, draw and close loops.
SPECIFICATION Spec
CONSTANTS
    w1 = w1
    w2 = w2
    NoWindow = NoWindow
    Windows = {w1, w2}
    AutoClose = {w1, w2}
    RedrawOnEvent = {w1}
    Installed = {"init", "event", "raw", "update", "draw", "close"}
    Calls = {"create", "closeWindow", "close", "raise"}
    Events <- MCEvents
    RedrawMode = "always"
    FrameDelay = 1
    AutoQuit = 1
    MaxTime = 1
    MaxCalls = 1
    MaxEvents = 1
INVARIANTS TypeOK OrderIsWindows HostLifecycle TextOutlivesHosts
PROPERTIES CallbackOnListed
