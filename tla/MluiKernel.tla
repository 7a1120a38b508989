----------------------------- MODULE MluiKernel -----------------------------
(***************************************************************************)
(* The calls of mlui_c_api.h on one kernel: load a program, run a frame    *)
(* over it (lower, solve, render, report, interact), feed one raw input.   *)
(* A call is the set of its outcomes, pairs of a kernel and a status,      *)
(* since any growth of a buffer may be refused by the allocator.  A buffer *)
(* is its length and its capacity; a write outside one sets `wild`.        *)
(***************************************************************************)
EXTENDS MluiProgram, Sequences

CONSTANT AllocMayFail   \* whether the allocator may refuse

ASSUME AllocAssumption == AllocMayFail \in BOOLEAN

\* kernel.auth's nodes, children and style tokens; the node slots; the scene's
\* nodes and children; the solved nodes; the view operations; the events.
Buffers == {"node", "child", "token", "slot", "scene", "schild", "solve", "view", "event"}

\* A frame's inputs: no raw input at all, or one of the kinds of the header.
RawKinds == {"NONE", "POINTER_MOVED", "POINTER_PRESSED", "POINTER_RELEASED",
             "POINTER_CANCELLED", "WHEEL_MOVED", "KEY_PRESSED", "KEY_RELEASED",
             "TEXT_INPUT", "TEXT_EDITING", "FOCUS_MOVE", "FOCUS_LOST",
             "ACTIVATE_FOCUSED", "CANCEL_INTERACTION"}

\* A zeroed program and a zeroed kernel.  focus_id, which no phase ever writes,
\* stays 0 and is left out.  `torn`: the layout half of the scene was moved by a
\* realloc and its old, freed address is still the one the kernel holds.
NoProgram == MakeProgram(FALSE, [i \in {} |-> ZeroNode], [c \in {} |-> 0], 0)

NewKernel ==
    [auth |-> NoProgram, len |-> [b \in Buffers |-> 0], cap |-> [b \in Buffers |-> 0],
     events |-> <<>>, pressed |-> 0, capture |-> 0, hover |-> 0,
     torn |-> FALSE, wild |-> FALSE]

Answer(k, status) == {[kernel |-> k, status |-> status]}

\* Run the next part of a call on what the parts before it left.
Then(outcomes, Part(_)) ==
    UNION {IF o.status = "OK" /\ ~o.kernel.wild THEN Part(o.kernel) ELSE {o} : o \in outcomes}

---------------------------------------------------------------------------
(* Memory.                                                                 *)

\* grow_*: room for `needed` more elements after the first `len`.  The scene is
\* two arrays of one capacity: the second realloc may fail after the first.
Grow(k, b, needed) ==
    LET doubled == 2 * k.cap[b]
        want == k.len[b] + needed
        grown == [k EXCEPT !.cap[b] = IF doubled < want THEN want ELSE doubled,
                           !.wild = @ \/ (b = "scene" /\ k.torn)]
    IN  IF k.cap[b] - k.len[b] >= needed
        THEN Answer(k, "OK")
        ELSE Answer(grown, "OK")
             \cup (IF AllocMayFail THEN Answer(k, "OOM") ELSE {})
             \cup (IF AllocMayFail /\ b = "scene"
                   THEN Answer([k EXCEPT !.torn = k.cap[b] > 0], "OOM") ELSE {})

\* The callers' idiom: the capacity is short of n, ask for the difference.
EnsureShort(k, b, n) ==                                         \* mutant
    IF k.cap[b] + 1 < n THEN Grow(k, b, n - k.cap[b]) ELSE Answer(k, "OK")
Ensure(k, b, n) ==
    IF k.cap[b] < n THEN Grow(k, b, n - k.cap[b]) ELSE Answer(k, "OK")

\* Append m elements one at a time, growing by one when full.
Append1(k, b) ==
    Then(IF k.len[b] >= k.cap[b] THEN Grow(k, b, 1) ELSE Answer(k, "OK"),
         LAMBDA g : Answer([g EXCEPT !.len[b] = @ + 1], "OK"))

AppendMany(k, b, m) ==
    LET after[j \in 0 .. m] ==
            IF j = 0 THEN Answer(k, "OK")
            ELSE Then(after[j - 1], LAMBDA g : Append1(g, b))
    IN  after[m]

\* Copy n elements over the buffer from its start, whatever its capacity.
Copy(k, b, n) == [k EXCEPT !.len[b] = n, !.wild = @ \/ n > k.cap[b]]

---------------------------------------------------------------------------
(* Loading.                                                                *)

\* One slot for each node, until an identity repeats or the slots run out.
StoreSlots(k, p) ==
    LET room == k.cap["slot"]
        Store(n) == [k EXCEPT !.len["slot"] = n]
    IN  IF Duplicates(p) # {} /\ FirstOf(Duplicates(p)) <= room
        THEN Answer(Store(FirstOf(Duplicates(p))), "DUPLICATE_ID")
        ELSE IF room < p.n_node THEN Answer(Store(room), "OOM")
        ELSE Answer(Store(p.n_node), "OK")

\* ui_import_auth: make room, then replace what was loaded, then store slots.
ImportAuth(k, p) ==
    IF p.n_node = 0 \/ (p.n_node > 0 /\ p.nodes[0].kind = "EMPTY")
    THEN Answer(k, "INVALID_ID")
    ELSE LET nodes    == Ensure(k, "node", p.n_node)
             children == Then(nodes, LAMBDA g : Ensure(g, "child", p.n_child))
             tokens   == Then(children, LAMBDA g : Ensure(g, "token", p.n_token))
             slots    == Then(tokens, LAMBDA g : Ensure(g, "slot", p.n_node))
             copied   == Then(slots, LAMBDA g :
                           Answer(Copy(Copy(Copy([g EXCEPT !.auth = p],
                                    "node", p.n_node), "child", p.n_child),
                                    "token", p.n_token), "OK"))
         IN  Then(copied, LAMBDA g : StoreSlots(g, p))

LoadProgram(k, p) ==
    IF ValidateProgram(p) # "OK" THEN Answer(k, ValidateProgram(p)) ELSE ImportAuth(k, p)

---------------------------------------------------------------------------
(* The frame.                                                              *)

\* mlui_kernel_reset_frame, and what mlui_frame begins with.
SomeFrameBuffers == {"scene", "schild", "solve", "event"}       \* mutant
FrameBuffers == {"scene", "schild", "solve", "view", "event"}
ResetFrame(k) ==
    [k EXCEPT !.len = [b \in Buffers |-> IF b \in FrameBuffers THEN 0 ELSE k.len[b]],
              !.events = <<>>]

\* ui_lower_scene on the node behind `root`: any load gives the same reference,
\* the first slot's, so a reference is valid as soon as one slot is stored.
LowerScene(k, root) ==
    LET p == k.auth
        empties == {i \in 0 .. p.n_node - 1 : p.nodes[i].kind = "EMPTY"}
        room == Then(Ensure(k, "scene", p.n_node), LAMBDA g : Ensure(g, "schild", p.n_child))
        Lower(g) ==
            LET c == Copy(g, "schild", p.n_child)
                lowered == IF empties = {} THEN p.n_node ELSE FirstOf(empties)
                s == [c EXCEPT !.wild = @ \/ c.torn \/ lowered > c.cap["scene"]]
            IN  IF empties # {} THEN Answer(s, "UNSUPPORTED_NODE")
                ELSE Answer([s EXCEPT !.len["scene"] = p.n_node], "OK")
    IN  IF root = 0 \/ k.len["slot"] = 0 \/ p.n_node = 0
        THEN Answer(k, "MISSING_NODE")
        ELSE Then(room, Lower)

SolveScene(k) ==
    Then(Ensure(k, "solve", k.len["scene"]),
         LAMBDA g : AppendMany(g, "solve", g.len["scene"]))

RenderOps(k) == AppendMany(k, "view", ViewCount(k.auth))

\* ui_interact_step on the hover of a report: a release over the pressed node
\* activates it.  Every kind not named here is ignored.
StillHeld(k) == [k EXCEPT !.capture = 0]                        \* mutant
Released(k) == [k EXCEPT !.pressed = 0, !.capture = 0]
InteractStep(k, hover, raw) ==
    LET released == Released(k)
        activated == [released EXCEPT !.events = Append(@, k.pressed)]
    IN  CASE raw = "POINTER_MOVED" -> Answer([k EXCEPT !.hover = hover], "OK")
          [] raw = "POINTER_PRESSED" ->
                Answer([k EXCEPT !.pressed = hover,
                                 !.capture = IF hover # 0 /\ @ = 0 THEN hover ELSE @], "OK")
          [] raw = "POINTER_RELEASED" /\ k.pressed # 0 /\ k.pressed = hover ->
                Then(Append1(k, "event"), LAMBDA g :
                     Answer([activated EXCEPT !.len = g.len, !.cap = g.cap], "OK"))
          [] raw = "POINTER_RELEASED" /\ ~(k.pressed # 0 /\ k.pressed = hover) ->
                Answer(released, "OK")
          [] OTHER -> Answer(k, "OK")

Frame(k, root, raw) ==
    LET lowered  == LowerScene(ResetFrame(k), root)
        solved   == Then(lowered, SolveScene)
        rendered == Then(solved, RenderOps)
    IN  Then(rendered, LAMBDA g : InteractStep(g, HoverOf(g.auth), raw))

\* mlui_clear_events.
ClearEvents(k) == [k EXCEPT !.events = <<>>, !.len["event"] = 0]

\* mlui_kernel_close frees every buffer, a torn scene's for the second time.
ClosesCleanly(k) == ~k.torn

=============================================================================
