----------------------------- MODULE MluiClient -----------------------------
(***************************************************************************)
(* A host that calls one kernel in any order: programs of several shapes,  *)
(* raw inputs in and out of frames, clears, resets and the close, with an  *)
(* allocator that may refuse in the middle of any of them.  Once a call    *)
(* has written outside a buffer nothing more is said of the kernel.        *)
(***************************************************************************)
EXTENDS MluiKernel

CONSTANTS
    Programs,   \* programs the host loads or imports
    Raws        \* raw inputs it sends

ASSUME RawsAssumption == Raws \subseteq RawKinds

\* Rows of the header's types; what they say may be anything.
ASSUME ProgramsAssumption ==
    \A p \in Programs :
        /\ p.n_node \in Nat /\ p.n_child \in Nat /\ p.n_token \in Nat
        /\ p.nodes \in [0 .. p.n_node - 1 -> Node]
        /\ p.children \in [0 .. p.n_child - 1 -> Nat]

VARIABLES
    ui,         \* the mlui_kernel that the host calls
    open,       \* FALSE once mlui_kernel_close has returned
    last        \* the last call and its status

hostVars == <<ui, open, last>>

Usable == open /\ ~ui.wild

\* Make a call: any of its outcomes.
Call(name, outcomes) ==
    /\ Usable
    /\ \E o \in outcomes :
          /\ ui' = o.kernel
          /\ last' = [call |-> name, status |-> o.status]
    /\ UNCHANGED open

\* mlui_import_auth_buffer takes the rows without the validator's checks.
HostLoad    == \E p \in Programs : Call("load", LoadProgram(ui, p))
Import      == \E p \in Programs : Call("import", ImportAuth(ui, p))
FrameStep   == \E root \in {0, 1}, raw \in Raws : Call("frame", Frame(ui, root, raw))
InteractHover ==                                                \* mutant
    \E raw \in Raws : Call("interact", InteractStep(ui, ui.hover, raw))
Interact    == \E raw \in Raws : Call("interact", InteractStep(ui, 0, raw))
Clear       == Call("clear", Answer(ClearEvents(ui), "OK"))
Reset       == Call("reset", Answer(ResetFrame(ui), "OK"))

HostClose ==
    /\ Usable
    /\ open' = FALSE
    /\ ui' = [ui EXCEPT !.wild = ~ClosesCleanly(ui)]
    /\ last' = [call |-> "close", status |-> "OK"]

HostInit == ui = NewKernel /\ open = TRUE /\ last = [call |-> "init", status |-> "OK"]

HostNext == HostLoad \/ Import \/ FrameStep \/ Interact \/ Clear \/ Reset \/ HostClose

HostSpec == HostInit /\ [][HostNext]_hostVars

---------------------------------------------------------------------------
(* Properties.                                                             *)

\* The pressed node and the last event of the buffer keep the promise of
\* MluiPress, whatever failed in between.
Fired == IF ui.events = <<>> THEN 0 ELSE ui.events[Len(ui.events)]

Promise == INSTANCE MluiPress WITH held <- ui.pressed, fired <- Fired

ActivatesOnce == Promise!Spec

\* Whatever was refused before it, a frame that answers OK shows the program
\* that is loaded, all of it, with at most one event; one that does not answer
\* OK leaves no event, and before the render no operation, to be read.
FrameIsWhole ==
    last.call = "frame" /\ ~ui.wild =>
        /\ ui.len["event"] = Len(ui.events)
        /\ last.status = "OK" =>
              /\ ui.len["view"] = ViewCount(ui.auth)
              /\ ui.len["solve"] = ui.auth.n_node
              /\ Len(ui.events) <= 1
        /\ last.status # "OK" => ui.events = <<>>
        /\ last.status \in {"MISSING_NODE", "UNSUPPORTED_NODE"} => ui.len["view"] = 0

\* Operations and events that the host borrowed stay where they are and as they
\* are until the next frame, reset, clear or close.
BorrowsLast ==
    [][last'.call \in {"load", "import", "interact"} =>
          /\ \A b \in {"view", "event"} :
                ui'.cap[b] = ui.cap[b] /\ ui'.len[b] = ui.len[b]
          /\ ui'.events = ui.events]_hostVars

\* grow_elems "doubles capacity when room is insufficient" or exits through
\* oom: after either, no write of the call goes outside its buffer.
WritesStayInBuffers == ~ui.wild

=============================================================================
