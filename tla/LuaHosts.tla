------------------------------ MODULE LuaHosts ------------------------------
(***************************************************************************)
(* The three C programs that host a Lua state: lalin, the launcher of the  *)
(* CLI; puc_proto_dump, which prints the instructions of a chunk function  *)
(* by function; puc_trace_operands, which prints the instructions a script *)
(* runs, from a count hook.  Lua itself is external: a call into it        *)
(* succeeds or fails, a chunk is a tree of functions, a script is some     *)
(* interleaving of the instructions of its coroutines.                     *)
(***************************************************************************)
EXTENDS Naturals, Sequences, FiniteSets

CONSTANTS
    Trees,      \* chunks to dump: [sizecode: Seq(Nat), p: Seq(Seq(function))]
    Limits,     \* trace limits; 0 is none
    Threads,    \* coroutines a traced script may have
    MaxRun      \* bound on the instructions of a traced script

CONSTANT Main   \* the main coroutine

ASSUME MainAssumption == Main \in Threads
ASSUME LimitsAssumption == Limits \subseteq Nat

\* The functions of a chunk: 1 is the main one, every other is nested in exactly
\* one of them, once and not in itself; each has an instruction at least.
IsChunk(tree) ==
    LET n == Len(tree.p)
    IN  /\ n > 0 /\ tree.p \in Seq(Seq(2 .. n))
        /\ tree.sizecode \in [1 .. n -> Nat \ {0}]
        /\ \A c \in 2 .. n : \E q \in 1 .. n : \E i \in DOMAIN tree.p[q] : tree.p[q][i] = c
        /\ \A q, r \in 1 .. n : \A i \in DOMAIN tree.p[q], j \in DOMAIN tree.p[r] :
              tree.p[q][i] = tree.p[r][j] => q = r /\ i = j
        /\ \E depth \in [1 .. n -> 0 .. n] :
              \A q \in 1 .. n : \A i \in DOMAIN tree.p[q] : depth[q] < depth[tree.p[q][i]]

ASSUME TreesAssumption == \A t \in Trees : IsChunk(t)

VARIABLES
    arg,    \* the command line
    at,     \* where main stands
    held,   \* what it has open: a Lua state, a trace file
    code,   \* the exit status, once at = "exit"
    dump,   \* the dump's recursion, its counter, its rows
    trace   \* g_seq's lines, the coroutines and their hooks, the instructions run

vars == <<arg, at, held, code, dump, trace>>

AnyTree == CHOOSE t \in Trees : TRUE

Arg(program, argc, tree, limit, to_file) ==
    [program |-> program, argc |-> argc, tree |-> tree, limit |-> limit, to_file |-> to_file]

Args == {Arg("lalin", n, AnyTree, 0, FALSE) : n \in {1, 2}}
   \cup {Arg(p, 1, AnyTree, 0, FALSE) : p \in {"puc_proto_dump", "puc_trace_operands"}}
   \cup {Arg("puc_proto_dump", 2, t, 0, FALSE) : t \in Trees}
   \cup {Arg("puc_trace_operands", 3, AnyTree, l, f) : l \in Limits, f \in BOOLEAN}

Init ==
    /\ arg \in Args
    /\ at = "start" /\ held = {} /\ code = 0
    /\ dump = [stack |-> <<>>, proto_id |-> 0, rows |-> <<>>]
    /\ trace = [lines |-> <<>>, ran |-> 0, live |-> {Main}, hooked |-> {}, own |-> TRUE]

Tracing == arg.program = "puc_trace_operands"

Go(label)       == at' = label /\ UNCHANGED <<arg, code>>
Exit(status)    == at' = "exit" /\ code' = status /\ UNCHANGED arg

---------------------------------------------------------------------------
(* The start of each main.                                                 *)

Usage == at = "start" /\ arg.program # "lalin" /\ arg.argc < 2
         /\ Exit(2) /\ UNCHANGED <<held, dump, trace>>

OpenTrace ==
    /\ at = "start" /\ Tracing /\ arg.argc >= 2
    /\ \/ /\ Go("new")
          /\ held' = IF arg.to_file THEN {"file"} ELSE {}
       \/ arg.to_file /\ Exit(1) /\ UNCHANGED held
    /\ UNCHANGED <<dump, trace>>

Failed == IF arg.program = "lalin" THEN 70 ELSE 1

NewState ==
    /\ \/ at = "new"
       \/ at = "start" /\ ~Tracing /\ (arg.program = "lalin" \/ arg.argc >= 2)
    /\ \/ Go("load") /\ held' = held \cup {"lua"}
       \/ Exit(Failed) /\ UNCHANGED held
    /\ UNCHANGED <<dump, trace>>

\* require "lalin.cli", or luaL_loadfile: on failure all is closed.
LoadCode ==
    /\ at = "load"
    /\ \/ /\ Go(CASE arg.program = "lalin" -> "cli"
                  [] arg.program = "puc_proto_dump" -> "dump"
                  [] OTHER -> "call")
          /\ UNCHANGED held
       \/ Exit(Failed) /\ held' = {}
    /\ UNCHANGED <<dump, trace>>

\* The CLI's main answers its status or raises; either way the state is closed.
RunCliOpen ==                                                   \* mutant
    /\ at = "cli"
    /\ \E status \in IF arg.argc < 2 THEN {0, 70} ELSE {0, 64, 66, 70} : Exit(status)
    /\ UNCHANGED <<held, dump, trace>>
RunCli ==
    /\ at = "cli"
    /\ \E status \in IF arg.argc < 2 THEN {0, 70} ELSE {0, 64, 66, 70} : Exit(status)
    /\ held' = {}
    /\ UNCHANGED <<dump, trace>>

---------------------------------------------------------------------------
(* dump_proto, its recursion a stack of [proto, id, pc, next].             *)

EnterAtDepth(stack, proto) ==                                   \* mutant
    dump' = [dump EXCEPT !.proto_id = @ + 1,
                         !.stack = Append(stack, [proto |-> proto, id |-> Len(stack),
                                                  pc |-> 0, next |-> 1])]
Enter(stack, proto) ==
    dump' = [dump EXCEPT !.proto_id = @ + 1,
                         !.stack = Append(stack, [proto |-> proto, id |-> dump.proto_id,
                                                  pc |-> 0, next |-> 1])]

Top == dump.stack[Len(dump.stack)]

SetTop(frame) == [dump.stack EXCEPT ![Len(dump.stack)] = frame]

\* The chunk's own function is a Lua closure: 1 is the main one.
BeginDump ==
    at = "dump" /\ Enter(<<>>, 1) /\ Go("rows") /\ UNCHANGED <<held, trace>>

DumpRow ==
    /\ at = "rows" /\ Top.pc < arg.tree.sizecode[Top.proto]
    /\ dump' = [dump EXCEPT
                  !.stack = SetTop([Top EXCEPT !.pc = @ + 1]),
                  !.rows = Append(@, [id |-> Top.id, depth |-> Len(dump.stack) - 1, pc |-> Top.pc])]
    /\ UNCHANGED <<arg, at, held, code, trace>>

DumpChild ==
    /\ at = "rows" /\ Top.pc >= arg.tree.sizecode[Top.proto]
    /\ Top.next <= Len(arg.tree.p[Top.proto])
    /\ Enter(SetTop([Top EXCEPT !.next = @ + 1]), arg.tree.p[Top.proto][Top.next])
    /\ UNCHANGED <<arg, at, held, code, trace>>

DumpReturn ==
    /\ at = "rows" /\ Top.pc >= arg.tree.sizecode[Top.proto]
    /\ Top.next > Len(arg.tree.p[Top.proto])
    /\ dump' = [dump EXCEPT !.stack = SubSeq(@, 1, Len(@) - 1)]
    /\ IF Len(dump.stack) = 1
       THEN Exit(0) /\ held' = {}
       ELSE UNCHANGED <<arg, at, held, code>>
    /\ UNCHANGED trace

---------------------------------------------------------------------------
(* The traced script.                                                      *)

\* lua_sethook before the pcall, a hook on every instruction.
CallScript ==
    /\ at = "call" /\ Go("script")
    /\ trace' = [trace EXCEPT !.hooked = {Main}]
    /\ UNCHANGED <<held, dump>>

\* trace_hook on the next instruction of t.
TraceHookLate(t, tr) ==                                         \* mutant
    IF arg.limit # 0 /\ Len(tr.lines) > arg.limit
    THEN [tr EXCEPT !.hooked = @ \ {t}]
    ELSE [tr EXCEPT !.lines = Append(@, tr.ran)]
TraceHook(t, tr) ==
    IF arg.limit # 0 /\ Len(tr.lines) >= arg.limit
    THEN [tr EXCEPT !.hooked = @ \ {t}]
    ELSE [tr EXCEPT !.lines = Append(@, tr.ran)]

\* One instruction of one coroutine, its hook first.
Instruction(t) ==
    /\ t \in trace.live /\ trace.ran < MaxRun
    /\ LET counted == [trace EXCEPT !.ran = @ + 1]
       IN  trace' = IF t \in trace.hooked THEN TraceHook(t, counted) ELSE counted
    /\ UNCHANGED <<arg, at, held, code, dump>>

RunInstruction == at = "script" /\ \E t \in trace.live : Instruction(t)

\* coroutine.create: a coroutine starts with its creator's hook.
Spawn ==
    /\ at = "script"
    /\ \E t \in trace.live, new \in Threads \ trace.live :
         trace' = [trace EXCEPT !.live = @ \cup {new},
                                !.hooked = IF t \in @ THEN @ \cup {new} ELSE @]
    /\ UNCHANGED <<arg, at, held, code, dump>>

\* The script has the debug library: it may take a hook away.
ScriptUnhooks ==
    /\ at = "script"
    /\ \E t \in trace.hooked : trace' = [trace EXCEPT !.hooked = @ \ {t}, !.own = FALSE]
    /\ UNCHANGED <<arg, at, held, code, dump>>

\* The pcall returns, with or without an error; the main coroutine is unhooked.
ScriptClosesTrace ==                                            \* mutant
    /\ at = "script"
    /\ at' = "close" /\ code' \in {0, 1} /\ held' = held \ {"file"}
    /\ trace' = [trace EXCEPT !.hooked = @ \ {Main}]
    /\ UNCHANGED <<arg, dump>>
ScriptReturns ==
    /\ at = "script"
    /\ at' = "close" /\ code' \in {0, 1}
    /\ trace' = [trace EXCEPT !.hooked = @ \ {Main}]
    /\ UNCHANGED <<arg, held, dump>>

\* lua_close runs finalizers, and these may resume coroutines.
Finalize ==
    at = "close" /\ \E t \in trace.live \ {Main} : Instruction(t)

CloseScript ==
    /\ at = "close" /\ "lua" \in held
    /\ Go("fclose")
    /\ held' = held \ {"lua"}
    /\ UNCHANGED <<dump, trace>>

CloseTrace ==
    at = "fclose" /\ Exit(code) /\ held' = {} /\ UNCHANGED <<dump, trace>>

Next ==
    \/ Usage \/ OpenTrace \/ NewState \/ LoadCode \/ RunCli
    \/ BeginDump \/ DumpRow \/ DumpChild \/ DumpReturn
    \/ CallScript \/ RunInstruction \/ Spawn \/ ScriptUnhooks \/ ScriptReturns
    \/ Finalize \/ CloseScript \/ CloseTrace

Spec == Init /\ [][Next]_vars

---------------------------------------------------------------------------
(* Properties.                                                             *)

Ids == 0 .. dump.proto_id - 1

RowsOf(id) == {k \in DOMAIN dump.rows : dump.rows[k].id = id}

DepthOf(id) == dump.rows[CHOOSE k \in RowsOf(id) : TRUE].depth

\* The function a reader of the rows takes for the parent of id: the last one
\* before it that is one level up.
ParentOf(id) ==
    CHOOSE j \in 0 .. id - 1 :
        /\ DepthOf(j) + 1 = DepthOf(id)
        /\ \A k \in j + 1 .. id - 1 : DepthOf(k) + 1 # DepthOf(id)

\* The rows of a dump that succeeded are enough to rebuild the chunk: for some
\* naming of the functions by ids every row is one of its function's
\* instructions, in order, and the depths give every function its parent and
\* siblings in their order.
RowsRebuildChunk ==
    arg.program = "puc_proto_dump" /\ at = "exit" /\ code = 0 =>
        /\ \A k, m \in DOMAIN dump.rows : k < m =>
             \/ dump.rows[k].id < dump.rows[m].id
             \/ dump.rows[k].id = dump.rows[m].id /\ dump.rows[k].pc < dump.rows[m].pc
        /\ \E f \in [Ids -> DOMAIN arg.tree.p] :
             /\ f[0] = 1
             /\ \A q \in DOMAIN arg.tree.p : \E id \in Ids : f[id] = q
             /\ \A id \in Ids : Cardinality(RowsOf(id)) = arg.tree.sizecode[f[id]]
             /\ \A j \in Ids :
                  LET kids == {id \in Ids \ {0} : ParentOf(id) = j}
                      nth(id) == Cardinality({k \in kids : k <= id})
                  IN  /\ Cardinality(kids) = Len(arg.tree.p[f[j]])
                      /\ \A id \in kids : f[id] = arg.tree.p[f[j]][nth(id)]

\* While a script leaves the hooks alone its trace is the instructions it has
\* run, of all its coroutines in the order they ran, up to the limit; whatever
\* it does, no more lines than the limit and each later than the one before.
TraceIsPrefix ==
    /\ \A k \in 2 .. Len(trace.lines) : trace.lines[k - 1] < trace.lines[k]
    /\ arg.limit # 0 => Len(trace.lines) <= arg.limit
    /\ at = "script" /\ trace.own =>
         Len(trace.lines) = IF arg.limit # 0 /\ arg.limit < trace.ran THEN arg.limit ELSE trace.ran

\* A program that ends has closed its state and its file, except that a trace
\* file stays open when no state could be made for it; a tool that exits 0 has
\* finished what it was asked for.
ExitsAreClean ==
    at = "exit" =>
        /\ "lua" \notin held
        /\ "file" \in held => Tracing /\ code = 1 /\ trace.hooked = {} /\ trace.ran = 0
        /\ code = 0 /\ arg.program = "puc_proto_dump" =>
              dump.stack = <<>> /\ dump.proto_id = Len(arg.tree.p)
        /\ code = 0 /\ Tracing => Main \notin trace.hooked

\* Every line goes to a file that is still open, those that finalizers cause
\* while the state is being closed included.
LinesReachTheFile ==
    [][trace'.lines # trace.lines /\ arg.to_file => {"file", "lua"} \subseteq held]_vars

=============================================================================
