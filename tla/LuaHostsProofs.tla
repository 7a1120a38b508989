--------------------------- MODULE LuaHostsProofs ---------------------------
(* What the hosts of a Lua state keep for any chunks, limits and coroutines, *)
(* and however many instructions a script runs: the trace is what was run,   *)
(* its lines are written while the file is open, the rows of a dump are the  *)
(* whole chunk, and every exit closes what was opened.                       *)
EXTENDS LuaHosts, FiniteSetTheorems, SequenceTheorems, NaturalsInduction,
        WellFoundedInduction, TLAPS

TraceType == [lines : Seq(Nat), ran : Nat, live : SUBSET Threads,
              hooked : SUBSET Threads, own : BOOLEAN]

\* The lines of a trace are numbers of instructions already run, growing.
Rising(tr) ==
    /\ \A k \in 1..Len(tr.lines) : tr.lines[k] <= tr.ran
    /\ \A k \in 2..Len(tr.lines) : tr.lines[k - 1] < tr.lines[k]

Full(tr) == arg.limit # 0 /\ Len(tr.lines) >= arg.limit

\* While the script leaves the hooks alone: a coroutine without one shows that
\* the limit is reached, and until it is every instruction has its line.
Counted(tr) ==
    /\ Len(tr.lines) = IF arg.limit # 0 /\ arg.limit < tr.ran THEN arg.limit ELSE tr.ran
    /\ \A t \in tr.live : t \in tr.hooked \/ Full(tr)

\* The inductive invariant of the trace.
TraceInv ==
    /\ arg.limit \in Nat
    /\ trace \in TraceType
    /\ Rising(trace)
    /\ arg.limit # 0 => Len(trace.lines) <= arg.limit
    /\ at \in {"start", "new", "load", "call"} =>
          /\ trace.lines = <<>> /\ trace.ran = 0 /\ trace.live = {Main} /\ trace.own
    /\ at = "script" /\ trace.own => Counted(trace)

LEMMA Fields ==
    ASSUME NEW tr \in TraceType
    PROVE  /\ tr.lines \in Seq(Nat) /\ Len(tr.lines) \in Nat /\ tr.ran \in Nat
           /\ tr.live \in SUBSET Threads /\ tr.hooked \in SUBSET Threads
           /\ tr.own \in BOOLEAN
BY DEF TraceType

\* A line for the newest instruction.
LEMMA RisingAppend ==
    ASSUME NEW tr \in TraceType, Rising(tr), NEW q \in TraceType,
           q.lines = Append(tr.lines, q.ran), q.ran = tr.ran + 1
    PROVE  Rising(q) /\ Len(q.lines) = Len(tr.lines) + 1
<1> DEFINE s == tr.lines
           t == Append(s, q.ran)
           n == Len(s)
<1>1. s \in Seq(Nat) /\ n \in Nat /\ tr.ran \in Nat /\ q.ran \in Nat
  BY Fields
<1>2. Len(t) = n + 1 /\ t[n + 1] = q.ran /\ \A k \in 1..n : t[k] = s[k] /\ s[k] \in Nat
  BY <1>1
<1>7. q.lines = t
  OBVIOUS
<1> HIDE DEF t
<1>3. \A k \in 1..Len(t) : k \in 1..n \/ k = n + 1
  BY <1>1, <1>2
<1>4. \A k \in 1..n : s[k] <= tr.ran
  BY DEF Rising
<1>5. ASSUME NEW k \in 1..Len(t) PROVE t[k] <= q.ran
  <2>1. CASE k \in 1..n
    <3>1. t[k] = s[k] /\ s[k] \in Nat /\ s[k] <= tr.ran
      BY <1>2, <1>4, <2>1
    <3> QED
      BY <1>1, <3>1
  <2>2. CASE k = n + 1
    BY <1>1, <1>2, <2>2
  <2> QED
    BY <1>3, <2>1, <2>2
<1>6. ASSUME NEW k \in 2..Len(t) PROVE t[k - 1] < t[k]
  <2>1. k - 1 \in 1..n
    BY <1>1, <1>2
  <2>2. CASE k \in 2..n
    BY <1>2, <2>1, <2>2 DEF Rising
  <2>3. CASE k = n + 1
    <3>1. t[k] = tr.ran + 1 /\ t[k - 1] = s[k - 1] /\ s[k - 1] \in Nat /\ s[k - 1] <= tr.ran
      BY <1>2, <1>4, <2>1, <2>3
    <3> QED
      BY <1>1, <3>1
  <2> QED
    BY <1>1, <1>2, <2>2, <2>3
<1> QED
  BY <1>2, <1>5, <1>6, <1>7 DEF Rising

\* One instruction of one coroutine.
LEMMA InstructionKeeps ==
    ASSUME TraceInv, NEW t \in Threads, Instruction(t)
    PROVE  /\ trace' \in TraceType /\ Rising(trace')
           /\ arg.limit # 0 => Len(trace'.lines) <= arg.limit
           /\ trace'.own = trace.own
           /\ Counted(trace) => Counted(trace')
<1> DEFINE n == trace.ran + 1
           c == [trace EXCEPT !.ran = n]
           s == Append(c.lines, c.ran)
           h == c.hooked \ {t}
           unhooked == [c EXCEPT !.hooked = h]
           traced == [c EXCEPT !.lines = s]
<1>0. t \in trace.live
  BY DEF Instruction
<1>1. /\ trace \in TraceType /\ Rising(trace) /\ arg.limit \in Nat
      /\ arg.limit # 0 => Len(trace.lines) <= arg.limit
  BY DEF TraceInv
<1>2. \/ t \notin trace.hooked /\ trace' = c
      \/ t \in trace.hooked /\ Full(c) /\ trace' = unhooked
      \/ t \in trace.hooked /\ ~Full(c) /\ trace' = traced
  BY DEF Instruction, TraceHook, Full
<1>3. n \in Nat
  BY <1>1, Fields
<1> HIDE DEF n
<1>4. /\ c \in TraceType /\ c.lines = trace.lines /\ c.ran = n /\ c.live = trace.live
      /\ c.hooked = trace.hooked /\ c.own = trace.own
  BY <1>1, <1>3 DEF TraceType
<1> HIDE DEF c
<1>5. s \in Seq(Nat) /\ h \in SUBSET Threads
  BY <1>3, <1>4, Fields
<1> HIDE DEF s, h
<1>6. /\ unhooked \in TraceType /\ unhooked.lines = trace.lines /\ unhooked.ran = n
      /\ unhooked.live = trace.live /\ unhooked.hooked = h /\ unhooked.own = trace.own
  BY <1>4, <1>5 DEF TraceType
<1>7. /\ traced \in TraceType /\ traced.lines = s /\ traced.ran = n
      /\ traced.live = trace.live /\ traced.hooked = trace.hooked /\ traced.own = trace.own
  BY <1>4, <1>5 DEF TraceType
<1> HIDE DEF unhooked, traced
<1>8. Full(c) <=> Full(trace)
  BY <1>4 DEF Full
<1>9. Rising(c) /\ Rising(unhooked)
  <2>1. \A k \in 1..Len(trace.lines) : trace.lines[k] \in Nat /\ trace.lines[k] <= trace.ran
    BY <1>1, Fields DEF Rising
  <2>2. \A k \in 1..Len(trace.lines) : trace.lines[k] <= n
    BY <1>1, <2>1, Fields DEF n
  <2> QED
    BY <1>1, <1>4, <1>6, <2>2 DEF Rising
<1>10. Rising(traced) /\ Len(traced.lines) = Len(trace.lines) + 1
  <2>1. traced.lines = Append(trace.lines, traced.ran) /\ traced.ran = trace.ran + 1
    BY <1>4, <1>7 DEF s, n
  <2> QED
    BY <1>1, <1>7, <2>1, RisingAppend
<1>11. CASE trace' = c /\ t \notin trace.hooked
  <2>1. ASSUME Counted(trace) PROVE Counted(c)
    <3>1. Full(trace)
      BY <1>0, <1>11, <2>1 DEF Counted
    <3>2. Len(trace.lines) = arg.limit /\ arg.limit <= trace.ran
      BY <1>1, <2>1, <3>1, Fields DEF Counted, Full
    <3>3. Len(c.lines) = IF arg.limit # 0 /\ arg.limit < c.ran THEN arg.limit ELSE c.ran
      BY <1>1, <1>4, <3>1, <3>2, Fields DEF Full, n
    <3> QED
      BY <1>4, <1>8, <3>1, <3>3 DEF Counted
  <2> QED
    BY <1>1, <1>4, <1>9, <1>11, <2>1
<1>12. CASE trace' = unhooked /\ Full(c)
  <2>1. ASSUME Counted(trace) PROVE Counted(unhooked)
    <3>1. Full(trace) /\ Full(unhooked)
      BY <1>6, <1>8, <1>12 DEF Full
    <3>2. Len(trace.lines) = arg.limit /\ arg.limit <= trace.ran
      BY <1>1, <2>1, <3>1, Fields DEF Counted, Full
    <3>3. Len(unhooked.lines) =
            IF arg.limit # 0 /\ arg.limit < unhooked.ran THEN arg.limit ELSE unhooked.ran
      BY <1>1, <1>6, <3>1, <3>2, Fields DEF Full, n
    <3> QED
      BY <3>1, <3>3 DEF Counted
  <2> QED
    BY <1>1, <1>6, <1>9, <1>12, <2>1
<1>13. CASE trace' = traced /\ ~Full(c)
  <2>1. arg.limit = 0 \/ Len(trace.lines) < arg.limit
    BY <1>1, <1>8, <1>13, Fields DEF Full
  <2>2. arg.limit # 0 => Len(traced.lines) <= arg.limit
    BY <1>1, <1>10, <2>1, Fields
  <2>3. ASSUME Counted(trace) PROVE Counted(traced)
    <3>1. Len(trace.lines) = trace.ran
      BY <1>1, <2>1, <2>3, Fields DEF Counted
    <3>2. Len(traced.lines) =
            IF arg.limit # 0 /\ arg.limit < traced.ran THEN arg.limit ELSE traced.ran
      BY <1>1, <1>7, <1>10, <2>1, <3>1, Fields DEF n
    <3>3. \A u \in trace.live : u \in trace.hooked
      BY <1>8, <1>13, <2>3 DEF Counted
    <3> QED
      BY <1>7, <3>2, <3>3 DEF Counted
  <2> QED
    BY <1>7, <1>10, <1>13, <2>2, <2>3
<1> QED
  BY <1>2, <1>11, <1>12, <1>13

LEMMA TraceInit ==
    ASSUME Init
    PROVE  TraceInv
<1>1. arg.limit \in Nat
  BY LimitsAssumption DEF Init, Args, Arg
<1>2. /\ trace = [lines |-> <<>>, ran |-> 0, live |-> {Main}, hooked |-> {}, own |-> TRUE]
      /\ at = "start"
  BY DEF Init
<1>3. trace \in TraceType /\ trace.lines = <<>> /\ trace.ran = 0
      /\ trace.live = {Main} /\ trace.own
  BY <1>2, MainAssumption DEF TraceType
<1>4. Len(trace.lines) = 0
  BY <1>3
<1> QED
  BY <1>1, <1>2, <1>3, <1>4 DEF TraceInv, Rising

\* Steps that leave the trace, at places that owe the script nothing new.
LEMMA Untraced ==
    ASSUME TraceInv, UNCHANGED <<arg, trace>>,
           at' \in {"start", "new", "load", "call"} =>
                at \in {"start", "new", "load", "call"},
           at' = "script" => at = "script"
    PROVE  TraceInv'
BY DEF TraceInv, Counted, Full, Rising

LEMMA TraceNext ==
    ASSUME TraceInv, Next
    PROVE  TraceInv'
<1>0. trace \in TraceType /\ arg.limit \in Nat
  BY DEF TraceInv
<1>1. CASE Usage \/ OpenTrace \/ NewState \/ LoadCode \/ RunCli
  BY <1>1, Untraced DEF Usage, OpenTrace, NewState, LoadCode, RunCli, Go, Exit
<1>2. CASE BeginDump \/ DumpRow \/ DumpChild \/ DumpReturn
  BY <1>2, Untraced DEF BeginDump, DumpRow, DumpChild, DumpReturn, Go, Exit
<1>3. CASE CloseScript \/ CloseTrace
  BY <1>3, Untraced DEF CloseScript, CloseTrace, Go, Exit
<1>4. CASE CallScript
  <2>1. /\ at = "call" /\ at' = "script" /\ UNCHANGED arg
        /\ trace' = [trace EXCEPT !.hooked = {Main}]
    BY <1>4 DEF CallScript, Go
  <2>2. trace.lines = <<>> /\ trace.ran = 0 /\ trace.live = {Main}
    BY <2>1 DEF TraceInv
  <2>3. /\ trace' \in TraceType /\ trace'.lines = <<>> /\ trace'.ran = 0
        /\ trace'.live = {Main} /\ trace'.hooked = {Main}
    BY <1>0, <2>1, <2>2, MainAssumption DEF TraceType
  <2>4. Len(trace'.lines) = 0
    BY <2>3
  <2>5. Rising(trace') /\ Counted(trace')
    BY <1>0, <2>3, <2>4 DEF Rising, Counted
  <2>6. Counted(trace)'
    BY <2>1, <2>5 DEF Counted, Full
  <2> QED
    BY <1>0, <2>1, <2>3, <2>4, <2>5, <2>6 DEF TraceInv, Rising
<1>5. CASE RunInstruction
  <2>1. PICK t \in trace.live : Instruction(t)
    BY <1>5 DEF RunInstruction
  <2>2. t \in Threads /\ at = "script" /\ at' = at /\ arg' = arg
    BY <1>0, <1>5, <2>1, Fields DEF RunInstruction, Instruction
  <2>3. /\ trace' \in TraceType /\ Rising(trace')
        /\ arg.limit # 0 => Len(trace'.lines) <= arg.limit
        /\ trace'.own = trace.own
        /\ Counted(trace) => Counted(trace')
    BY <2>1, <2>2, InstructionKeeps
  <2>4. trace.own => Counted(trace)'
    <3>1. ASSUME trace.own PROVE Counted(trace')
      BY <2>2, <2>3, <3>1 DEF TraceInv
    <3> QED
      BY <2>2, <3>1 DEF Counted, Full
  <2> QED
    BY <1>0, <2>2, <2>3, <2>4 DEF TraceInv, Rising
<1>6. CASE Finalize
  <2>1. PICK t \in trace.live \ {Main} : Instruction(t)
    BY <1>6 DEF Finalize
  <2>2. t \in Threads /\ at = "close" /\ at' = at /\ arg' = arg
    BY <1>0, <1>6, <2>1, Fields DEF Finalize, Instruction
  <2>3. /\ trace' \in TraceType /\ Rising(trace')
        /\ arg.limit # 0 => Len(trace'.lines) <= arg.limit
    BY <2>1, <2>2, InstructionKeeps
  <2> QED
    BY <1>0, <2>2, <2>3 DEF TraceInv, Rising
<1>7. CASE Spawn
  <2>1. PICK t \in trace.live, new \in Threads \ trace.live :
          trace' = [trace EXCEPT !.live = @ \cup {new},
                                 !.hooked = IF t \in @ THEN @ \cup {new} ELSE @]
    BY <1>7 DEF Spawn
  <2> DEFINE l == trace.live \cup {new}
             h == IF t \in trace.hooked THEN trace.hooked \cup {new} ELSE trace.hooked
             m == [trace EXCEPT !.live = l]
  <2>2. at = "script" /\ at' = at /\ arg' = arg
    BY <1>7 DEF Spawn
  <2>3. l \in SUBSET Threads /\ h \in SUBSET Threads
    BY <1>0, Fields
  <2>4. trace' = [m EXCEPT !.hooked = h]
    BY <2>1
  <2> HIDE DEF l, h
  <2>5. /\ m \in TraceType /\ m.lines = trace.lines /\ m.ran = trace.ran /\ m.own = trace.own
        /\ m.live = l /\ m.hooked = trace.hooked
    BY <1>0, <2>3 DEF TraceType
  <2> HIDE DEF m
  <2>6. /\ trace' \in TraceType /\ trace'.lines = trace.lines /\ trace'.ran = trace.ran
        /\ trace'.own = trace.own /\ trace'.live = l /\ trace'.hooked = h
    BY <2>3, <2>4, <2>5 DEF TraceType
  <2>7. ASSUME trace.own PROVE Counted(trace)'
    <3>1. Counted(trace)
      BY <2>2, <2>7 DEF TraceInv
    <3>2. ASSUME NEW u \in l PROVE u \in h \/ Full(trace)
      <4>1. u \in trace.live \/ u = new
        BY DEF l
      <4>2. t \in trace.hooked \/ Full(trace)
        BY <3>1 DEF Counted
      <4> QED
        BY <3>1, <4>1, <4>2 DEF Counted, h
    <3> QED
      BY <2>2, <2>6, <3>1, <3>2 DEF Counted, Full
  <2> QED
    BY <1>0, <2>2, <2>6, <2>7 DEF TraceInv, Rising
<1>8. CASE ScriptUnhooks
  <2>1. PICK t \in trace.hooked :
          trace' = [trace EXCEPT !.hooked = @ \ {t}, !.own = FALSE]
    BY <1>8 DEF ScriptUnhooks
  <2> DEFINE h == trace.hooked \ {t}
             m == [trace EXCEPT !.hooked = h]
  <2>2. at = "script" /\ at' = at /\ arg' = arg
    BY <1>8 DEF ScriptUnhooks
  <2>3. h \in SUBSET Threads /\ trace' = [m EXCEPT !.own = FALSE]
    BY <1>0, <2>1, Fields
  <2> HIDE DEF h
  <2>4. m \in TraceType /\ m.lines = trace.lines /\ m.ran = trace.ran
    BY <1>0, <2>3 DEF TraceType
  <2> HIDE DEF m
  <2>5. /\ trace' \in TraceType /\ trace'.lines = trace.lines /\ trace'.ran = trace.ran
        /\ trace'.own = FALSE
    BY <2>3, <2>4 DEF TraceType
  <2> QED
    BY <1>0, <2>2, <2>5 DEF TraceInv, Rising
<1>9. CASE ScriptReturns
  <2> DEFINE h == trace.hooked \ {Main}
  <2>1. at' = "close" /\ arg' = arg /\ trace' = [trace EXCEPT !.hooked = h]
    BY <1>9 DEF ScriptReturns
  <2>2. h \in SUBSET Threads
    BY <1>0, Fields
  <2> HIDE DEF h
  <2>3. trace' \in TraceType /\ trace'.lines = trace.lines /\ trace'.ran = trace.ran
    BY <1>0, <2>1, <2>2 DEF TraceType
  <2> QED
    BY <1>0, <2>1, <2>3 DEF TraceInv, Rising
<1> QED
  BY <1>1, <1>2, <1>3, <1>4, <1>5, <1>6, <1>7, <1>8, <1>9 DEF Next

LEMMA TraceStep == TraceInv /\ [Next]_vars => TraceInv'
<1>1. ASSUME TraceInv, UNCHANGED vars PROVE TraceInv'
  BY <1>1, Untraced DEF vars
<1> QED
  BY <1>1, TraceNext

\* A trace is the instructions that were run, in order and without a gap, until
\* its limit: for any limit, however many coroutines share the counter.
THEOREM TraceOfRun == Spec => []TraceIsPrefix
<1>1. TraceInv => TraceIsPrefix
  BY DEF TraceInv, Rising, Counted, TraceIsPrefix
<1> QED
  BY <1>1, TraceInit, TraceStep, PTL DEF Spec

---------------------------------------------------------------------------
(* What is open.                                                           *)

\* While anything may be traced the state is there, and the file if there is
\* one; what a program has left at its exit.
HeldInv ==
    /\ arg.program \in {"lalin", "puc_proto_dump", "puc_trace_operands"}
    /\ ~Tracing => ~arg.to_file
    /\ at \in {"start", "new", "load", "cli", "dump", "rows", "call", "script",
               "close", "fclose", "exit"}
    /\ held \subseteq {"lua", "file"}
    /\ at = "start" => held = {}
    /\ at = "new" => Tracing /\ "lua" \notin held
    /\ at \in {"new", "load", "call", "script", "close"} /\ arg.to_file => "file" \in held
    /\ at \in {"load", "cli", "dump", "rows", "call", "script", "close"} => "lua" \in held
    /\ at = "fclose" => "lua" \notin held
    /\ at = "exit" => "lua" \notin held /\ ("file" \in held => Tracing /\ code = 1)

LEMMA HeldInit ==
    ASSUME Init
    PROVE  HeldInv
<1>1. arg \in Args /\ at = "start" /\ held = {}
  BY DEF Init
<1>2. arg.program \in {"lalin", "puc_proto_dump", "puc_trace_operands"}
  BY <1>1 DEF Args, Arg
<1>3. ~Tracing => ~arg.to_file
  BY <1>1 DEF Args, Arg, Tracing
<1> QED
  BY <1>1, <1>2, <1>3 DEF HeldInv

LEMMA HeldNext ==
    ASSUME HeldInv, Next
    PROVE  HeldInv'
<1>1. CASE Usage
  BY <1>1 DEF Usage, Exit, HeldInv, Tracing
<1>2. CASE OpenTrace
  BY <1>2 DEF OpenTrace, Go, Exit, HeldInv, Tracing
<1>3. CASE NewState
  BY <1>3 DEF NewState, Go, Exit, Failed, HeldInv, Tracing
<1>4. CASE LoadCode
  BY <1>4 DEF LoadCode, Go, Exit, Failed, HeldInv, Tracing
<1>5. CASE RunCli
  BY <1>5 DEF RunCli, Exit, HeldInv, Tracing
<1>6. CASE BeginDump \/ DumpRow \/ DumpChild
  BY <1>6 DEF BeginDump, DumpRow, DumpChild, Go, HeldInv, Tracing
<1>7. CASE DumpReturn
  BY <1>7 DEF DumpReturn, Exit, HeldInv, Tracing
<1>8. CASE CallScript
  BY <1>8 DEF CallScript, Go, HeldInv, Tracing
<1>9. CASE RunInstruction \/ Finalize \/ Spawn \/ ScriptUnhooks
  BY <1>9 DEF RunInstruction, Finalize, Instruction, Spawn, ScriptUnhooks, HeldInv, Tracing
<1>10. CASE ScriptReturns
  BY <1>10 DEF ScriptReturns, HeldInv, Tracing
<1>11. CASE CloseScript
  BY <1>11 DEF CloseScript, Go, HeldInv, Tracing
<1>12. CASE CloseTrace
  BY <1>12 DEF CloseTrace, Exit, HeldInv, Tracing
<1> QED
  BY <1>1, <1>2, <1>3, <1>4, <1>5, <1>6, <1>7, <1>8, <1>9, <1>10, <1>11, <1>12 DEF Next

LEMMA HeldStep == HeldInv /\ [Next]_vars => HeldInv'
<1>1. ASSUME HeldInv, UNCHANGED vars PROVE HeldInv'
  BY <1>1 DEF vars, HeldInv, Tracing
<1> QED
  BY <1>1, HeldNext

\* Every line of a trace is written while its file is open and the state that
\* writes it exists, those that finalizers cause during lua_close included.
THEOREM LinesInTime == Spec => LinesReachTheFile
<1>1. HeldInv /\ [Next]_vars =>
        [trace'.lines # trace.lines /\ arg.to_file => {"file", "lua"} \subseteq held]_vars
  <2> SUFFICES ASSUME HeldInv, Next, trace'.lines # trace.lines, arg.to_file
               PROVE  {"file", "lua"} \subseteq held
    OBVIOUS
  <2>1. CASE RunInstruction \/ Finalize
    BY <2>1 DEF RunInstruction, Finalize, HeldInv
  <2>2. CASE CallScript
    BY <2>2 DEF CallScript, HeldInv
  <2>3. CASE Spawn \/ ScriptUnhooks \/ ScriptReturns
    BY <2>3 DEF Spawn, ScriptUnhooks, ScriptReturns, HeldInv
  <2>4. CASE \/ Usage \/ OpenTrace \/ NewState \/ LoadCode \/ RunCli
             \/ BeginDump \/ DumpRow \/ DumpChild \/ DumpReturn
             \/ CloseScript \/ CloseTrace
    BY <2>4 DEF Usage, OpenTrace, NewState, LoadCode, RunCli, BeginDump, DumpRow,
                DumpChild, DumpReturn, CloseScript, CloseTrace
  <2> QED
    BY <2>1, <2>2, <2>3, <2>4 DEF Next
<1> QED
  BY <1>1, HeldInit, HeldStep, PTL DEF Spec, LinesReachTheFile

---------------------------------------------------------------------------
(* The dump.  The functions that it has numbered are named by f; par, pos    *)
(* and dep are the parent of a number, its place in it and its depth.        *)

\* The numbers 0 .. m - 1 name different functions of the chunk, the main one
\* first, each below its parent and after what is nested in its elder siblings.
Names(P, m, f, par, pos, dep) ==
    /\ m \in Nat \ {0}
    /\ f \in [0 .. m - 1 -> 1 .. Len(P)] /\ f[0] = 1
    /\ \A a, b \in 0 .. m - 1 : f[a] = f[b] => a = b
    /\ par \in [0 .. m - 1 -> Nat] /\ pos \in [0 .. m - 1 -> Nat] /\ dep \in [0 .. m - 1 -> Nat]
    /\ dep[0] = 0
    /\ \A a \in 1 .. m - 1 :
          /\ par[a] < a /\ dep[a] = dep[par[a]] + 1
          /\ pos[a] \in 1 .. Len(P[f[par[a]]]) /\ f[a] = P[f[par[a]]][pos[a]]
    /\ \A a \in 1 .. m - 1, k \in 0 .. m - 1 : par[a] < k /\ k < a => dep[k] >= dep[a]
    /\ \A a, b \in 1 .. m - 1 : par[a] = par[b] /\ a < b => pos[a] < pos[b]

Frame == [proto : Nat, id : Nat, pc : Nat, next : Nat]

\* The calls of dump_proto under way: each of a function one level deeper, its
\* number the last of its level, its rows all printed unless it is the innermost
\* and the newest.
Frames(P, S, st, m, f, dep) ==
    /\ st \in Seq(Frame)
    /\ \A i \in 1 .. Len(st) :
          /\ st[i].id \in 0 .. m - 1 /\ f[st[i].id] = st[i].proto /\ dep[st[i].id] = i - 1
          /\ st[i].next \in 1 .. Len(P[st[i].proto]) + 1 /\ st[i].pc <= S[st[i].proto]
          /\ i < Len(st) => st[i].pc = S[st[i].proto]
          /\ i = Len(st) /\ st[i].pc < S[st[i].proto] => st[i].id = m - 1
          /\ \A k \in 0 .. m - 1 : st[i].id < k => i <= dep[k]

Nested(m, par, pos, id, j) == \E a \in 1 .. m - 1 : par[a] = id /\ pos[a] = j

Underway(st, id) == \E i \in 1 .. Len(st) : st[i].id = id

\* A call has gone into the functions before its next one, a call that returned
\* into all of them.
Visits(P, st, m, f, par, pos) ==
    /\ \A i \in 1 .. Len(st) :
          /\ \A j \in 1 .. st[i].next - 1 : Nested(m, par, pos, st[i].id, j)
          /\ \A a \in 1 .. m - 1 : par[a] = st[i].id => pos[a] < st[i].next
    /\ \A id \in 0 .. m - 1 :
          ~Underway(st, id) => \A j \in 1 .. Len(P[f[id]]) : Nested(m, par, pos, id, j)

Row == [id : Nat, depth : Nat, pc : Nat]

RowsAt(rows, id) == {k \in DOMAIN rows : rows[k].id = id}

Earlier(r, s) == r.id < s.id \/ (r.id = s.id /\ r.pc < s.pc)

\* The rows come in the order of the numbers and of the instructions; each call
\* has printed as many as it has passed.
Printed(S, st, m, rows, f, dep) ==
    /\ rows \in Seq(Row)
    /\ \A k \in 1 .. Len(rows) : rows[k].id \in 0 .. m - 1 /\ rows[k].depth = dep[rows[k].id]
    /\ \A k, l \in 1 .. Len(rows) : k < l => Earlier(rows[k], rows[l])
    /\ \A i \in 1 .. Len(st) :
          /\ Cardinality(RowsAt(rows, st[i].id)) = st[i].pc
          /\ \A k \in 1 .. Len(rows) : rows[k].id = st[i].id => rows[k].pc < st[i].pc
    /\ \A id \in 0 .. m - 1 :
          ~Underway(st, id) => Cardinality(RowsAt(rows, id)) = S[f[id]]

Dumped(P, S, st, m, rows, f, par, pos, dep) ==
    /\ Names(P, m, f, par, pos, dep) /\ Frames(P, S, st, m, f, dep)
    /\ Visits(P, st, m, f, par, pos) /\ Printed(S, st, m, rows, f, dep)

\* What is used of a chunk.
Tree(P, S) ==
    /\ Len(P) \in Nat \ {0}
    /\ \A q \in 1 .. Len(P) :
          /\ Len(P[q]) \in Nat /\ \A i \in 1 .. Len(P[q]) : P[q][i] \in 2 .. Len(P)
          /\ S[q] \in Nat \ {0}
    /\ \A c \in 2 .. Len(P) : \E q \in 1 .. Len(P) : \E i \in 1 .. Len(P[q]) : P[q][i] = c
    /\ \A q, r \in 1 .. Len(P) : \A i \in 1 .. Len(P[q]), j \in 1 .. Len(P[r]) :
          P[q][i] = P[r][j] => q = r /\ i = j
    /\ \E depth : \A q \in 1 .. Len(P) :
          depth[q] \in Nat /\ \A i \in 1 .. Len(P[q]) : depth[q] < depth[P[q][i]]

LEMMA ChunkIsTree ==
    ASSUME NEW tree, IsChunk(tree)
    PROVE  Tree(tree.p, tree.sizecode)
<1> DEFINE P == tree.p
           n == Len(P)
<1>1. n > 0 /\ P \in Seq(Seq(2 .. n))
  BY DEF IsChunk
<1>2. n \in Nat \ {0} /\ DOMAIN P = 1 .. n
  BY <1>1
<1>3. ASSUME NEW q \in 1 .. n
      PROVE  /\ Len(P[q]) \in Nat /\ DOMAIN P[q] = 1 .. Len(P[q])
             /\ \A i \in 1 .. Len(P[q]) : P[q][i] \in 2 .. n
  <2>1. P[q] \in Seq(2 .. n)
    BY <1>1, <1>2
  <2> QED
    BY <2>1
<1>4. \A q \in 1 .. n : tree.sizecode[q] \in Nat \ {0}
  BY DEF IsChunk
<1>5. PICK depth \in [1 .. n -> 0 .. n] :
        \A q \in 1 .. n : \A i \in DOMAIN P[q] : depth[q] < depth[P[q][i]]
  BY DEF IsChunk
<1>6. \A q \in 1 .. n :
          depth[q] \in Nat /\ \A i \in 1 .. Len(P[q]) : depth[q] < depth[P[q][i]]
  BY <1>2, <1>3, <1>5
<1>7. \A c \in 2 .. n : \E q \in 1 .. n : \E i \in 1 .. Len(P[q]) : P[q][i] = c
  <2>1. \A c \in 2 .. n : \E q \in 1 .. n : \E i \in DOMAIN P[q] : P[q][i] = c
    BY Zenon DEF IsChunk
  <2> HIDE DEF P, n
  <2> QED
    BY <1>3, <2>1, Zenon
<1>8. \A q, r \in 1 .. n : \A i \in 1 .. Len(P[q]), j \in 1 .. Len(P[r]) :
          P[q][i] = P[r][j] => q = r /\ i = j
  <2>1. \A q, r \in 1 .. n : \A i \in DOMAIN P[q], j \in DOMAIN P[r] :
          P[q][i] = P[r][j] => q = r /\ i = j
    BY Zenon DEF IsChunk
  <2> HIDE DEF P, n
  <2>2. ASSUME NEW q \in 1 .. n, NEW r \in 1 .. n, NEW i \in 1 .. Len(P[q]),
               NEW j \in 1 .. Len(P[r]), P[q][i] = P[r][j]
        PROVE  q = r /\ i = j
    <3>1. i \in DOMAIN P[q] /\ j \in DOMAIN P[r]
      BY <1>3
    <3> QED
      BY <2>1, <2>2, <3>1
  <2> QED
    BY <2>2
<1> QED
  BY <1>2, <1>3, <1>4, <1>6, <1>7, <1>8 DEF Tree

---------------------------------------------------------------------------
(* Its steps.                                                                *)

\* The main function is entered.
LEMMA DumpBegins ==
    ASSUME NEW P, NEW S, Tree(P, S), NEW st, st = <<[proto |-> 1, id |-> 0, pc |-> 0, next |-> 1]>>
    PROVE  \E f, par, pos, dep : Dumped(P, S, st, 1, <<>>, f, par, pos, dep)
<1> DEFINE f == [a \in 0 .. 0 |-> 1]
           z == [a \in 0 .. 0 |-> 0]
           fr == [proto |-> 1, id |-> 0, pc |-> 0, next |-> 1]
<1>1. Len(P) \in Nat \ {0} /\ 1 \in 1 .. Len(P) /\ Len(P[1]) \in Nat /\ S[1] \in Nat \ {0}
  BY DEF Tree
<1>2. Names(P, 1, f, z, z, z)
  BY <1>1 DEF Names
<1>3. /\ fr \in Frame /\ fr.proto = 1 /\ fr.id = 0 /\ fr.pc = 0 /\ fr.next = 1
  BY DEF Frame
<1> HIDE DEF fr
<1>4. st = <<fr>> /\ Len(st) = 1 /\ st[1] = fr /\ st \in Seq(Frame)
  BY <1>3 DEF fr
<1>5. Frames(P, S, st, 1, f, z)
  BY <1>1, <1>3, <1>4 DEF Frames
<1>6. Underway(st, 0)
  BY <1>3, <1>4 DEF Underway
<1>7. Visits(P, st, 1, f, z, z)
  BY <1>3, <1>4, <1>6 DEF Visits
<1>8. Printed(S, st, 1, <<>>, f, z)
  <2> DEFINE rows == <<>>
  <2>1. rows \in Seq(Row) /\ Len(rows) = 0 /\ RowsAt(rows, 0) = {}
    BY DEF RowsAt
  <2> HIDE DEF rows
  <2>2. Cardinality(RowsAt(rows, 0)) = 0
    BY <2>1, FS_EmptySet
  <2>3. \A i \in 1 .. Len(st) : i = 1 /\ st[i].id = 0 /\ st[i].pc = 0
    BY <1>3, <1>4
  <2>4. \A id \in 0 .. 1 - 1 : Underway(st, id)
    BY <1>6
  <2>5. Printed(S, st, 1, rows, f, z)
    BY <2>1, <2>2, <2>3, <2>4 DEF Printed
  <2> QED
    BY <2>5 DEF rows
<1> QED
  BY <1>2, <1>5, <1>7, <1>8, Zenon DEF Dumped

\* One row more makes one more of its number, and of no other.
LEMMA RowCounted ==
    ASSUME NEW rows \in Seq(Row), NEW r \in Row, NEW id
    PROVE  Cardinality(RowsAt(Append(rows, r), id)) =
             Cardinality(RowsAt(rows, id)) + (IF r.id = id THEN 1 ELSE 0)
<1> DEFINE n == Len(rows)
           more == Append(rows, r)
<1>1. /\ n \in Nat /\ DOMAIN rows = 1 .. n /\ DOMAIN more = 1 .. n + 1
      /\ more[n + 1] = r /\ \A k \in 1 .. n : more[k] = rows[k]
  OBVIOUS
<1> HIDE DEF more, n
<1>2. RowsAt(more, id) = RowsAt(rows, id) \cup (IF r.id = id THEN {n + 1} ELSE {})
  <2>1. \A k \in 1 .. n + 1 : k \in 1 .. n \/ k = n + 1
    BY <1>1
  <2>2. n + 1 \in 1 .. n + 1 /\ \A k \in 1 .. n : k \in 1 .. n + 1
    BY <1>1
  <2> QED
    BY <1>1, <2>1, <2>2 DEF RowsAt
<1>3. IsFiniteSet(RowsAt(rows, id)) /\ n + 1 \notin RowsAt(rows, id)
  <2>1. IsFiniteSet(1 .. n)
    BY <1>1, FS_Interval
  <2>2. RowsAt(rows, id) \subseteq 1 .. n
    BY <1>1 DEF RowsAt
  <2>3. n + 1 \notin 1 .. n
    BY <1>1
  <2> QED
    BY <2>1, <2>2, <2>3, FS_Subset
<1>4. Cardinality(RowsAt(rows, id)) \in Nat
  BY <1>3, FS_CardinalityType
<1>5. CASE r.id = id
  <2>1. RowsAt(more, id) = RowsAt(rows, id) \cup {n + 1}
    BY <1>2, <1>5
  <2> QED
    BY <1>3, <1>5, <2>1, FS_AddElement DEF more
<1>6. CASE r.id # id
  <2>1. RowsAt(more, id) = RowsAt(rows, id)
    BY <1>2, <1>6
  <2> QED
    BY <1>4, <1>6, <2>1 DEF more
<1> QED
  BY <1>5, <1>6

\* A stack whose top alone is changed, keeping its function and number.
SameCalls(st, new) ==
    /\ new \in Seq(Frame) /\ Len(new) = Len(st)
    /\ \A i \in 1 .. Len(st) - 1 : new[i] = st[i]
    /\ new[Len(st)].id = st[Len(st)].id /\ new[Len(st)].proto = st[Len(st)].proto

LEMMA SameUnderway ==
    ASSUME NEW st \in Seq(Frame), NEW new, SameCalls(st, new)
    PROVE  \A id : Underway(new, id) <=> Underway(st, id)
<1>1. \A i \in 1 .. Len(st) : new[i].id = st[i].id
  <2>1. \A i \in 1 .. Len(st) : i \in 1 .. Len(st) - 1 \/ i = Len(st)
    OBVIOUS
  <2> QED
    BY <2>1 DEF SameCalls
<1>2. Len(new) = Len(st)
  BY DEF SameCalls
<1> QED
  BY <1>1, <1>2 DEF Underway

\* A row is printed.
LEMMA DumpPrints ==
    ASSUME NEW P, NEW S, NEW st, NEW m, NEW rows, NEW f, NEW par, NEW pos, NEW dep, Tree(P, S),
           Dumped(P, S, st, m, rows, f, par, pos, dep), st # <<>>, NEW n, n = Len(st),
           NEW r, r = [id |-> st[n].id, depth |-> n - 1, pc |-> st[n].pc],
           NEW new, SameCalls(st, new), new[n].next = st[n].next,
           new[n].pc = st[n].pc + 1, st[n].pc < S[st[n].proto]
    PROVE  Dumped(P, S, new, m, Append(rows, r), f, par, pos, dep)
<1> DEFINE more == Append(rows, r)
           id == st[n].id
<1>1. /\ Names(P, m, f, par, pos, dep) /\ Frames(P, S, st, m, f, dep)
      /\ Visits(P, st, m, f, par, pos) /\ Printed(S, st, m, rows, f, dep)
  BY DEF Dumped
<1>2. /\ n \in Nat \ {0} /\ n \in 1 .. n /\ st \in Seq(Frame) /\ m \in Nat \ {0}
      /\ \A i \in 1 .. n : i \in 1 .. n - 1 \/ i = n
  BY <1>1 DEF Frames, Names
<1>3. \A i \in 1 .. n : /\ st[i].id \in Nat /\ st[i].pc \in Nat
                        /\ st[i].proto \in Nat /\ st[i].next \in Nat
  <2>1. \A i \in 1 .. n : st[i] \in Frame
    BY <1>2
  <2> QED
    BY <2>1 DEF Frame
<1>4. /\ Len(new) = n /\ \A i \in 1 .. n - 1 : new[i] = st[i]
      /\ new[n].id = id /\ new[n].proto = st[n].proto /\ new \in Seq(Frame)
  BY DEF SameCalls
<1>5. \A i \in 1 .. n : /\ new[i].id = st[i].id /\ new[i].proto = st[i].proto
                        /\ new[i].next = st[i].next
  BY <1>2, <1>4
<1>6. id = m - 1 /\ id \in 0 .. m - 1 /\ f[id] = st[n].proto /\ dep[id] = n - 1
  BY <1>1, <1>2 DEF Frames
<1>7. S[st[n].proto] \in Nat
  BY <1>1, <1>6 DEF Names, Tree
<1>8. Frames(P, S, new, m, f, dep)
  <2> SUFFICES ASSUME NEW i \in 1 .. n
               PROVE  /\ new[i].id \in 0 .. m - 1 /\ f[new[i].id] = new[i].proto
                      /\ dep[new[i].id] = i - 1
                      /\ new[i].next \in 1 .. Len(P[new[i].proto]) + 1
                      /\ new[i].pc <= S[new[i].proto]
                      /\ i < n => new[i].pc = S[new[i].proto]
                      /\ i = n /\ new[i].pc < S[new[i].proto] => new[i].id = m - 1
                      /\ \A k \in 0 .. m - 1 : new[i].id < k => i <= dep[k]
    BY <1>4, Zenon DEF Frames
  <2>1. /\ st[i].id \in 0 .. m - 1 /\ f[st[i].id] = st[i].proto
        /\ dep[st[i].id] = i - 1
        /\ st[i].next \in 1 .. Len(P[st[i].proto]) + 1
        /\ st[i].pc <= S[st[i].proto]
        /\ i < n => st[i].pc = S[st[i].proto]
        /\ \A k \in 0 .. m - 1 : st[i].id < k => i <= dep[k]
    BY <1>1 DEF Frames
  <2>2. CASE i = n
    BY <1>3, <1>4, <1>5, <1>6, <1>7, <2>1, <2>2
  <2>3. CASE i \in 1 .. n - 1
    <3>1. new[i] = st[i] /\ i # n
      BY <1>4, <2>3
    <3> QED
      BY <2>1, <3>1
  <2> QED
    BY <1>2, <2>2, <2>3
<1>9. \A x : Underway(new, x) <=> Underway(st, x)
  BY <1>2, SameUnderway
<1>10. Visits(P, new, m, f, par, pos)
  BY <1>1, <1>4, <1>5, <1>9 DEF Visits
<1>11. /\ r \in Row /\ r.id = id /\ r.depth = n - 1 /\ r.pc = st[n].pc
  BY <1>2, <1>3 DEF Row
<1>12. Printed(S, new, m, more, f, dep)
  <2> DEFINE l == Len(rows)
  <2>1. /\ rows \in Seq(Row) /\ l \in Nat
        /\ more \in Seq(Row) /\ Len(more) = l + 1 /\ more[l + 1] = r
        /\ \A k \in 1 .. l : more[k] = rows[k] /\ rows[k].id \in Nat
    BY <1>1, <1>11 DEF Printed, Row
  <2>2. \A x : Cardinality(RowsAt(more, x)) =
                 Cardinality(RowsAt(rows, x)) + (IF r.id = x THEN 1 ELSE 0)
    BY <1>11, <2>1, RowCounted
  <2> HIDE DEF more, l
  <2>3. \A k \in 1 .. l + 1 : k \in 1 .. l \/ k = l + 1
    BY <2>1
  <2>4. ASSUME NEW k \in 1 .. l
        PROVE  /\ rows[k].id \in 0 .. m - 1 /\ rows[k].depth = dep[rows[k].id]
               /\ Earlier(rows[k], r)
    <3>1. /\ rows[k].id \in 0 .. m - 1 /\ rows[k].depth = dep[rows[k].id]
          /\ rows[k].id = id => rows[k].pc < st[n].pc
      BY <1>1, <1>2 DEF Printed, l
    <3> QED
      BY <1>6, <1>11, <3>1 DEF Earlier
  <2>5. \A k \in 1 .. l + 1 : more[k].id \in 0 .. m - 1 /\ more[k].depth = dep[more[k].id]
    BY <1>6, <1>11, <2>1, <2>3, <2>4
  <2>6. ASSUME NEW k \in 1 .. l + 1, NEW j \in 1 .. l + 1, k < j
        PROVE  Earlier(more[k], more[j])
    <3>1. k \in 1 .. l
      BY <2>1, <2>6
    <3>2. CASE j = l + 1
      BY <2>1, <2>4, <3>1, <3>2
    <3>3. CASE j \in 1 .. l
      <4>1. Earlier(rows[k], rows[j])
        BY <1>1, <2>6, <3>1, <3>3 DEF Printed, l
      <4> QED
        BY <2>1, <3>1, <3>3, <4>1
    <3> QED
      BY <2>3, <3>2, <3>3
  <2>7. ASSUME NEW i \in 1 .. n
        PROVE  /\ Cardinality(RowsAt(more, new[i].id)) = new[i].pc
               /\ \A k \in 1 .. l + 1 : more[k].id = new[i].id => more[k].pc < new[i].pc
    <3>1. /\ Cardinality(RowsAt(rows, st[i].id)) = st[i].pc
          /\ \A k \in 1 .. l : rows[k].id = st[i].id => rows[k].pc < st[i].pc
      BY <1>1 DEF Printed, l
    <3>2. CASE i = n
      <4>1. Cardinality(RowsAt(more, id)) = st[n].pc + 1
        BY <1>11, <2>2, <3>1, <3>2
      <4>2. ASSUME NEW k \in 1 .. l + 1, more[k].id = id PROVE more[k].pc < st[n].pc + 1
        <5>1. CASE k = l + 1
          BY <1>2, <1>3, <1>11, <2>1, <5>1
        <5>2. CASE k \in 1 .. l
          <6>1. rows[k] \in Row /\ rows[k].id = id
            BY <2>1, <4>2, <5>2 DEF l
          <6>2. rows[k].pc < st[n].pc /\ rows[k].pc \in Nat
            BY <3>1, <3>2, <5>2, <6>1 DEF Row
          <6> QED
            BY <1>2, <1>3, <2>1, <5>2, <6>2
        <5> QED
          BY <2>3, <5>1, <5>2
      <4> QED
        BY <1>4, <3>2, <4>1, <4>2
    <3>3. CASE i \in 1 .. n - 1
      <4>1. new[i] = st[i] /\ st[i].id # id
        <5>1. dep[st[i].id] = i - 1 /\ i - 1 # n - 1
          BY <1>1, <1>2, <3>3 DEF Frames
        <5> QED
          BY <1>4, <1>6, <3>3, <5>1
      <4>2. Cardinality(RowsAt(more, st[i].id)) = st[i].pc
        BY <1>3, <1>11, <2>2, <3>1, <4>1
      <4>3. ASSUME NEW k \in 1 .. l + 1, more[k].id = st[i].id PROVE more[k].pc < st[i].pc
        <5>1. k \in 1 .. l
          BY <1>11, <2>1, <2>3, <4>1, <4>3
        <5> QED
          BY <2>1, <3>1, <4>3, <5>1
      <4> QED
        BY <4>1, <4>2, <4>3
    <3> QED
      BY <1>2, <3>2, <3>3
  <2>8. ASSUME NEW x \in 0 .. m - 1, ~Underway(new, x)
        PROVE  Cardinality(RowsAt(more, x)) = S[f[x]]
    <3>1. ~Underway(st, x) /\ x # id
      BY <1>2, <1>9, <2>8 DEF Underway
    <3>2. Cardinality(RowsAt(rows, x)) = S[f[x]] /\ S[f[x]] \in Nat
      BY <1>1, <3>1 DEF Printed, Names, Tree
    <3> QED
      BY <1>11, <2>2, <3>1, <3>2
  <2> QED
    BY <1>4, <2>1, <2>5, <2>6, <2>7, <2>8 DEF Printed
<1> QED
  BY <1>1, <1>8, <1>10, <1>12 DEF Dumped

\* A function of the numbers given a value at one more.
With(g, m, v) == [a \in 0 .. m |-> IF a = m THEN v ELSE g[a]]

Longer(h, g, m, v, T) ==
    h \in [0 .. m -> T] /\ h[m] = v /\ \A a \in 0 .. m - 1 : h[a] = g[a]

LEMMA WithValues ==
    ASSUME NEW T, NEW m, m \in Nat, NEW g, g \in [0 .. m - 1 -> T], NEW v, v \in T
    PROVE  Longer(With(g, m, v), g, m, v, T)
<1>1. \A a \in 0 .. m : a \in 0 .. m - 1 \/ a = m
  OBVIOUS
<1>2. m \in 0 .. m /\ \A a \in 0 .. m - 1 : a \in 0 .. m /\ a # m
  OBVIOUS
<1> QED
  BY <1>1, <1>2 DEF With, Longer

\* A call whose rows are printed goes on to its next function.
Entering(P, S, st, up) ==
    LET n == Len(st)
    IN  /\ SameCalls(st, up) /\ up[n].next = st[n].next + 1 /\ up[n].pc = st[n].pc
        /\ st[n].pc >= S[st[n].proto] /\ st[n].next <= Len(P[st[n].proto])

Called(q, m) == [proto |-> q, id |-> m, pc |-> 0, next |-> 1]

LEMMA DumpEnters ==
    ASSUME NEW P, NEW S, NEW st, NEW m, NEW rows, NEW f, NEW par, NEW pos, NEW dep, Tree(P, S),
           Dumped(P, S, st, m, rows, f, par, pos, dep), st # <<>>, NEW n, n = Len(st),
           NEW up, Entering(P, S, st, up), NEW q, q = P[st[n].proto][st[n].next]
    PROVE  \E f2, par2, pos2, dep2 :
             Dumped(P, S, Append(up, Called(q, m)), m + 1, rows, f2, par2, pos2, dep2)
<1> DEFINE id == st[n].id
           next == st[n].next
           c == Called(q, m)
           new == Append(up, c)
           f2 == With(f, m, q)
           par2 == With(par, m, id)
           pos2 == With(pos, m, next)
           dep2 == With(dep, m, n)
<1>1. /\ Names(P, m, f, par, pos, dep) /\ Frames(P, S, st, m, f, dep)
      /\ Visits(P, st, m, f, par, pos) /\ Printed(S, st, m, rows, f, dep)
  BY DEF Dumped
<1>2. /\ n \in Nat \ {0} /\ n \in 1 .. n /\ st \in Seq(Frame) /\ m \in Nat \ {0}
      /\ \A i \in 1 .. n : i \in 1 .. n - 1 \/ i = n
      /\ \A i \in 1 .. n - 1 : i \in 1 .. n /\ i # n
  BY <1>1 DEF Frames, Names
<1>3. \A i \in 1 .. n : /\ st[i].id \in Nat /\ st[i].pc \in Nat
                        /\ st[i].proto \in Nat /\ st[i].next \in Nat
  <2>1. \A i \in 1 .. n : st[i] \in Frame
    BY <1>2
  <2> QED
    BY <2>1 DEF Frame
<1>4. /\ up \in Seq(Frame) /\ Len(up) = n /\ \A i \in 1 .. n - 1 : up[i] = st[i]
      /\ up[n].id = id /\ up[n].proto = st[n].proto
      /\ up[n].next = next + 1 /\ up[n].pc = st[n].pc
  BY DEF SameCalls, Entering
<1>5. /\ id \in 0 .. m - 1 /\ f[id] = st[n].proto /\ dep[id] = n - 1
      /\ next \in 1 .. Len(P[f[id]]) + 1 /\ next <= Len(P[f[id]])
      /\ st[n].pc <= S[f[id]] /\ st[n].pc >= S[f[id]]
  BY <1>1, <1>2 DEF Frames, Entering
<1>6. f[id] \in 1 .. Len(P) /\ Len(P) \in Nat
  BY <1>1, <1>5 DEF Names, Tree
<1>7. /\ Len(P[f[id]]) \in Nat /\ next \in 1 .. Len(P[f[id]]) /\ q = P[f[id]][next]
      /\ q \in 2 .. Len(P) /\ q \in 1 .. Len(P) /\ st[n].pc = S[f[id]]
      /\ Len(P[q]) \in Nat /\ S[q] \in Nat \ {0}
  <2>1. Len(P[f[id]]) \in Nat /\ S[f[id]] \in Nat
    BY <1>6 DEF Tree
  <2>2. q = P[f[id]][next]
    BY <1>5
  <2>3. st[n].pc \in Nat
    BY <1>2, <1>3
  <2> HIDE DEF id, next
  <2>4. next \in 1 .. Len(P[f[id]]) /\ st[n].pc = S[f[id]]
    BY <1>5, <2>1, <2>3
  <2>5. q \in 2 .. Len(P)
    BY <1>6, <2>2, <2>4 DEF Tree
  <2>6. q \in 1 .. Len(P)
    BY <1>6, <2>5
  <2> QED
    BY <2>1, <2>2, <2>4, <2>5, <2>6 DEF Tree
<1>8. /\ c \in Frame /\ c.proto = q /\ c.id = m /\ c.pc = 0 /\ c.next = 1
  <2>1. q \in Nat
    BY <1>7
  <2>3. m \in Nat
    BY <1>2
  <2>2. c \in Frame
    BY <2>1, <2>3 DEF Frame, Called
  <2> QED
    BY <2>2 DEF Called
<1> HIDE DEF id, next, c
<1>9. /\ new \in Seq(Frame) /\ Len(new) = n + 1 /\ new[n + 1] = c
      /\ \A i \in 1 .. n : new[i] = up[i]
  BY <1>2, <1>4, <1>8
<1>10. /\ f2 \in [0 .. m -> 1 .. Len(P)] /\ f2[m] = q /\ \A a \in 0 .. m - 1 : f2[a] = f[a]
  <2>1. f \in [0 .. m - 1 -> 1 .. Len(P)] /\ m \in Nat
    BY <1>1, <1>2 DEF Names
  <2>2. Longer(f2, f, m, q, 1 .. Len(P))
    BY <1>7, <2>1, WithValues
  <2> QED
    BY <2>2 DEF Longer
<1>11. /\ par2 \in [0 .. m -> Nat] /\ par2[m] = id /\ \A a \in 0 .. m - 1 : par2[a] = par[a]
  <2>1. par \in [0 .. m - 1 -> Nat] /\ m \in Nat /\ id \in Nat
    BY <1>1, <1>2, <1>3 DEF Names, id
  <2>2. Longer(par2, par, m, id, Nat)
    BY <2>1, WithValues
  <2> QED
    BY <2>2 DEF Longer
<1>12. /\ pos2 \in [0 .. m -> Nat] /\ pos2[m] = next /\ \A a \in 0 .. m - 1 : pos2[a] = pos[a]
  <2>1. pos \in [0 .. m - 1 -> Nat] /\ m \in Nat /\ next \in Nat
    BY <1>1, <1>2, <1>3 DEF Names, next
  <2>2. Longer(pos2, pos, m, next, Nat)
    BY <2>1, WithValues
  <2> QED
    BY <2>2 DEF Longer
<1>13. /\ dep2 \in [0 .. m -> Nat] /\ dep2[m] = n /\ \A a \in 0 .. m - 1 : dep2[a] = dep[a]
  <2>1. dep \in [0 .. m - 1 -> Nat] /\ m \in Nat /\ n \in Nat
    BY <1>1, <1>2 DEF Names
  <2>2. Longer(dep2, dep, m, n, Nat)
    BY <2>1, WithValues
  <2> QED
    BY <2>2 DEF Longer
<1> HIDE DEF f2, par2, pos2, dep2, new
<1>14. /\ (m + 1) - 1 = m /\ 0 \in 0 .. m - 1 /\ m \in 0 .. m /\ m \in 1 .. m
       /\ \A a \in 0 .. m : a \in 0 .. m - 1 \/ a = m
       /\ \A a \in 1 .. m : a \in 1 .. m - 1 \/ a = m
       /\ \A a \in 0 .. m - 1 : a \in 0 .. m /\ a < m /\ a # m
       /\ \A a \in 1 .. m - 1 : a \in 1 .. m /\ a \in 0 .. m - 1
  BY <1>2
<1>15. \A a \in 1 .. m - 1 : par[a] = id => pos[a] < next
  BY <1>1, <1>2 DEF Visits, id, next
<1>16. \A a \in 1 .. m - 1 : /\ par[a] < a /\ par[a] \in 0 .. m - 1 /\ dep[a] = dep[par[a]] + 1
                             /\ pos[a] \in 1 .. Len(P[f[par[a]]])
                             /\ f[a] = P[f[par[a]]][pos[a]]
  <2> SUFFICES ASSUME NEW a \in 1 .. m - 1
               PROVE  /\ par[a] < a /\ par[a] \in 0 .. m - 1 /\ dep[a] = dep[par[a]] + 1
                      /\ pos[a] \in 1 .. Len(P[f[par[a]]])
                      /\ f[a] = P[f[par[a]]][pos[a]]
    OBVIOUS
  <2>1. /\ par[a] < a /\ par[a] \in Nat /\ dep[a] = dep[par[a]] + 1
        /\ pos[a] \in 1 .. Len(P[f[par[a]]])
        /\ f[a] = P[f[par[a]]][pos[a]]
    BY <1>1, <1>14 DEF Names
  <2> QED
    BY <1>2, <2>1
<1>17. Names(P, m + 1, f2, par2, pos2, dep2)
  <2>1. ASSUME NEW b \in 0 .. m - 1 PROVE f[b] # q
    <3>1. CASE b = 0
      BY <1>1, <1>6, <1>7, <3>1 DEF Names
    <3>2. CASE b \in 1 .. m - 1
      <4>1. /\ f[par[b]] \in 1 .. Len(P) /\ pos[b] \in 1 .. Len(P[f[par[b]]])
            /\ f[b] = P[f[par[b]]][pos[b]] /\ par[b] \in 0 .. m - 1
        BY <1>1, <1>16, <3>2 DEF Names
      <4>2. SUFFICES ASSUME f[b] = q PROVE FALSE
        OBVIOUS
      <4>3. f[par[b]] = f[id] /\ pos[b] = next
        <5>1. \A u, v \in 1 .. Len(P) : \A i \in 1 .. Len(P[u]), j \in 1 .. Len(P[v]) :
                P[u][i] = P[v][j] => u = v /\ i = j
          BY DEF Tree
        <5>2. P[f[id]][next] = P[f[par[b]]][pos[b]]
          BY <1>7, <4>1, <4>2
        <5>3. \A i \in 1 .. Len(P[f[id]]), j \in 1 .. Len(P[f[par[b]]]) :
                P[f[id]][i] = P[f[par[b]]][j] => f[id] = f[par[b]] /\ i = j
          BY <1>6, <4>1, <5>1, Zenon
        <5> QED
          BY <1>7, <4>1, <5>2, <5>3, Zenon
      <4>4. par[b] = id
        BY <1>1, <1>5, <4>1, <4>3 DEF Names
      <4> QED
        BY <1>3, <1>7, <1>15, <3>2, <4>3, <4>4
    <3> QED
      BY <1>2, <3>1, <3>2
  <2>2. \A a, b \in 0 .. m - 1 : f[a] = f[b] => a = b
    BY <1>1 DEF Names
  <2>3. \A a, b \in 0 .. m : f2[a] = f2[b] => a = b
    <3> SUFFICES ASSUME NEW a \in 0 .. m, NEW b \in 0 .. m, f2[a] = f2[b] PROVE a = b
      OBVIOUS
    <3> QED
      BY <1>10, <1>14, <2>1, <2>2
  <2>4. ASSUME NEW a \in 1 .. m
        PROVE  /\ par2[a] < a /\ dep2[a] = dep2[par2[a]] + 1
               /\ pos2[a] \in 1 .. Len(P[f2[par2[a]]]) /\ f2[a] = P[f2[par2[a]]][pos2[a]]
    <3>1. CASE a = m
      <4>1. par2[a] = id /\ id < m /\ id \in 0 .. m - 1
        BY <1>2, <1>5, <1>11, <3>1
      <4>2. f2[id] = f[id] /\ f2[a] = q /\ pos2[a] = next
        BY <1>10, <1>12, <3>1, <4>1
      <4>3. dep2[a] = dep2[id] + 1
        BY <1>2, <1>5, <1>13, <3>1, <4>1
      <4> QED
        BY <1>7, <3>1, <4>1, <4>2, <4>3
    <3>2. CASE a \in 1 .. m - 1
      <4>1. a \in 0 .. m - 1 /\ par[a] \in 0 .. m - 1
        BY <1>14, <1>16, <3>2
      <4>2. /\ par2[a] = par[a] /\ f2[a] = f[a] /\ f2[par[a]] = f[par[a]] /\ pos2[a] = pos[a]
            /\ dep2[a] = dep[a] /\ dep2[par[a]] = dep[par[a]]
        BY <1>10, <1>11, <1>12, <1>13, <4>1
      <4> QED
        BY <1>16, <3>2, <4>2
    <3> QED
      BY <1>14, <3>1, <3>2
  <2>5. ASSUME NEW a \in 1 .. m, NEW k \in 0 .. m, par2[a] < k, k < a
        PROVE  dep2[k] >= dep2[a]
    <3>1. k \in 0 .. m - 1
      BY <1>2, <2>5
    <3>2. CASE a = m
      <4>1. n <= dep[k]
        BY <1>1, <1>2, <1>11, <2>5, <3>1, <3>2 DEF Frames, id
      <4>2. dep[k] \in Nat
        BY <1>1, <3>1 DEF Names
      <4> QED
        BY <1>2, <1>13, <3>1, <3>2, <4>1, <4>2
    <3>3. CASE a \in 1 .. m - 1
      BY <1>1, <1>11, <1>13, <1>14, <2>5, <3>1, <3>3 DEF Names
    <3> QED
      BY <1>14, <3>2, <3>3
  <2>6. ASSUME NEW a \in 1 .. m, NEW b \in 1 .. m, par2[a] = par2[b], a < b
        PROVE  pos2[a] < pos2[b]
    <3>1. a \in 1 .. m - 1
      BY <1>2, <2>6
    <3>2. CASE b = m
      BY <1>11, <1>12, <1>14, <1>15, <2>6, <3>1, <3>2
    <3>3. CASE b \in 1 .. m - 1
      BY <1>1, <1>11, <1>12, <1>14, <2>6, <3>1, <3>3 DEF Names
    <3> QED
      BY <1>14, <3>2, <3>3
  <2>7. m + 1 \in Nat \ {0} /\ f2[0] = 1 /\ dep2[0] = 0
    BY <1>1, <1>2, <1>10, <1>13, <1>14 DEF Names
  <2> QED
    BY <1>10, <1>11, <1>12, <1>13, <1>14, <2>3, <2>4, <2>5, <2>6, <2>7, Zenon DEF Names
<1>18. /\ \A i \in 1 .. n : /\ new[i].id = st[i].id /\ new[i].proto = st[i].proto
                            /\ new[i].pc = st[i].pc
       /\ \A i \in 1 .. n - 1 : new[i].next = st[i].next
       /\ new[n].next = next + 1
  BY <1>2, <1>4, <1>9 DEF id, next
<1>19. \A i \in 1 .. n + 1 : i \in 1 .. n \/ i = n + 1
  BY <1>2
<1>20. Frames(P, S, new, m + 1, f2, dep2)
  <2>1. ASSUME NEW i \in 1 .. n
        PROVE  /\ st[i].id \in 0 .. m - 1 /\ f[st[i].id] = st[i].proto
               /\ dep[st[i].id] = i - 1
               /\ st[i].next \in 1 .. Len(P[st[i].proto]) + 1
               /\ st[i].pc = S[st[i].proto]
               /\ \A k \in 0 .. m - 1 : st[i].id < k => i <= dep[k]
    <3>1. /\ st[i].id \in 0 .. m - 1 /\ f[st[i].id] = st[i].proto
          /\ dep[st[i].id] = i - 1
          /\ st[i].next \in 1 .. Len(P[st[i].proto]) + 1
          /\ i < n => st[i].pc = S[st[i].proto]
          /\ \A k \in 0 .. m - 1 : st[i].id < k => i <= dep[k]
      BY <1>1 DEF Frames
    <3>2. i < n \/ i = n
      BY <1>2
    <3> QED
      BY <1>5, <1>7, <3>1, <3>2 DEF id
  <2>2. ASSUME NEW i \in 1 .. n
        PROVE  /\ new[i].id \in 0 .. m /\ f2[new[i].id] = new[i].proto
               /\ dep2[new[i].id] = i - 1
               /\ new[i].next \in 1 .. Len(P[new[i].proto]) + 1
               /\ new[i].pc = S[new[i].proto]
               /\ \A k \in 0 .. m : new[i].id < k => i <= dep2[k]
    <3>1. new[i].id \in 0 .. m /\ f2[new[i].id] = new[i].proto /\ dep2[new[i].id] = i - 1
      <4>1. /\ new[i].id = st[i].id /\ new[i].proto = st[i].proto
            /\ st[i].id \in 0 .. m - 1
        BY <1>18, <2>1
      <4>2. st[i].id \in 0 .. m /\ f2[st[i].id] = f[st[i].id] /\ dep2[st[i].id] = dep[st[i].id]
        BY <1>10, <1>13, <1>14, <4>1
      <4> QED
        BY <2>1, <4>1, <4>2
    <3>2. new[i].pc = S[new[i].proto]
      BY <1>18, <2>1
    <3>3. new[i].next \in 1 .. Len(P[new[i].proto]) + 1
      <4>1. CASE i = n
        <5>1. new[i].proto = f[id] /\ new[i].next = next + 1
          BY <1>2, <1>5, <1>18, <4>1
        <5> QED
          BY <1>7, <5>1
      <4>2. CASE i \in 1 .. n - 1
        BY <1>18, <2>1, <4>2
      <4> QED
        BY <1>2, <4>1, <4>2
    <3>4. ASSUME NEW k \in 0 .. m, new[i].id < k PROVE i <= dep2[k]
      <4>1. CASE k = m
        BY <1>2, <1>13, <4>1
      <4>2. CASE k \in 0 .. m - 1
        BY <1>13, <1>18, <2>1, <3>4, <4>2
      <4> QED
        BY <1>14, <4>1, <4>2
    <3> QED
      BY <3>1, <3>2, <3>3, <3>4
  <2>3. ASSUME NEW i \in 1 .. n + 1
        PROVE  /\ new[i].id \in 0 .. m /\ f2[new[i].id] = new[i].proto
               /\ dep2[new[i].id] = i - 1
               /\ new[i].next \in 1 .. Len(P[new[i].proto]) + 1
               /\ new[i].pc <= S[new[i].proto]
               /\ i < n + 1 => new[i].pc = S[new[i].proto]
               /\ i = n + 1 /\ new[i].pc < S[new[i].proto] => new[i].id = m
               /\ \A k \in 0 .. m : new[i].id < k => i <= dep2[k]
    <3>1. CASE i = n + 1
      <4>1. /\ new[i].id = m /\ new[i].proto = q /\ new[i].pc = 0 /\ new[i].next = 1
        BY <1>8, <1>9, <3>1
      <4>2. m \in 0 .. m /\ f2[m] = q /\ dep2[m] = i - 1 /\ ~(i < n + 1)
        BY <1>2, <1>10, <1>13, <1>14, <3>1
      <4>3. 1 \in 1 .. Len(P[q]) + 1 /\ 0 <= S[q]
        BY <1>7
      <4>4. \A k \in 0 .. m : ~(m < k)
        BY <1>2
      <4> QED
        BY <4>1, <4>2, <4>3, <4>4
    <3>2. CASE i \in 1 .. n
      <4>1. i # n + 1
        BY <1>2, <3>2
      <4>2. S[new[i].proto] \in Nat
        <5>1. new[i].proto \in 1 .. Len(P)
          BY <1>10, <2>2, <3>2
        <5> QED
          BY <5>1 DEF Tree
      <4> QED
        BY <2>2, <3>2, <4>1, <4>2
    <3> QED
      BY <1>19, <3>1, <3>2
  <2> QED
    BY <1>9, <1>14, <2>3 DEF Frames
<1>21. ASSUME NEW x, NEW j, Nested(m, par, pos, x, j) PROVE Nested(m + 1, par2, pos2, x, j)
  BY <1>11, <1>12, <1>14, <1>21 DEF Nested
<1>22. \A x : Underway(new, x) <=> Underway(st, x) \/ x = m
  <2>1. n + 1 \in 1 .. n + 1 /\ \A i \in 1 .. n : i \in 1 .. n + 1
    BY <1>2
  <2>2. new[n + 1].id = m /\ Len(new) = n + 1 /\ Len(st) = n
    BY <1>8, <1>9
  <2> QED
    BY <1>18, <1>19, <2>1, <2>2, Zenon DEF Underway
<1>23. Visits(P, new, m + 1, f2, par2, pos2)
  <2>1. \A i \in 1 .. n :
          /\ \A j \in 1 .. st[i].next - 1 : Nested(m, par, pos, st[i].id, j)
          /\ \A a \in 1 .. m - 1 : par[a] = st[i].id => pos[a] < st[i].next
    BY <1>1 DEF Visits
  <2>2. ASSUME NEW i \in 1 .. n - 1
        PROVE  /\ \A j \in 1 .. new[i].next - 1 : Nested(m + 1, par2, pos2, new[i].id, j)
               /\ \A a \in 1 .. m : par2[a] = new[i].id => pos2[a] < new[i].next
    <3>1. st[i].id # id
      <4>1. dep[st[i].id] = i - 1 /\ i - 1 # n - 1
        BY <1>1, <1>2 DEF Frames
      <4> QED
        BY <1>5, <4>1
    <3>2. ASSUME NEW j \in 1 .. new[i].next - 1
          PROVE  Nested(m + 1, par2, pos2, new[i].id, j)
      BY <1>2, <1>18, <1>21, <2>1
    <3>3. ASSUME NEW a \in 1 .. m, par2[a] = new[i].id PROVE pos2[a] < new[i].next
      BY <1>2, <1>11, <1>12, <1>14, <1>18, <2>1, <3>1, <3>3
    <3> QED
      BY <3>2, <3>3
  <2>3. /\ \A j \in 1 .. new[n].next - 1 : Nested(m + 1, par2, pos2, new[n].id, j)
        /\ \A a \in 1 .. m : par2[a] = new[n].id => pos2[a] < new[n].next
    <3>1. new[n].id = id /\ new[n].next = next + 1 /\ next \in Nat
      BY <1>2, <1>3, <1>18 DEF id, next
    <3>2. ASSUME NEW j \in 1 .. next PROVE Nested(m + 1, par2, pos2, id, j)
      <4>1. CASE j = next
        BY <1>11, <1>12, <1>14, <4>1 DEF Nested
      <4>2. CASE j \in 1 .. next - 1
        BY <1>2, <1>21, <2>1, <4>2 DEF id, next
      <4> QED
        BY <3>1, <4>1, <4>2
    <3>3. ASSUME NEW a \in 1 .. m, par2[a] = id PROVE pos2[a] < next + 1
      <4>1. CASE a = m
        BY <1>12, <3>1, <4>1
      <4>2. CASE a \in 1 .. m - 1
        <5>1. pos[a] < next /\ pos2[a] = pos[a] /\ pos[a] \in Nat
          BY <1>1, <1>11, <1>12, <1>14, <1>15, <3>3, <4>2 DEF Names
        <5> QED
          BY <3>1, <5>1
      <4> QED
        BY <1>14, <4>1, <4>2
    <3> QED
      BY <3>1, <3>2, <3>3
  <2>4. /\ \A j \in 1 .. new[n + 1].next - 1 : Nested(m + 1, par2, pos2, new[n + 1].id, j)
        /\ \A a \in 1 .. m : par2[a] = new[n + 1].id => pos2[a] < new[n + 1].next
    <3>1. \A a \in 1 .. m : par2[a] # m
      <4> SUFFICES ASSUME NEW a \in 1 .. m PROVE par2[a] # m
        OBVIOUS
      <4>1. CASE a = m
        BY <1>5, <1>11, <1>14, <4>1
      <4>2. CASE a \in 1 .. m - 1
        BY <1>11, <1>14, <1>16, <4>2
      <4> QED
        BY <1>14, <4>1, <4>2
    <3> QED
      BY <1>8, <1>9, <3>1
  <2>5. ASSUME NEW x \in 0 .. m, ~Underway(new, x), NEW j \in 1 .. Len(P[f2[x]])
        PROVE  Nested(m + 1, par2, pos2, x, j)
    <3>1. x \in 0 .. m - 1 /\ ~Underway(st, x)
      BY <1>14, <1>22, <2>5
    <3>2. Nested(m, par, pos, x, j)
      BY <1>1, <1>10, <2>5, <3>1 DEF Visits
    <3> QED
      BY <1>21, <3>2
  <2> QED
    BY <1>2, <1>9, <1>14, <1>19, <2>2, <2>3, <2>4, <2>5 DEF Visits
<1>24. Printed(S, new, m + 1, rows, f2, dep2)
  <2>1. /\ rows \in Seq(Row) /\ DOMAIN rows = 1 .. Len(rows)
        /\ \A k \in 1 .. Len(rows) : rows[k].id \in 0 .. m - 1 /\ rows[k].depth = dep[rows[k].id]
        /\ \A k, l \in 1 .. Len(rows) : k < l => Earlier(rows[k], rows[l])
    BY <1>1 DEF Printed
  <2>2. \A i \in 1 .. n :
          /\ Cardinality(RowsAt(rows, st[i].id)) = st[i].pc
          /\ \A k \in 1 .. Len(rows) : rows[k].id = st[i].id => rows[k].pc < st[i].pc
    BY <1>1 DEF Printed
  <2>3. RowsAt(rows, m) = {}
    BY <1>14, <2>1 DEF RowsAt
  <2>4. Cardinality(RowsAt(rows, m)) = 0
    BY <2>3, FS_EmptySet
  <2>5. ASSUME NEW i \in 1 .. n + 1
        PROVE  /\ Cardinality(RowsAt(rows, new[i].id)) = new[i].pc
               /\ \A k \in 1 .. Len(rows) : rows[k].id = new[i].id => rows[k].pc < new[i].pc
    <3>1. CASE i = n + 1
      BY <1>8, <1>9, <1>14, <2>1, <2>4, <3>1
    <3>2. CASE i \in 1 .. n
      BY <1>18, <2>2, <3>2
    <3> QED
      BY <1>19, <3>1, <3>2
  <2>6. ASSUME NEW x \in 0 .. m, ~Underway(new, x)
        PROVE  Cardinality(RowsAt(rows, x)) = S[f2[x]]
    <3>1. x \in 0 .. m - 1 /\ ~Underway(st, x)
      BY <1>14, <1>22, <2>6
    <3> QED
      BY <1>1, <1>10, <3>1 DEF Printed
  <2>7. \A k \in 1 .. Len(rows) : rows[k].id \in 0 .. m /\ rows[k].depth = dep2[rows[k].id]
    BY <1>13, <1>14, <2>1
  <2> QED
    BY <1>9, <1>14, <2>1, <2>5, <2>6, <2>7 DEF Printed
<1> QED
  BY <1>17, <1>20, <1>23, <1>24 DEF Dumped, new, c

\* A function is left whose functions have all been entered.
LEMMA DumpReturns ==
    ASSUME NEW P, NEW S, NEW st, NEW m, NEW rows, NEW f, NEW par, NEW pos, NEW dep, Tree(P, S),
           Dumped(P, S, st, m, rows, f, par, pos, dep), st # <<>>, NEW n, n = Len(st),
           st[n].pc >= S[st[n].proto], st[n].next > Len(P[st[n].proto])
    PROVE  Dumped(P, S, SubSeq(st, 1, n - 1), m, rows, f, par, pos, dep)
<1> DEFINE id == st[n].id
           new == SubSeq(st, 1, n - 1)
<1>1. /\ Names(P, m, f, par, pos, dep) /\ Frames(P, S, st, m, f, dep)
      /\ Visits(P, st, m, f, par, pos) /\ Printed(S, st, m, rows, f, dep)
  BY DEF Dumped
<1>2. /\ n \in Nat \ {0} /\ n \in 1 .. n /\ st \in Seq(Frame)
      /\ \A i \in 1 .. n : i \in 1 .. n - 1 \/ i = n
      /\ \A i \in 1 .. n - 1 : i \in 1 .. n /\ i < n
  BY <1>1 DEF Frames
<1>3. new \in Seq(Frame) /\ Len(new) = n - 1 /\ \A i \in 1 .. n - 1 : new[i] = st[i]
  BY <1>2
<1> HIDE DEF new
<1>4. /\ id \in 0 .. m - 1 /\ f[id] = st[n].proto
      /\ st[n].next \in 1 .. Len(P[f[id]]) + 1 /\ st[n].pc <= S[f[id]]
  BY <1>1, <1>2 DEF Frames
<1>5. Len(P[f[id]]) \in Nat /\ S[f[id]] \in Nat
  BY <1>1, <1>4 DEF Names, Tree
<1>6. st[n].pc = S[f[id]] /\ st[n].next - 1 = Len(P[f[id]])
  <2>1. st[n] \in Frame
    BY <1>2
  <2>2. st[n].pc \in Nat /\ st[n].next \in Nat
    BY <2>1 DEF Frame
  <2> QED
    BY <1>4, <1>5, <2>2
<1>7. Frames(P, S, new, m, f, dep)
  <2> SUFFICES ASSUME NEW i \in 1 .. n - 1
               PROVE  /\ st[i].id \in 0 .. m - 1 /\ f[st[i].id] = st[i].proto
                      /\ dep[st[i].id] = i - 1
                      /\ st[i].next \in 1 .. Len(P[st[i].proto]) + 1
                      /\ st[i].pc <= S[st[i].proto] /\ st[i].pc = S[st[i].proto]
                      /\ ~(st[i].pc < S[st[i].proto])
                      /\ \A k \in 0 .. m - 1 : st[i].id < k => i <= dep[k]
    BY <1>3 DEF Frames
  <2>1. /\ st[i].id \in 0 .. m - 1 /\ f[st[i].id] = st[i].proto
        /\ dep[st[i].id] = i - 1
        /\ st[i].next \in 1 .. Len(P[st[i].proto]) + 1
        /\ st[i].pc <= S[st[i].proto] /\ st[i].pc = S[st[i].proto]
        /\ \A k \in 0 .. m - 1 : st[i].id < k => i <= dep[k]
    BY <1>1, <1>2 DEF Frames
  <2>2. S[st[i].proto] \in Nat
    BY <1>1, <2>1 DEF Names, Tree
  <2> QED
    BY <2>1, <2>2
<1>8. \A x : Underway(st, x) <=> Underway(new, x) \/ x = id
  BY <1>2, <1>3, Zenon DEF Underway
<1>9. Visits(P, new, m, f, par, pos)
  <2>1. ASSUME NEW x \in 0 .. m - 1, ~Underway(new, x), NEW j \in 1 .. Len(P[f[x]])
        PROVE  Nested(m, par, pos, x, j)
    <3>1. CASE x = id
      <4>1. \A i \in 1 .. st[n].next - 1 : Nested(m, par, pos, st[n].id, i)
        BY <1>1, <1>2 DEF Visits
      <4> QED
        BY <1>6, <2>1, <3>1, <4>1
    <3>2. CASE x # id
      BY <1>1, <1>8, <2>1, <3>2 DEF Visits
    <3> QED
      BY <3>1, <3>2
  <2> QED
    BY <1>1, <1>2, <1>3, <2>1 DEF Visits
<1>10. Printed(S, new, m, rows, f, dep)
  <2>1. ASSUME NEW x \in 0 .. m - 1, ~Underway(new, x)
        PROVE  Cardinality(RowsAt(rows, x)) = S[f[x]]
    <3>1. CASE x = id
      <4>1. Cardinality(RowsAt(rows, st[n].id)) = st[n].pc
        BY <1>1, <1>2 DEF Printed
      <4> QED
        BY <1>6, <3>1, <4>1
    <3>2. CASE x # id
      BY <1>1, <1>8, <2>1, <3>2 DEF Printed
    <3> QED
      BY <3>1, <3>2
  <2>2. ASSUME NEW i \in 1 .. n - 1
        PROVE  /\ Cardinality(RowsAt(rows, new[i].id)) = new[i].pc
               /\ \A k \in 1 .. Len(rows) : rows[k].id = new[i].id => rows[k].pc < new[i].pc
    <3>1. new[i] = st[i] /\ i \in 1 .. n
      BY <1>2, <1>3
    <3> QED
      BY <1>1, <3>1 DEF Printed
  <2> QED
    BY <1>1, <1>3, <2>1, <2>2 DEF Printed
<1> QED
  BY <1>1, <1>7, <1>9, <1>10 DEF Dumped, new

---------------------------------------------------------------------------
(* What a finished dump holds.                                               *)

LEMMA LeastNatural ==
    ASSUME NEW S \in SUBSET Nat, S # {}
    PROVE  \E t \in S : \A u \in S : t <= u
<1> DEFINE R == {ss \in Nat \X Nat : ss[1] < ss[2]}
<1>1. IsWellFoundedOn(R, Nat)
  BY NatLessThanWellFounded DEF OpToRel
<1>2. \E t \in S : \A u \in S : ~ (<<u, t>> \in R)
  <2> HIDE DEF R
  <2> QED
    BY <1>1, WFMin
<1>3. PICK t \in S : \A u \in S : ~ (<<u, t>> \in R)
  BY <1>2
<1>4. \A u \in S : t <= u
  <2> SUFFICES ASSUME NEW u \in S PROVE t <= u
    OBVIOUS
  <2>1. u \in Nat /\ t \in Nat /\ ~ (u < t)
    BY <1>3
  <2> QED
    BY <2>1
<1> QED
  BY <1>4

\* A set numbered from 1 to n has n members.
Numbers(K, g, n) ==
    /\ g \in [K -> 1 .. n]
    /\ \A a, b \in K : g[a] = g[b] => a = b
    /\ \A i \in 1 .. n : \E a \in K : g[a] = i

LEMMA NumberedSet ==
    ASSUME NEW K, IsFiniteSet(K), NEW n \in Nat, NEW g, Numbers(K, g, n)
    PROVE  Cardinality(K) = n
<1>1. g \in Bijection(K, 1 .. n)
  BY DEF Numbers, Bijection, Injection, Surjection, IsInjective
<1>2. ExistsBijection(K, 1 .. n)
  BY <1>1 DEF ExistsBijection
<1>3. Cardinality(1 .. n) = Cardinality(K)
  BY <1>2, FS_Bijection
<1>4. Cardinality(1 .. n) = n
  <2>1. 1 \in Int /\ n \in Int
    OBVIOUS
  <2>2. Cardinality(1 .. n) = IF 1 > n THEN 0 ELSE n - 1 + 1
    BY <2>1, FS_Interval
  <2> QED
    BY <2>2
<1> QED
  BY <1>3, <1>4

\* Every function of the chunk has a number, and there are no others.
LEMMA AllNamed ==
    ASSUME NEW P, NEW S, NEW st, NEW m, NEW f, NEW par, NEW pos, NEW dep, Tree(P, S),
           Names(P, m, f, par, pos, dep), Visits(P, st, m, f, par, pos), st = <<>>
    PROVE  /\ \A q \in 1 .. Len(P) : \E a \in 0 .. m - 1 : f[a] = q
           /\ m = Len(P)
<1> DEFINE named(q) == \E a \in 0 .. m - 1 : f[a] = q
<1>1. PICK depth : \A q \in 1 .. Len(P) :
        depth[q] \in Nat /\ \A i \in 1 .. Len(P[q]) : depth[q] < depth[P[q][i]]
  BY DEF Tree
<1> DEFINE D == {d \in Nat : \E q \in 1 .. Len(P) : depth[q] = d /\ ~named(q)}
<1>2. /\ m \in Nat \ {0} /\ f \in [0 .. m - 1 -> 1 .. Len(P)] /\ f[0] = 1 /\ Len(P) \in Nat \ {0}
      /\ 0 \in 0 .. m - 1 /\ \A a, b \in 0 .. m - 1 : f[a] = f[b] => a = b
  BY DEF Names, Tree
<1>3. \A a \in 0 .. m - 1 : \A i \in 1 .. Len(P[f[a]]) : named(P[f[a]][i])
  <2> SUFFICES ASSUME NEW a \in 0 .. m - 1, NEW i \in 1 .. Len(P[f[a]])
               PROVE  \E b \in 0 .. m - 1 : f[b] = P[f[a]][i]
    OBVIOUS
  <2>1. ~Underway(st, a)
    BY DEF Underway
  <2>2. PICK b \in 1 .. m - 1 : par[b] = a /\ pos[b] = i
    BY <2>1 DEF Visits, Nested
  <2>3. f[b] = P[f[par[b]]][pos[b]]
    BY DEF Names
  <2>4. b \in 0 .. m - 1
    BY <1>2
  <2> QED
    BY <2>2, <2>3, <2>4
<1>4. D = {}
  <2> SUFFICES ASSUME D # {} PROVE FALSE
    OBVIOUS
  <2>1. PICK d \in D : \A e \in D : d <= e
    <3>1. D \in SUBSET Nat
      OBVIOUS
    <3> HIDE DEF D
    <3> QED
      BY <3>1, LeastNatural
  <2>2. PICK q \in 1 .. Len(P) : depth[q] = d /\ ~named(q)
    OBVIOUS
  <2>3. q \in 2 .. Len(P)
    BY <1>2, <2>2
  <2>3a. PICK u \in 1 .. Len(P) : \E i \in 1 .. Len(P[u]) : P[u][i] = q
    BY <2>3 DEF Tree
  <2>4. PICK i \in 1 .. Len(P[u]) : P[u][i] = q
    BY <2>3a
  <2>5. depth[u] < d /\ depth[u] \in Nat /\ d \in Nat
    BY <1>1, <2>2, <2>4
  <2>6. named(u)
    <3> SUFFICES ASSUME ~named(u) PROVE FALSE
      OBVIOUS
    <3>1. depth[u] \in D
      BY <2>5
    <3> QED
      BY <2>1, <2>5, <3>1
  <2>7. PICK a \in 0 .. m - 1 : f[a] = u
    BY <2>6
  <2>8. named(P[f[a]][i])
    BY <1>3, <2>4, <2>7
  <2> QED
    BY <2>2, <2>4, <2>7, <2>8
<1>5. \A q \in 1 .. Len(P) : named(q)
  BY <1>1, <1>4
<1>6. m = Len(P)
  <2>1. 0 \in Int /\ m - 1 \in Int
    BY <1>2
  <2>2. IsFiniteSet(0 .. m - 1) /\ Cardinality(0 .. m - 1) = IF 0 > m - 1 THEN 0 ELSE m - 1 - 0 + 1
    BY <2>1, FS_Interval
  <2>3. Numbers(0 .. m - 1, f, Len(P))
    BY <1>2, <1>5 DEF Numbers
  <2>4. Cardinality(0 .. m - 1) = Len(P)
    BY <1>2, <2>2, <2>3, NumberedSet
  <2> QED
    BY <1>2, <2>2, <2>4
<1> QED
  BY <1>5, <1>6

Kids(m, par, j) == {a \in 1 .. m - 1 : par[a] = j}

InOrder(m, par, pos, j) ==
    \A id \in Kids(m, par, j) : Cardinality({k \in Kids(m, par, j) : k <= id}) = pos[id]

\* The numbers nested in one are as many as its functions, in their order.
LEMMA KidsInOrder ==
    ASSUME NEW P, NEW S, NEW st, NEW m, NEW f, NEW par, NEW pos, NEW dep, Tree(P, S),
           Names(P, m, f, par, pos, dep), Visits(P, st, m, f, par, pos), st = <<>>,
           NEW j \in 0 .. m - 1
    PROVE  Cardinality(Kids(m, par, j)) = Len(P[f[j]]) /\ InOrder(m, par, pos, j)
<1> DEFINE kids == Kids(m, par, j)
           l == Len(P[f[j]])
<1>1. m \in Nat \ {0} /\ l \in Nat
  BY DEF Names, Tree
<1>2. IsFiniteSet(kids) /\ \A a \in kids : a \in Nat /\ a \in 1 .. m - 1
  <2>1. kids \in SUBSET (1 .. m - 1)
    BY DEF Kids
  <2>2. 1 \in Int /\ m - 1 \in Int
    BY <1>1
  <2>3. IsFiniteSet(1 .. m - 1)
    BY <2>2, FS_Interval
  <2> HIDE DEF kids
  <2>4. IsFiniteSet(kids)
    BY <2>1, <2>3, FS_Subset
  <2>5. \A a \in 1 .. m - 1 : a \in Nat
    OBVIOUS
  <2> QED
    BY <2>1, <2>4, <2>5
<1>3. \A a \in kids : pos[a] \in 1 .. l
  BY DEF Names, Kids
<1>4. \A a, b \in kids : a < b => pos[a] < pos[b]
  BY DEF Names, Kids
<1>5. \A i \in 1 .. l : \E a \in kids : pos[a] = i
  <2> SUFFICES ASSUME NEW i \in 1 .. l PROVE \E a \in kids : pos[a] = i
    OBVIOUS
  <2>1. ~Underway(st, j)
    BY DEF Underway
  <2>2. PICK b \in 1 .. m - 1 : par[b] = j /\ pos[b] = i
    BY <2>1 DEF Visits, Nested
  <2> QED
    BY <2>2 DEF Kids
<1> HIDE DEF kids, l
<1>6. \A a, b \in kids : pos[a] = pos[b] => a = b
  <2> SUFFICES ASSUME NEW a \in kids, NEW b \in kids, pos[a] = pos[b] PROVE a = b
    OBVIOUS
  <2>1. a < b \/ b < a \/ a = b
    BY <1>2
  <2>2. pos[a] \in Nat /\ pos[b] \in Nat
    BY <1>1, <1>3
  <2> QED
    BY <1>4, <2>1, <2>2
<1>7. Cardinality(kids) = l
  <2> DEFINE g == [a \in kids |-> pos[a]]
  <2>1. Numbers(kids, g, l)
    BY <1>3, <1>5, <1>6 DEF Numbers
  <2> HIDE DEF g
  <2> QED
    BY <1>1, <1>2, <2>1, NumberedSet
<1>8. ASSUME NEW id \in kids PROVE Cardinality({k \in kids : k <= id}) = pos[id]
  <2> DEFINE K == {k \in kids : k <= id}
             g == [a \in K |-> pos[a]]
  <2>1. IsFiniteSet(K)
    BY <1>2, FS_Subset
  <2>2. pos[id] \in Nat /\ id \in Nat /\ \A i \in 1 .. pos[id] : i \in 1 .. l
    BY <1>1, <1>2, <1>3
  <2>3. \A a \in K : pos[a] \in 1 .. pos[id]
    <3> SUFFICES ASSUME NEW a \in kids, a <= id PROVE pos[a] \in 1 .. pos[id]
      OBVIOUS
    <3>1. pos[a] \in 1 .. l /\ (a = id \/ a < id)
      BY <1>2, <1>3, <2>2
    <3> QED
      BY <1>1, <1>4, <2>2, <3>1
  <2>4. ASSUME NEW i \in 1 .. pos[id] PROVE \E a \in K : pos[a] = i
    <3>1. PICK a \in kids : pos[a] = i
      BY <1>5, <2>2
    <3>2. a <= id
      <4> SUFFICES ASSUME ~(a <= id) PROVE FALSE
        OBVIOUS
      <4>1. id < a
        BY <1>2, <2>2
      <4> QED
        BY <1>4, <2>2, <3>1, <4>1
    <3> QED
      BY <3>1, <3>2
  <2>5. Numbers(K, g, pos[id])
    BY <1>6, <2>3, <2>4 DEF Numbers
  <2> HIDE DEF g, K
  <2>6. Cardinality(K) = pos[id]
    BY <2>1, <2>2, <2>5, NumberedSet
  <2> QED
    BY <2>6 DEF K
<1> QED
  BY <1>7, <1>8 DEF kids, l, InOrder

IsDumped(f, par, pos, dep) ==
    Dumped(arg.tree.p, arg.tree.sizecode, dump.stack, dump.proto_id, dump.rows, f, par, pos, dep)

\* The depth in a function's rows is its own, and leads to its parent.
LEMMA ParentsAreRead ==
    ASSUME IsChunk(arg.tree), dump.stack = <<>>,
           NEW f, NEW par, NEW pos, NEW dep, IsDumped(f, par, pos, dep)
    PROVE  /\ \A id \in Ids : Cardinality(RowsOf(id)) = arg.tree.sizecode[f[id]]
           /\ \A id \in Ids \ {0} : ParentOf(id) = par[id]
<1> DEFINE P == arg.tree.p
           S == arg.tree.sizecode
           m == dump.proto_id
           rows == dump.rows
<1>1. /\ Tree(P, S) /\ Names(P, m, f, par, pos, dep)
      /\ Printed(S, dump.stack, m, rows, f, dep)
  BY ChunkIsTree DEF IsDumped, Dumped
<1> HIDE DEF P, S, m, rows
<1>2. Ids = 0 .. m - 1 /\ m \in Nat \ {0}
  BY <1>1 DEF Ids, Names, m
<1>3. \A id \in Ids : /\ Cardinality(RowsOf(id)) = S[f[id]] /\ S[f[id]] # 0
  <2> SUFFICES ASSUME NEW id \in Ids
               PROVE  Cardinality(RowsOf(id)) = S[f[id]] /\ S[f[id]] # 0
    OBVIOUS
  <2>1. ~Underway(dump.stack, id)
    BY DEF Underway
  <2>2. Cardinality(RowsAt(rows, id)) = S[f[id]]
    BY <1>1, <1>2, <2>1 DEF Printed
  <2>3. S[f[id]] # 0
    BY <1>1, <1>2 DEF Names, Tree
  <2> QED
    BY <2>2, <2>3 DEF RowsAt, RowsOf, rows
<1>4. \A id \in Ids : DepthOf(id) = dep[id] /\ dep[id] \in Nat
  <2> SUFFICES ASSUME NEW id \in Ids PROVE DepthOf(id) = dep[id] /\ dep[id] \in Nat
    OBVIOUS
  <2>1. RowsOf(id) # {}
    BY <1>3, FS_EmptySet
  <2>2. (CHOOSE k \in RowsOf(id) : TRUE) \in RowsOf(id)
    BY <2>1
  <2>3. \A k \in RowsOf(id) : rows[k].depth = dep[id]
    BY <1>1 DEF Printed, RowsOf, rows
  <2>4. dep[id] \in Nat
    BY <1>1, <1>2 DEF Names
  <2> QED
    BY <2>2, <2>3, <2>4 DEF DepthOf, rows
<1>5. ASSUME NEW id \in Ids \ {0} PROVE ParentOf(id) = par[id]
  <2> DEFINE p == par[id]
             last(j) == /\ DepthOf(j) + 1 = DepthOf(id)
                        /\ \A k \in j + 1 .. id - 1 : DepthOf(k) + 1 # DepthOf(id)
  <2>1. id \in 1 .. m - 1 /\ id \in Nat /\ \A k \in 0 .. id - 1 : k \in Ids /\ k \in Nat /\ k < id
    BY <1>2
  <2>2. p \in 0 .. id - 1 /\ dep[id] = dep[p] + 1
    <3>1. p < id /\ p \in Nat /\ dep[id] = dep[p] + 1
      BY <1>1, <1>2, <2>1 DEF Names
    <3> QED
      BY <2>1, <3>1
  <2>3. \A k \in 0 .. id - 1 : p < k => dep[k] >= dep[id]
    BY <1>1, <1>2, <2>1 DEF Names
  <2> HIDE DEF p
  <2>4. last(p)
    <3>1. DepthOf(p) + 1 = DepthOf(id)
      BY <1>4, <2>1, <2>2
    <3>2. ASSUME NEW k \in p + 1 .. id - 1 PROVE DepthOf(k) + 1 # DepthOf(id)
      <4>1. k \in 0 .. id - 1 /\ p < k
        BY <2>1, <2>2
      <4>2. dep[k] >= dep[id] /\ dep[k] \in Nat /\ dep[id] \in Nat
        BY <1>4, <2>1, <2>3, <4>1
      <4> QED
        BY <1>4, <2>1, <4>1, <4>2
    <3> QED
      BY <3>1, <3>2
  <2>5. ASSUME NEW j \in 0 .. id - 1, last(j) PROVE j = p
    <3>1. dep[j] + 1 = dep[id] /\ dep[j] \in Nat /\ dep[id] \in Nat
      BY <1>4, <2>1, <2>5
    <3>2. ~(p < j)
      BY <2>3, <3>1
    <3>3. ~(j < p)
      <4> SUFFICES ASSUME j < p PROVE FALSE
        OBVIOUS
      <4>1. p \in j + 1 .. id - 1
        BY <2>1, <2>2
      <4> QED
        BY <2>4, <2>5, <4>1
    <3> QED
      BY <2>1, <2>2, <3>2, <3>3
  <2>6. ParentOf(id) = CHOOSE j \in 0 .. id - 1 : last(j)
    BY DEF ParentOf
  <2> HIDE DEF last
  <2>7. ParentOf(id) = p
    BY <2>2, <2>4, <2>5, <2>6
  <2> QED
    BY <2>7 DEF p
<1> QED
  BY <1>3, <1>5 DEF S

\* A dump that ends is the chunk.
LEMMA DumpEnds ==
    ASSUME IsChunk(arg.tree), dump.stack = <<>>,
           NEW f, NEW par, NEW pos, NEW dep, IsDumped(f, par, pos, dep)
    PROVE  RowsRebuildChunk /\ dump.proto_id = Len(arg.tree.p)
<1> DEFINE P == arg.tree.p
           S == arg.tree.sizecode
           m == dump.proto_id
           rows == dump.rows
<1>1. /\ Tree(P, S) /\ Names(P, m, f, par, pos, dep) /\ Visits(P, dump.stack, m, f, par, pos)
      /\ Printed(S, dump.stack, m, rows, f, dep)
  BY ChunkIsTree DEF IsDumped, Dumped
<1>2. DOMAIN P = 1 .. Len(P)
  BY DEF IsChunk
<1>3. /\ \A q \in 1 .. Len(P) : \E a \in 0 .. m - 1 : f[a] = q
      /\ m = Len(P)
  BY <1>1, AllNamed
<1> HIDE DEF P, S, m, rows
<1>4. Ids = 0 .. m - 1 /\ m \in Nat \ {0} /\ Ids \ {0} = 1 .. m - 1
  <2>1. Ids = 0 .. m - 1 /\ m \in Nat \ {0}
    BY <1>1 DEF Ids, Names, m
  <2> QED
    BY <2>1
<1>5. f \in [Ids -> DOMAIN P] /\ f[0] = 1
  BY <1>1, <1>2, <1>4 DEF Names
<1>6. \A k, l \in DOMAIN rows : k < l =>
             \/ rows[k].id < rows[l].id
             \/ rows[k].id = rows[l].id /\ rows[k].pc < rows[l].pc
  <2>1. DOMAIN rows = 1 .. Len(rows)
    BY <1>1 DEF Printed
  <2> QED
    BY <1>1, <2>1 DEF Printed, Earlier
<1>7. /\ \A id \in Ids : Cardinality(RowsOf(id)) = S[f[id]]
      /\ \A id \in Ids \ {0} : ParentOf(id) = par[id]
  BY ParentsAreRead DEF S
<1>8. ASSUME NEW j \in Ids
      PROVE  LET kids == {id \in Ids \ {0} : ParentOf(id) = j}
                 nth(id) == Cardinality({k \in kids : k <= id})
             IN  /\ Cardinality(kids) = Len(P[f[j]])
                 /\ \A id \in kids : f[id] = P[f[j]][nth(id)]
  <2>1. {id \in Ids \ {0} : ParentOf(id) = j} = Kids(m, par, j)
    BY <1>4, <1>7 DEF Kids
  <2>2. Cardinality(Kids(m, par, j)) = Len(P[f[j]]) /\ InOrder(m, par, pos, j)
    BY <1>1, <1>4, KidsInOrder
  <2>3. \A id \in Kids(m, par, j) : f[id] = P[f[j]][pos[id]]
    BY <1>1 DEF Names, Kids
  <2> QED
    BY <2>1, <2>2, <2>3 DEF InOrder
<1> QED
  BY <1>2, <1>3, <1>4, <1>5, <1>6, <1>7, <1>8 DEF RowsRebuildChunk, P, S, m, rows

---------------------------------------------------------------------------
(* The programs.                                                             *)

Dumping == arg.program = "puc_proto_dump"

\* Each program is at places of its own.
PlaceInv ==
    /\ at = "new" => Tracing
    /\ at = "cli" => arg.program = "lalin"
    /\ at \in {"dump", "rows"} => Dumping
    /\ at \in {"call", "script", "close", "fclose"} => Tracing
    /\ at \in {"load", "dump", "rows"} /\ Dumping => arg.argc >= 2
    /\ at = "exit" /\ code = 0 /\ Dumping => arg.argc >= 2

LEMMA PlaceInit ==
    ASSUME Init
    PROVE  PlaceInv
BY DEF Init, PlaceInv

LEMMA PlaceNext ==
    ASSUME PlaceInv, HeldInv, Next
    PROVE  PlaceInv'
<1> USE DEF PlaceInv, Tracing, Dumping
<1>1. CASE Usage \/ OpenTrace \/ NewState
  BY <1>1 DEF Usage, OpenTrace, NewState, Go, Exit, Failed
<1>2. CASE LoadCode
  <2>1. CASE Go(CASE arg.program = "lalin" -> "cli"
                  [] arg.program = "puc_proto_dump" -> "dump"
                  [] OTHER -> "call")
    <3>1. arg.program \in {"lalin", "puc_proto_dump", "puc_trace_operands"}
      BY DEF HeldInv
    <3>2. at = "load"
      BY <1>2 DEF LoadCode
    <3>3. CASE arg.program = "lalin"
      BY <2>1, <3>3 DEF Go
    <3>4. CASE arg.program = "puc_proto_dump"
      BY <2>1, <3>2, <3>4 DEF Go
    <3>5. CASE arg.program = "puc_trace_operands"
      BY <2>1, <3>5 DEF Go
    <3> QED
      BY <3>1, <3>3, <3>4, <3>5
  <2>2. CASE Exit(Failed)
    BY <2>2 DEF Exit, Failed
  <2> QED
    BY <1>2, <2>1, <2>2 DEF LoadCode
<1>3. CASE RunCli \/ DumpReturn
  BY <1>3 DEF RunCli, DumpReturn, Exit
<1>4. CASE BeginDump \/ DumpRow \/ DumpChild
  BY <1>4 DEF BeginDump, DumpRow, DumpChild, Go
<1>5. CASE CallScript \/ ScriptReturns \/ CloseScript \/ CloseTrace
  BY <1>5 DEF CallScript, ScriptReturns, CloseScript, CloseTrace, Go, Exit
<1>6. CASE RunInstruction \/ Finalize \/ Spawn \/ ScriptUnhooks
  BY <1>6 DEF RunInstruction, Finalize, Instruction, Spawn, ScriptUnhooks
<1> QED
  BY <1>1, <1>2, <1>3, <1>4, <1>5, <1>6 DEF Next

\* No hook before the script is called, none of the main coroutine after it; what
\* an exit leaves.
HookInv ==
    /\ at \in {"start", "new", "load", "call"} => trace.hooked = {}
    /\ at \in {"close", "fclose"} => Main \notin trace.hooked
    /\ at = "exit" => /\ "file" \in held => trace.hooked = {} /\ trace.ran = 0
                      /\ code = 0 /\ Tracing => Main \notin trace.hooked

LEMMA HookInit ==
    ASSUME Init
    PROVE  HookInv
BY DEF Init, HookInv

\* An instruction hooks nothing.
LEMMA InstructionUnhooks ==
    ASSUME trace \in TraceType, NEW t, Instruction(t)
    PROVE  trace'.hooked \subseteq trace.hooked
<1> DEFINE c == [trace EXCEPT !.ran = @ + 1]
<1>1. c \in TraceType /\ c.hooked = trace.hooked
  <2>1. trace.ran + 1 \in Nat
    BY Fields
  <2> QED
    BY <2>1 DEF TraceType
<1>2. trace' = c \/ trace' = TraceHook(t, c)
  BY DEF Instruction
<1> HIDE DEF c
<1>3. TraceHook(t, c).hooked \subseteq c.hooked
  BY <1>1 DEF TraceHook, TraceType
<1> QED
  BY <1>1, <1>2, <1>3

LEMMA HookNext ==
    ASSUME HookInv, HeldInv, PlaceInv, TraceInv, Next
    PROVE  HookInv'
<1>0. trace \in TraceType
  BY DEF TraceInv
<1>1. CASE Usage \/ OpenTrace \/ NewState
  <2>1. /\ at \in {"start", "new"} /\ trace.hooked = {} /\ trace.ran = 0
        /\ at' \in {"new", "load", "exit"} /\ UNCHANGED trace
    BY <1>1 DEF Usage, OpenTrace, NewState, Go, Exit, HookInv, TraceInv
  <2> QED
    BY <2>1 DEF HookInv
<1>2. CASE LoadCode
  <2>1. /\ at = "load" /\ trace.hooked = {} /\ trace.ran = 0 /\ UNCHANGED trace
    BY <1>2 DEF LoadCode, HookInv, TraceInv
  <2> QED
    BY <2>1 DEF HookInv
<1>3. CASE RunCli
  <2>1. at = "cli" /\ at' = "exit" /\ held' = {} /\ UNCHANGED <<arg, trace>>
    BY <1>3 DEF RunCli, Exit
  <2> QED
    BY <2>1 DEF HookInv, PlaceInv, Tracing
<1>4. CASE BeginDump \/ DumpRow \/ DumpChild
  <2>1. at \in {"dump", "rows"} /\ at' = "rows"
    BY <1>4 DEF BeginDump, DumpRow, DumpChild, Go
  <2> QED
    BY <2>1 DEF HookInv
<1>5. CASE DumpReturn
  <2>1. /\ at = "rows" /\ UNCHANGED <<arg, trace>>
        /\ (at' = "exit" /\ held' = {}) \/ at' = "rows"
    BY <1>5 DEF DumpReturn, Exit
  <2> QED
    BY <2>1 DEF HookInv, PlaceInv, Tracing, Dumping
<1>6. CASE CallScript
  <2>1. at' = "script"
    BY <1>6 DEF CallScript, Go
  <2> QED
    BY <2>1 DEF HookInv
<1>7. CASE RunInstruction \/ Spawn \/ ScriptUnhooks
  <2>1. at' = "script"
    BY <1>7 DEF RunInstruction, Instruction, Spawn, ScriptUnhooks
  <2> QED
    BY <2>1 DEF HookInv
<1>8. CASE ScriptReturns
  <2>1. at' = "close" /\ trace' = [trace EXCEPT !.hooked = @ \ {Main}]
    BY <1>8 DEF ScriptReturns
  <2>2. Main \notin trace'.hooked
    BY <1>0, <2>1 DEF TraceType
  <2> QED
    BY <2>1, <2>2 DEF HookInv
<1>9. CASE Finalize
  <2>1. at = "close" /\ at' = "close" /\ trace'.hooked \subseteq trace.hooked
    BY <1>0, <1>9, InstructionUnhooks DEF Finalize, Instruction
  <2> QED
    BY <2>1 DEF HookInv
<1>10. CASE CloseScript
  BY <1>10 DEF CloseScript, Go, HookInv
<1>11. CASE CloseTrace
  BY <1>11 DEF CloseTrace, Exit, HookInv
<1> QED
  BY <1>1, <1>2, <1>3, <1>4, <1>5, <1>6, <1>7, <1>8, <1>9, <1>10, <1>11 DEF Next

---------------------------------------------------------------------------
(* The dump's steps.                                                         *)

DumpType == [stack : Seq(Frame), proto_id : Nat, rows : Seq(Row)]

NoDump == [stack |-> <<>>, proto_id |-> 0, rows |-> <<>>]

Numbered == \E f, par, pos, dep : IsDumped(f, par, pos, dep)

DumpInv ==
    /\ dump \in DumpType
    /\ Dumping /\ arg.argc >= 2 => IsChunk(arg.tree)
    /\ at \in {"start", "load", "dump"} /\ Dumping => dump = NoDump
    /\ at = "rows" => dump.stack # <<>> /\ Numbered
    /\ at = "exit" /\ Dumping /\ code = 0 => dump.stack = <<>> /\ Numbered

LEMMA DumpFields ==
    ASSUME NEW d \in DumpType
    PROVE  d.stack \in Seq(Frame) /\ d.proto_id \in Nat /\ d.rows \in Seq(Row)
BY DEF DumpType

LEMMA DumpInit ==
    ASSUME Init
    PROVE  DumpInv
<1>1. arg \in Args /\ at = "start" /\ dump = NoDump
  BY DEF Init, NoDump
<1>2. dump \in DumpType
  <2>1. <<>> \in Seq(Frame) /\ <<>> \in Seq(Row) /\ 0 \in Nat
    OBVIOUS
  <2> QED
    BY <1>1, <2>1 DEF NoDump, DumpType
<1>3. Dumping => arg.argc = 1 \/ arg.tree \in Trees
  BY <1>1 DEF Dumping, Args, Arg
<1>4. Dumping /\ arg.argc >= 2 => IsChunk(arg.tree)
  BY <1>3, TreesAssumption
<1> QED
  BY <1>1, <1>2, <1>4 DEF DumpInv

\* The top of a stack changed, but for its function and its number.
LEMMA TopChanges ==
    ASSUME NEW st, st \in Seq(Frame), st # <<>>, NEW n, n = Len(st), NEW fr, fr \in Frame,
           fr.id = st[n].id, fr.proto = st[n].proto
    PROVE  SameCalls(st, [st EXCEPT ![n] = fr]) /\ [st EXCEPT ![n] = fr][n] = fr
<1>1. n \in Nat \ {0} /\ n \in 1 .. n
  OBVIOUS
<1>2. \A i \in 1 .. n - 1 : i \in 1 .. n /\ i # n
  BY <1>1
<1>3. DOMAIN st = 1 .. n
  OBVIOUS
<1>4. [st EXCEPT ![n] = fr] \in Seq(Frame) /\ Len([st EXCEPT ![n] = fr]) = n
  BY <1>1
<1> QED
  BY <1>1, <1>2, <1>3, <1>4 DEF SameCalls

LEMMA DumpStep ==
    ASSUME DumpInv, PlaceInv, BeginDump \/ DumpRow \/ DumpChild \/ DumpReturn
    PROVE  DumpInv'
<1> DEFINE P == arg.tree.p
           S == arg.tree.sizecode
           st == dump.stack
           n == Len(st)
<1>0. at \in {"dump", "rows"} /\ arg' = arg
  BY DEF BeginDump, DumpRow, DumpChild, DumpReturn, Go, Exit
<1>1. /\ dump \in DumpType /\ st \in Seq(Frame) /\ dump.proto_id \in Nat
      /\ dump.rows \in Seq(Row) /\ Dumping /\ IsChunk(arg.tree) /\ Tree(P, S)
  BY <1>0, DumpFields, ChunkIsTree DEF DumpInv, PlaceInv
<1>2. /\ Dumping' /\ (Dumping /\ arg.argc >= 2 => IsChunk(arg.tree))'
      /\ at' \in {"rows", "exit"}
  BY <1>0, <1>1 DEF Dumping, BeginDump, DumpRow, DumpChild, DumpReturn, Go, Exit
<1>3. ASSUME at = "rows" PROVE st # <<>> /\ n \in Nat \ {0} /\ Top = st[n] /\ Top \in Frame
  BY <1>1, <1>3 DEF DumpInv, Top
<1>4. CASE BeginDump
  <2> DEFINE new == <<[proto |-> 1, id |-> 0, pc |-> 0, next |-> 1]>>
  <2>1. dump = NoDump /\ at' = "rows"
    BY <1>1, <1>4 DEF BeginDump, DumpInv, Go
  <2>2. dump.proto_id = 0 /\ dump.rows = <<>>
    BY <2>1 DEF NoDump
  <2>2a. /\ dump' = [dump EXCEPT !.proto_id = 1, !.stack = new]
    BY <1>4, <2>2 DEF BeginDump, Enter
  <2>2b. new \in Seq(Frame) /\ new # <<>>
    <3>1. [proto |-> 1, id |-> 0, pc |-> 0, next |-> 1] \in Frame
      BY DEF Frame
    <3> QED
      BY <3>1
  <2> HIDE DEF new
  <2>3. /\ dump'.stack = new /\ dump'.proto_id = 1 /\ dump'.rows = <<>>
        /\ dump' \in DumpType
    BY <1>1, <2>2, <2>2a, <2>2b DEF DumpType
  <2>4. \E f, par, pos, dep : Dumped(P, S, new, 1, <<>>, f, par, pos, dep)
    BY <1>1, DumpBegins DEF new
  <2>5. Numbered'
    BY <1>0, <2>3, <2>4 DEF Numbered, IsDumped
  <2> QED
    BY <1>2, <2>1, <2>2b, <2>3, <2>5 DEF DumpInv
<1>5. CASE DumpRow
  <2> DEFINE fr == [Top EXCEPT !.pc = @ + 1]
             r == [id |-> Top.id, depth |-> n - 1, pc |-> Top.pc]
             new == [st EXCEPT ![n] = fr]
             more == Append(dump.rows, r)
  <2>1. /\ at = "rows" /\ at' = "rows" /\ Top.pc < S[Top.proto]
        /\ dump' = [dump EXCEPT !.stack = new, !.rows = more]
    BY <1>5 DEF DumpRow, SetTop
  <2>2. /\ st # <<>> /\ n \in Nat \ {0} /\ Top = st[n] /\ Top \in Frame
    BY <1>3, <2>1
  <2>3. /\ fr \in Frame /\ fr.id = st[n].id /\ fr.proto = st[n].proto
        /\ fr.next = st[n].next /\ fr.pc = st[n].pc + 1 /\ r \in Row
    BY <2>2 DEF Frame, Row
  <2> HIDE DEF fr
  <2>4. SameCalls(st, new) /\ new[n] = fr
    BY <1>1, <2>2, <2>3, TopChanges
  <2> HIDE DEF new
  <2>5. new \in Seq(Frame) /\ new # <<>> /\ more \in Seq(Row)
    BY <1>1, <2>2, <2>3, <2>4 DEF SameCalls
  <2> HIDE DEF more
  <2>5a. /\ dump'.stack = new /\ dump'.proto_id = dump.proto_id
         /\ dump'.rows = more /\ dump' \in DumpType
    BY <1>1, <2>1, <2>5 DEF DumpType
  <2>6. PICK f, par, pos, dep : IsDumped(f, par, pos, dep)
    BY <2>1 DEF DumpInv, Numbered
  <2>7. Dumped(P, S, new, dump.proto_id, more, f, par, pos, dep)
    BY <1>1, <2>1, <2>2, <2>3, <2>4, <2>6, DumpPrints DEF IsDumped, more
  <2>8. Numbered'
    BY <1>0, <2>5a, <2>7 DEF Numbered, IsDumped
  <2> QED
    BY <1>2, <2>1, <2>5, <2>5a, <2>8 DEF DumpInv
<1>6. CASE DumpChild
  <2> DEFINE fr == [Top EXCEPT !.next = @ + 1]
             up == [st EXCEPT ![n] = fr]
             q == P[Top.proto][Top.next]
             new == Append(up, Called(q, dump.proto_id))
             m == dump.proto_id + 1
  <2>1. /\ at = "rows" /\ at' = "rows" /\ Top.pc >= S[Top.proto] /\ Top.next <= Len(P[Top.proto])
        /\ dump' = [dump EXCEPT !.proto_id = m, !.stack = new]
    BY <1>6 DEF DumpChild, SetTop, Enter, Called
  <2>2. /\ st # <<>> /\ n \in Nat \ {0} /\ Top = st[n] /\ Top \in Frame
    BY <1>3, <2>1
  <2>3. /\ fr \in Frame /\ fr.id = st[n].id /\ fr.proto = st[n].proto
        /\ fr.next = st[n].next + 1 /\ fr.pc = st[n].pc
    BY <2>2 DEF Frame
  <2> HIDE DEF fr
  <2>4. SameCalls(st, up) /\ up[n] = fr
    BY <1>1, <2>2, <2>3, TopChanges
  <2> HIDE DEF up
  <2>5. Entering(P, S, st, up)
    BY <2>1, <2>2, <2>3, <2>4 DEF Entering
  <2>6. PICK f, par, pos, dep : IsDumped(f, par, pos, dep)
    BY <2>1 DEF DumpInv, Numbered
  <2>7. \E f2, par2, pos2, dep2 :
          Dumped(P, S, new, dump.proto_id + 1, dump.rows, f2, par2, pos2, dep2)
    BY <1>1, <2>2, <2>5, <2>6, DumpEnters DEF IsDumped
  <2>8. new \in Seq(Frame) /\ new # <<>>
    <3>1. new \in Seq(Frame)
      BY <2>7 DEF Dumped, Frames
    <3>2. up \in Seq(Frame)
      BY <2>4 DEF SameCalls
    <3>3. new[Len(up) + 1] = Called(q, dump.proto_id) /\ Len(new) = Len(up) + 1
      BY <3>2
    <3> HIDE DEF new
    <3> QED
      BY <3>1, <3>2, <3>3
  <2>8a. m \in Nat
    BY <1>1
  <2> HIDE DEF new, m
  <2>9. /\ dump'.stack = new /\ dump'.proto_id = m
        /\ dump'.rows = dump.rows /\ dump' \in DumpType
    BY <1>1, <2>1, <2>8, <2>8a DEF DumpType
  <2>10. Numbered'
    BY <1>0, <2>7, <2>9 DEF Numbered, IsDumped, m
  <2> QED
    BY <1>2, <2>1, <2>8, <2>9, <2>10 DEF DumpInv
<1>7. CASE DumpReturn
  <2> DEFINE new == SubSeq(st, 1, n - 1)
  <2>1. /\ at = "rows" /\ Top.pc >= S[Top.proto] /\ Top.next > Len(P[Top.proto])
        /\ dump' = [dump EXCEPT !.stack = new]
        /\ IF n = 1 THEN at' = "exit" ELSE at' = at
    BY <1>7 DEF DumpReturn, Exit
  <2>2. /\ st # <<>> /\ n \in Nat \ {0} /\ Top = st[n]
    BY <1>3, <2>1
  <2>3. new \in Seq(Frame) /\ Len(new) = n - 1
    BY <1>1, <2>2
  <2>3a. new = <<>> <=> n = 1
    <3> HIDE DEF new
    <3>1. n \in Nat /\ (n - 1 = 0 <=> n = 1)
      BY <2>2
    <3>2. new = <<>> <=> Len(new) = 0
      BY <2>3, EmptySeq
    <3> QED
      BY <2>3, <3>1, <3>2
  <2>4. PICK f, par, pos, dep : IsDumped(f, par, pos, dep)
    BY <2>1 DEF DumpInv, Numbered
  <2>5. Dumped(P, S, new, dump.proto_id, dump.rows, f, par, pos, dep)
    BY <1>1, <2>1, <2>2, <2>4, DumpReturns DEF IsDumped
  <2> HIDE DEF new
  <2>6. /\ dump'.stack = new /\ dump'.proto_id = dump.proto_id
        /\ dump'.rows = dump.rows /\ dump' \in DumpType
    BY <1>1, <2>1, <2>3 DEF DumpType
  <2>7. Numbered'
    BY <1>0, <2>5, <2>6 DEF Numbered, IsDumped
  <2> QED
    BY <1>2, <2>1, <2>3a, <2>6, <2>7 DEF DumpInv
<1> QED
  BY <1>4, <1>5, <1>6, <1>7

LEMMA DumpNext ==
    ASSUME DumpInv, PlaceInv, HeldInv, Next
    PROVE  DumpInv'
<1>1. CASE BeginDump \/ DumpRow \/ DumpChild \/ DumpReturn
  BY <1>1, DumpStep
<1>2. ASSUME UNCHANGED <<arg, dump>>, at' # "rows",
             at' \in {"start", "load", "dump"} /\ Dumping => at \in {"start", "load", "dump"},
             at' = "exit" /\ Dumping => code' # 0
      PROVE  DumpInv'
  <2>1. Dumping' <=> Dumping
    BY <1>2 DEF Dumping
  <2> QED
    BY <1>2, <2>1 DEF DumpInv
<1>3. CASE Usage
  BY <1>2, <1>3 DEF Usage, Exit
<1>4. CASE OpenTrace
  BY <1>2, <1>4 DEF OpenTrace, Go, Exit
<1>5. CASE NewState
  BY <1>2, <1>5 DEF NewState, Go, Exit, Failed, PlaceInv, Tracing, Dumping
<1>6. CASE LoadCode
  BY <1>2, <1>6 DEF LoadCode, Go, Exit, Failed
<1>7. CASE RunCli
  BY <1>2, <1>7 DEF RunCli, Exit, PlaceInv, Dumping
<1>8. CASE CallScript \/ ScriptReturns \/ CloseScript \/ CloseTrace
  BY <1>2, <1>8 DEF CallScript, ScriptReturns, CloseScript, CloseTrace, Go, Exit, PlaceInv,
                    Tracing, Dumping
<1>9. CASE RunInstruction \/ Finalize \/ Spawn \/ ScriptUnhooks
  BY <1>2, <1>9 DEF RunInstruction, Finalize, Instruction, Spawn, ScriptUnhooks
<1> QED
  BY <1>1, <1>3, <1>4, <1>5, <1>6, <1>7, <1>8, <1>9 DEF Next

\* What every host keeps.
HostInv == TraceInv /\ HeldInv /\ PlaceInv /\ HookInv /\ DumpInv

LEMMA HostInit ==
    ASSUME Init
    PROVE  HostInv
BY TraceInit, HeldInit, PlaceInit, HookInit, DumpInit DEF HostInv

LEMMA HostStep == HostInv /\ [Next]_vars => HostInv'
<1>1. ASSUME HostInv, UNCHANGED vars PROVE HostInv'
  <2>1. PlaceInv' /\ HookInv'
    BY <1>1 DEF HostInv, vars, PlaceInv, HookInv, Tracing, Dumping
  <2>2. DumpInv'
    BY <1>1 DEF HostInv, vars, DumpInv, Numbered, IsDumped, Dumping
  <2> QED
    BY <1>1, <2>1, <2>2, TraceStep, HeldStep DEF HostInv
<1> QED
  BY <1>1, TraceNext, HeldNext, PlaceNext, HookNext, DumpNext DEF HostInv

\* The rows of a dump are enough to rebuild any chunk: its functions are numbered
\* once each and in the order they are entered, and the depths alone lead from
\* each to the function it is nested in and to its place there.
THEOREM DumpsAreComplete == Spec => []RowsRebuildChunk
<1>1. HostInv => RowsRebuildChunk
  <2> SUFFICES ASSUME HostInv, Dumping, at = "exit", code = 0
               PROVE  RowsRebuildChunk
    BY DEF RowsRebuildChunk, Dumping
  <2>1. dump.stack = <<>> /\ Numbered /\ IsChunk(arg.tree)
    BY DEF HostInv, DumpInv, PlaceInv
  <2> QED
    BY <2>1, DumpEnds DEF Numbered
<1> QED
  BY <1>1, HostInit, HostStep, PTL DEF Spec

\* A host that ends has closed its Lua state, and its trace file but for the one
\* case of a state that could not be made; one that exits 0 has dumped the whole
\* chunk, or has taken its hook from the main coroutine.
THEOREM EveryExitClean == Spec => []ExitsAreClean
<1>1. HostInv => ExitsAreClean
  <2> SUFFICES ASSUME HostInv, at = "exit" PROVE ExitsAreClean
    BY DEF ExitsAreClean
  <2>1. code = 0 /\ Dumping => dump.stack = <<>> /\ dump.proto_id = Len(arg.tree.p)
    <3> SUFFICES ASSUME code = 0, Dumping
                 PROVE  dump.stack = <<>> /\ dump.proto_id = Len(arg.tree.p)
      OBVIOUS
    <3>1. dump.stack = <<>> /\ Numbered /\ IsChunk(arg.tree)
      BY DEF HostInv, DumpInv, PlaceInv
    <3> QED
      BY <3>1, DumpEnds DEF Numbered
  <2> QED
    BY <2>1 DEF HostInv, HeldInv, HookInv, ExitsAreClean, Dumping
<1> QED
  BY <1>1, HostInit, HostStep, PTL DEF Spec
=============================================================================
