----------------------------- MODULE MluiBench -----------------------------
(***************************************************************************)
(* bench_mlui_layout.c: six cases, each run `samples` times, each sample   *)
(* `warmup` frames and then `loops` measured ones.  A loaded sample builds *)
(* and loads one program and frames it again and again; a rebuild sample   *)
(* builds, loads, frames and frees a program in every round.  The module   *)
(* composes the builders of MluiBuilder with the calls of MluiKernel.      *)
(* Timing and the medians that are printed are left out.                   *)
(***************************************************************************)
EXTENDS MluiBuilder, MluiKernel

CONSTANT Arguments  \* command lines: [mode, node_count, loops, warmup, samples]

ASSUME ArgumentsAssumption ==
    Arguments \subseteq [mode: {"RUN_LOADED", "RUN_REBUILD"}, node_count: Sizes,
                         loops: Nat, warmup: Nat, samples: Nat \ {0}]

VARIABLES
    kernel,     \* the kernel under test
    args,       \* what main read from its command line
    at,         \* where the harness is
    count,      \* the loop counters, and the totals of the sample
    owned,      \* allocations not freed yet: programs, kernels, run_case's pairs of arrays
    status,     \* st.code, of the last call
    code        \* the exit status, once at = "exit"

vars == <<build, kernel, args, at, count, owned, status, code>>

Case(shape, raw_mode) == [shape |-> shape, raw_mode |-> raw_mode]

Cases == << Case("CHAIN", "RAW_NONE"), Case("FLAT", "RAW_NONE"),
            Case("BALANCED", "RAW_NONE"), Case("INTERACTIVE", "RAW_NONE"),
            Case("INTERACTIVE", "RAW_MOVE"), Case("INTERACTIVE", "RAW_CLICK") >>

bc == Cases[count.case]

Loaded == args.mode = "RUN_LOADED"

\* The raw input of frame i.
RawInputSwapped(i) ==                                           \* mutant
    CASE bc.raw_mode = "RAW_MOVE" -> "POINTER_MOVED"
      [] bc.raw_mode = "RAW_CLICK" /\ i % 2 = 1 -> "POINTER_PRESSED"
      [] bc.raw_mode = "RAW_CLICK" /\ i % 2 = 0 -> "POINTER_RELEASED"
      [] OTHER -> "NONE"
RawInput(i) ==
    CASE bc.raw_mode = "RAW_MOVE" -> "POINTER_MOVED"
      [] bc.raw_mode = "RAW_CLICK" /\ i % 2 = 0 -> "POINTER_PRESSED"
      [] bc.raw_mode = "RAW_CLICK" /\ i % 2 = 1 -> "POINTER_RELEASED"
      [] OTHER -> "NONE"

Init ==
    /\ args \in Arguments
    /\ build = StartBuild("CHAIN", 1)
    /\ kernel = NewKernel
    /\ at = "case"
    /\ count = [case |-> 1, sample |-> 0, measured |-> FALSE, i |-> 0, ops |-> 0, events |-> 0]
    /\ owned = [programs |-> 0, kernels |-> 0, arrays |-> 0]
    /\ status = "OK" /\ code = 0

\* exit(c): nothing is freed.
Exit(c) ==
    /\ at' = "exit" /\ code' = c
    /\ UNCHANGED <<build, args, count, owned>>

\* xcalloc and the kernel's own allocation.
OutOfMemory(c) == AllocMayFail /\ Exit(c) /\ UNCHANGED <<kernel, status>>

---------------------------------------------------------------------------
(* main and run_case.                                                      *)

StartCase ==
    /\ at = "case" /\ count.case <= Len(Cases)
    /\ \/ /\ at' = "sample"
          /\ count' = [count EXCEPT !.sample = 0]
          /\ owned' = [owned EXCEPT !.arrays = @ + 1]
          /\ UNCHANGED <<build, kernel, args, status, code>>
       \/ OutOfMemory(111)

MainReturns == at = "case" /\ count.case > Len(Cases) /\ Exit(0) /\ UNCHANGED <<kernel, status>>

StartSample ==
    /\ at = "sample" /\ count.sample < args.samples
    /\ at' = IF Loaded THEN "make" ELSE "init"
    /\ count' = [count EXCEPT !.measured = FALSE, !.i = 0, !.ops = 0, !.events = 0]
    /\ UNCHANGED <<build, kernel, args, owned, status, code>>

FinishCase ==
    /\ at = "sample" /\ count.sample >= args.samples
    /\ at' = "case"
    /\ count' = [count EXCEPT !.case = @ + 1]
    /\ owned' = [owned EXCEPT !.arrays = @ - 1]
    /\ UNCHANGED <<build, kernel, args, status, code>>

---------------------------------------------------------------------------
(* One sample.                                                             *)

\* make_program; after the kernel is closed it builds the shape probe.
Make ==
    /\ at = "make"
    /\ \/ /\ build' = StartBuild(bc.shape, args.node_count)
          /\ owned' = [owned EXCEPT !.programs = @ + 1]
          /\ at' = "build"
          /\ UNCHANGED <<kernel, args, count, status, code>>
       \/ OutOfMemory(111)

Build == at = "build" /\ BuildNext /\ UNCHANGED <<kernel, args, at, count, owned, status, code>>

FinishProgram ==
    /\ at = "build" /\ Finished(build)
    /\ at' = CASE Loaded -> "init"
               [] ~Loaded /\ owned.kernels > 0 -> "validate"
               [] OTHER -> "free"
    /\ UNCHANGED <<build, kernel, args, count, owned, status, code>>

InitKernel ==
    /\ at = "init"
    /\ \/ /\ kernel' = NewKernel
          /\ owned' = [owned EXCEPT !.kernels = @ + 1]
          /\ at' = IF Loaded THEN "validate" ELSE "next"
          /\ UNCHANGED <<build, args, count, status, code>>
       \/ OutOfMemory(2)

Validate ==
    /\ at = "validate"
    /\ status' = ValidateProgram(Finish(build))
    /\ UNCHANGED kernel
    /\ IF status' = "OK"
       THEN at' = "load" /\ UNCHANGED <<build, args, count, owned, code>>
       ELSE Exit(3)

Load ==
    /\ at = "load"
    /\ \E o \in LoadProgram(kernel, Finish(build)) :
          /\ kernel' = o.kernel /\ status' = o.status
          /\ IF o.status = "OK"
             THEN /\ at' = IF Loaded THEN "next" ELSE "frame"
                  /\ UNCHANGED <<build, args, count, owned, code>>
             ELSE Exit(4)

\* The heads of the warmup loop and of the measured one.
NextRound ==
    /\ at = "next" /\ count.i < (IF count.measured THEN args.loops ELSE args.warmup)
    /\ at' = IF Loaded THEN "frame" ELSE "make"
    /\ UNCHANGED <<build, kernel, args, count, owned, status, code>>

Measure ==
    /\ at = "next" /\ ~count.measured /\ count.i >= args.warmup
    /\ count' = [count EXCEPT !.measured = TRUE, !.i = 0]
    /\ UNCHANGED <<build, kernel, args, at, owned, status, code>>

EndLoops ==
    /\ at = "next" /\ count.measured /\ count.i >= args.loops
    /\ at' = "close"
    /\ UNCHANGED <<build, kernel, args, count, owned, status, code>>

\* mlui_frame, then mlui_view_ops and mlui_events, which never fail.
RunFrame ==
    /\ at = "frame"
    /\ \E o \in Frame(kernel, 1, RawInput(count.i)) :
          /\ kernel' = o.kernel /\ status' = o.status
          /\ IF o.status # "OK"
             THEN Exit(IF count.measured THEN 6 ELSE 5)
             ELSE /\ at' = IF Loaded THEN "next" ELSE "free"
                  /\ count' = [count EXCEPT
                        !.i = IF Loaded THEN @ + 1 ELSE @,
                        !.ops = IF count.measured THEN @ + o.kernel.len["view"] ELSE @,
                        !.events = IF count.measured THEN @ + o.kernel.len["event"] ELSE @]
                  /\ UNCHANGED <<build, args, owned, code>>

Close ==
    /\ at = "close"
    /\ kernel' = [kernel EXCEPT !.wild = @ \/ ~ClosesCleanly(kernel)]
    /\ owned' = [owned EXCEPT !.kernels = @ - 1]
    /\ at' = IF Loaded THEN "free" ELSE "make"
    /\ UNCHANGED <<build, args, count, status, code>>

\* free_program: a round of a rebuild sample ends with it, and so does every sample.
FreeProgramInPlace ==                                           \* mutant
    /\ at = "free"
    /\ owned' = [owned EXCEPT !.programs = @ - 1]
    /\ IF owned.kernels > 0
       THEN at' = "next" /\ UNCHANGED count
       ELSE at' = "sample" /\ count' = [count EXCEPT !.sample = @ + 1]
    /\ UNCHANGED <<build, kernel, args, status, code>>
FreeProgram ==
    /\ at = "free"
    /\ owned' = [owned EXCEPT !.programs = @ - 1]
    /\ IF owned.kernels > 0
       THEN at' = "next" /\ count' = [count EXCEPT !.i = @ + 1]
       ELSE at' = "sample" /\ count' = [count EXCEPT !.sample = @ + 1]
    /\ UNCHANGED <<build, kernel, args, status, code>>

Next ==
    \/ StartCase \/ MainReturns \/ StartSample \/ FinishCase
    \/ Make \/ Build \/ FinishProgram \/ InitKernel \/ Validate \/ Load
    \/ NextRound \/ Measure \/ EndLoops \/ RunFrame \/ Close \/ FreeProgram

\* One thread runs to its end.
Spec == Init /\ [][Next]_vars /\ WF_vars(Next)

---------------------------------------------------------------------------
(* Properties.                                                             *)

\* The averages printed are exact: every measured frame of a sample emits the
\* same operations, and two clicking frames emit one event between them,
\* wherever the warmup stopped and however often the program was reloaded.
SampleIsExact ==
    at = "close" =>
        /\ count.ops = args.loops * ViewCount(Finish(build))
        /\ count.events = IF bc.raw_mode = "RAW_CLICK" THEN args.loops \div 2 ELSE 0

\* The harness never touches memory outside a buffer and holds nothing twice;
\* its exit status says why it stopped: 3 means colliding identities, every
\* other failure memory, and a run that ends well has released everything.
ExitMeans ==
    /\ ~kernel.wild
    /\ \A r \in DOMAIN owned : owned[r] \in {0, 1}
    /\ at \in {"build", "validate", "load", "free"} => owned.programs = 1
    /\ at = "exit" =>
         CASE code = 0 -> /\ count.case > Len(Cases)
                          /\ \A r \in DOMAIN owned : owned[r] = 0
                          /\ Loaded \/ args.loops + args.warmup > 0 => IdsFit(build)
           [] code = 3 -> status = "DUPLICATE_ID" /\ ~IdsFit(build)
           [] code \in {4, 5, 6} -> AllocMayFail /\ status = "OOM"
           [] OTHER -> AllocMayFail /\ code \in {2, 111}

\* The benchmark ends.
BenchEnds == <>(at = "exit")

=============================================================================
