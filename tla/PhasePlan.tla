------------------------------ MODULE PhasePlan ------------------------------
(* The phase planner: lua/lalin/phase_plan.lua over a package that           *)
(* lua/lalin/phase_validate.lua has validated.  A package's phases are the   *)
(* edges of a graph whose nodes are its worlds; the planner looks for every  *)
(* way from a root's input world to its output world, and plans if there is  *)
(* one.  The search is the code's: depth first, with one path and one set of *)
(* seen phases that are undone on the way back.                              *)
EXTENDS Integers, Sequences, FiniteSets

CONSTANTS
    Packages,     \* the packages to plan
    RootSpecs,    \* the root ids callers ask for
    Nil           \* no root asked for, no diagnostics world

Elements(seq) == {seq[k] : k \in 1..Len(seq)}

ASSUME PackagesAssumption ==
    \A p \in Packages :
        /\ p.machines \in Seq(Elements(p.machines)) /\ Nil \notin Elements(p.machines)
        /\ p.phases \in Seq(Elements(p.phases))
        /\ p.roots \in Seq(Elements(p.roots))

VARIABLES
    package,      \* the package and
    rootSpec,     \* the root asked for
    at,           \* where plan_package, or its search, goes on
    diagnostics,  \* report.diagnostics, as pairs of code and subject
    root,         \* report.root
    dfs,          \* find_paths: its path, seen_phase, each call's loop index, paths
    plan          \* report.plan's steps

vars == <<package, rootSpec, at, diagnostics, root, dfs, plan>>

Ids(seq) == {seq[k].id : k \in 1..Len(seq)}
Last(seq) == seq[Len(seq)]
Front(seq) == SubSeq(seq, 1, Len(seq) - 1)

-----------------------------------------------------------------------------
(* validate_package                                                          *)

Report(code, subjects) == {code} \X subjects

\* add_unique: the ids that are declared again
Duplicates(seq) ==
    {seq[k].id : k \in {k \in 1..Len(seq) : \E j \in 1..(k - 1) : seq[j].id = seq[k].id}}

\* the entries the later checks look at: add_unique lists the first of each id
Listed(seq) == {seq[k] : k \in {k \in 1..Len(seq) : \A j \in 1..(k - 1) : seq[j].id # seq[k].id}}

\* the machine a phase names, as machine_map gives it to the validator
NamedNothing(p, phase) == {}                                    \* mutant
NamedBy(p, phase) == {m \in Listed(p.machines) : m.id = phase.machine}

UnknownWorlds(p) ==
    LET used(e) == {e.input, e.output} \cup ({e.diagnostics} \ {Nil}) IN
    {e.id : e \in {e \in Listed(p.machines) \cup Listed(p.phases) :
                       ~(used(e) \subseteq Ids(p.worlds))}}
    \cup {r.id : r \in {r \in Listed(p.roots) : ~({r.input, r.output} \subseteq Ids(p.worlds))}}

UnknownMachines(p) == {f.id : f \in {f \in Listed(p.phases) : f.machine \notin Ids(p.machines)}}

\* phases whose machine has another world in the field
Mismatches(p, field) ==
    {phase.id : phase \in {f \in Listed(p.phases) : \E m \in NamedBy(p, f) : f[field] # m[field]}}

Diagnostics(p) ==
    Report("E_DUPLICATE_WORLD", Duplicates(p.worlds))
    \cup Report("E_DUPLICATE_MACHINE", Duplicates(p.machines))
    \cup Report("E_DUPLICATE_PHASE", Duplicates(p.phases))
    \cup Report("E_DUPLICATE_ROOT", Duplicates(p.roots))
    \cup Report("E_UNKNOWN_WORLD", UnknownWorlds(p))
    \cup Report("E_BAD_IMPL", {m.id : m \in {m \in Listed(p.machines) : m.impl = Nil}})
    \cup Report("E_UNKNOWN_MACHINE", UnknownMachines(p))
    \cup Report("E_PHASE_MACHINE_INPUT_MISMATCH", Mismatches(p, "input"))
    \cup Report("E_PHASE_MACHINE_OUTPUT_MISMATCH", Mismatches(p, "output"))
    \cup Report("E_PHASE_MACHINE_DIAGNOSTICS_MISMATCH", Mismatches(p, "diagnostics"))

Validate ==
    /\ at = "validate"
    /\ diagnostics' = Diagnostics(package)
    /\ at' = IF Diagnostics(package) = {} THEN "root" ELSE "done"
    /\ UNCHANGED <<package, rootSpec, root, dfs, plan>>

-----------------------------------------------------------------------------
(* select_root                                                               *)

Refuse(code) ==
    /\ diagnostics' = diagnostics \cup {<<code, rootSpec>>}
    /\ at' = "done"
    /\ UNCHANGED <<package, rootSpec, root, dfs, plan>>

NoSearch == [path |-> <<>>, seen |-> {}, next |-> <<>>, paths |-> <<>>]

RootMatches(r) == rootSpec = Nil \/ r.id = rootSpec
SelectRoot ==
    LET matches == {k \in 1..Len(package.roots) : RootMatches(package.roots[k])} IN
    /\ at = "root"
    /\ \/ \E k \in matches :
             /\ matches = {k}
             /\ root' = package.roots[k] /\ at' = "enter"
             /\ UNCHANGED <<package, rootSpec, diagnostics, dfs, plan>>
       \/ matches = {} /\ Refuse(IF rootSpec = Nil THEN "E_NO_ROOT" ELSE "E_UNKNOWN_ROOT")
       \/ Cardinality(matches) > 1 /\ Refuse("E_AMBIGUOUS_ROOT")

-----------------------------------------------------------------------------
(* find_paths                                                                *)

\* phases_by_input[world]: the phases from a world, in the package's order
PhasesByInput(p, world) ==
    LET from == {k \in 1..Len(p.phases) : p.phases[k].input = world}
        Rank(k) == Cardinality({j \in from : j <= k})
    IN  [i \in 1..Cardinality(from) |-> p.phases[CHOOSE k \in from : Rank(k) = i]]

\* the world of the innermost call, and its candidates
World == IF dfs.path = <<>> THEN root.input ELSE Last(dfs.path).output
Candidates == PhasesByInput(package, World)
Candidate == Candidates[Last(dfs.next)]

Search(next, goto) ==
    /\ dfs' = next /\ at' = goto
    /\ UNCHANGED <<package, rootSpec, diagnostics, root, plan>>

\* dfs(world): world == output ends the path here
DfsFoundFirst ==                                                \* mutant
    /\ at = "enter" /\ World = root.output
    /\ Search([dfs EXCEPT !.paths = Append(@, dfs.path)], "plan")
DfsFound ==
    /\ at = "enter" /\ World = root.output
    /\ Search([dfs EXCEPT !.paths = Append(@, dfs.path)], "return")
FirstIndex == 1
DfsOpen ==
    /\ at = "enter" /\ World # root.output
    /\ Search([dfs EXCEPT !.next = Append(@, FirstIndex)], "loop")

\* for i = 1, #candidates: a phase that the path has not taken
NextIndex == [dfs.next EXCEPT ![Len(dfs.next)] = @ + 1]
DfsDescend ==
    /\ at = "loop" /\ Last(dfs.next) <= Len(Candidates) /\ Candidate.id \notin dfs.seen
    /\ Search([dfs EXCEPT !.next = NextIndex, !.seen = @ \cup {Candidate.id},
                          !.path = Append(@, Candidate)], "enter")
DfsSkipSame ==                                                  \* mutant
    /\ at = "loop" /\ Last(dfs.next) <= Len(Candidates) /\ Candidate.id \in dfs.seen
    /\ Search(dfs, "loop")
DfsSkip ==
    /\ at = "loop" /\ Last(dfs.next) <= Len(Candidates) /\ Candidate.id \in dfs.seen
    /\ Search([dfs EXCEPT !.next = NextIndex], "loop")
DfsExhausted ==
    /\ at = "loop" /\ Last(dfs.next) > Len(Candidates)
    /\ Search([dfs EXCEPT !.next = Front(@)], "return")

\* path[#path] = nil; seen_phase[pid] = nil
PathUndone == [dfs EXCEPT !.path = Front(@)]                    \* mutant
Undone == [dfs EXCEPT !.path = Front(@), !.seen = @ \ {Last(dfs.path).id}]
DfsReturn ==
    /\ at = "return"
    /\ \/ dfs.path # <<>> /\ Search(Undone, "loop")
       \/ dfs.path = <<>> /\ Search(dfs, "plan")

-----------------------------------------------------------------------------
(* plan_package, with the paths                                              *)

\* build_maps: of the machines with an id, the last
MachineOf(phase) ==
    LET ks == {k \in 1..Len(package.machines) : package.machines[k].id = phase.machine} IN
    IF ks = {} THEN Nil
    ELSE package.machines[CHOOSE k \in ks : \A j \in ks : j <= k]

Step(phase) == [phase |-> phase.id, machine |-> MachineOf(phase),
                input |-> phase.input, output |-> phase.output, diagnostics |-> phase.diagnostics]

Plan ==
    /\ at = "plan"
    /\ \/ dfs.paths = <<>> /\ Refuse("E_NO_PHASE_PATH")
       \/ Len(dfs.paths) > 1 /\ Refuse("E_AMBIGUOUS_PHASE_PATH")
       \/ /\ Len(dfs.paths) = 1
          /\ LET path == dfs.paths[1] IN
             IF \E k \in 1..Len(path) : MachineOf(path[k]) = Nil
             THEN at' = "raised" /\ plan' = plan   \* machine.id of nil
             ELSE at' = "done" /\ plan' = [k \in 1..Len(path) |-> Step(path[k])]
          /\ UNCHANGED <<package, rootSpec, diagnostics, root, dfs>>

Init ==
    /\ package \in Packages /\ rootSpec \in RootSpecs \cup {Nil}
    /\ at = "validate" /\ diagnostics = {} /\ root = Nil /\ dfs = NoSearch /\ plan = Nil

Next ==
    \/ Validate \/ SelectRoot \/ Plan
    \/ DfsFound \/ DfsOpen \/ DfsDescend \/ DfsSkip \/ DfsExhausted \/ DfsReturn

Spec == Init /\ [][Next]_vars /\ WF_vars(Next)

-----------------------------------------------------------------------------
(* Properties                                                                *)

\* seq is a way through phases, no phase twice, each from where the one before
\* it led, beginning at `from`.
IsWalk(seq, from) ==
    /\ \A k \in 1..Len(seq) : seq[k].input = IF k = 1 THEN from ELSE seq[k - 1].output
    /\ \A j, k \in 1..Len(seq) : seq[j].id = seq[k].id => j = k

\* However far the search has gone forth and back, the seen phases are those of
\* the path, and the path is a walk from the root that has not passed the
\* output world before its end; there is a loop index for every open call.
SearchIsOnPath ==
    /\ dfs.seen = Ids(dfs.path)
    /\ dfs.path # <<>> =>
          /\ IsWalk(dfs.path, root.input)
          /\ root.input # root.output
          /\ \A k \in 1..Len(dfs.path) - 1 : dfs.path[k].output # root.output
    /\ Len(dfs.next) = Len(dfs.path) + (IF at = "loop" THEN 1 ELSE 0)

\* REFERENCE: every walk over distinct phases from one world to another that
\* ends as soon as it is there, written without a search.
Walks(p, from, to) ==
    LET phases == Elements(p.phases) IN
    {w \in UNION {[1..n -> phases] : n \in 0..Len(p.phases)} :
        /\ IsWalk(w, from)
        /\ from = to => w = <<>>
        /\ from # to => /\ w # <<>> /\ Last(w).output = to
                        /\ \A k \in 1..Len(w) - 1 : w[k].output # to}

\* When the search is over it has found each of those walks, once.
SearchIsComplete ==
    at = "plan" =>
        /\ Elements(dfs.paths) = Walks(package, root.input, root.output)
        /\ \A j, k \in 1..Len(dfs.paths) : dfs.paths[j] = dfs.paths[k] => j = k

\* What validation lets through can be planned: no phase is without its machine
\* when the planner indexes it, and the plan leads, machine by machine, from the
\* root's input world to its output world.
PlanConnects ==
    /\ at # "raised"
    /\ plan # Nil =>
           /\ \A k \in 1..Len(plan) :
                  /\ plan[k].machine.input = plan[k].input
                  /\ plan[k].machine.output = plan[k].output
                  /\ plan[k].machine.diagnostics = plan[k].diagnostics
                  /\ plan[k].input = IF k = 1 THEN root.input ELSE plan[k - 1].output
           /\ root.output = IF plan = <<>> THEN root.input ELSE Last(plan).output

\* The planner ends, with a plan or with a diagnostic that says why not.
Answers == <>(at = "done" /\ (plan = Nil <=> diagnostics # {}))

\* "The planner selects exactly one simple path through the phase graph"
\* (phase_plan.lua:4): when there is exactly one path from the root's input to
\* its output that passes no world twice, that path is the plan.
PassesOnce(w, from) ==
    \A j, k \in 1..Len(w) : w[j].output # from /\ (w[j].output = w[k].output => j = k)
SelectsTheSimplePath ==
    at = "done" /\ root # Nil =>
        LET simple == {w \in Walks(package, root.input, root.output) : PassesOnce(w, root.input)} IN
        Cardinality(simple) = 1 =>
            \E w \in simple : plan # Nil /\ Len(plan) = Len(w)
                              /\ \A k \in 1..Len(w) : plan[k].phase = w[k].id
=============================================================================
