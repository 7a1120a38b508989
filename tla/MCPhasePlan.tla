---------------------------- MODULE MCPhasePlan ----------------------------
(* Small packages for PhasePlan.                                            *)
EXTENDS PhasePlan, TLC

CONSTANTS a, b, c, r, r2

World3 == <<[id |-> a], [id |-> b], [id |-> c]>>
Machine(id, from, to) == [id |-> id, input |-> from, output |-> to, diagnostics |-> Nil, impl |-> "lua"]
Phase(id, from, to) ==
    [id |-> id, input |-> from, output |-> to, diagnostics |-> Nil, machine |-> id]
Root(id, from, to) == [id |-> id, input |-> from, output |-> to]
Package(worlds, machines, phases, roots) ==
    [worlds |-> worlds, machines |-> machines, phases |-> phases, roots |-> roots]

\* every graph of up to three phases over three worlds: parallel phases, loops,
\* back edges, unreachable and missing outputs, and a root that asks for nothing
Graph(edges, to) ==
    LET n == Len(edges) IN
    Package(World3, [k \in 1..n |-> Machine(k, edges[k][1], edges[k][2])],
            [k \in 1..n |-> Phase(k, edges[k][1], edges[k][2])], <<Root(r, a, to)>>)
Graphs3 ==
    {Graph(edges, to) : edges \in UNION {[1..n -> {a, b, c} \X {a, b, c}] : n \in 0..3}, to \in {a, c}}

\* a package of one phase and up to two machines, with whatever may be wrong:
\* ids declared twice, worlds and machines that are not there, other worlds
World2 == {<<[id |-> a]>>, <<[id |-> a], [id |-> b]>>, <<[id |-> b], [id |-> b]>>}
Machines2 ==
    {Machine(id, from, to) : id \in {1, 2}, from \in {a, b}, to \in {a, b}}
    \cup {[Machine(1, a, b) EXCEPT !.diagnostics = b], [Machine(1, a, b) EXCEPT !.impl = Nil]}
Flawed ==
    {Package(worlds, machines, <<phase>>, roots) :
        worlds \in World2,
        machines \in UNION {[1..n -> Machines2] : n \in 0..2},
        phase \in {Phase(1, from, to) : from \in {a, b}, to \in {a, b}},
        roots \in {<<>>, <<Root(r, a, b)>>, <<Root(r, a, b), Root(r2, a, a)>>,
                   <<Root(r, a, b), Root(r, a, a)>>}}

\* both
AllPackages == Graphs3 \cup Flawed

\* a way there, a way back, and the direct way
BackEdge == {Graph(<<<<a, b>>, <<b, a>>, <<a, c>>>>, c), Graph(<<<<a, c>>>>, c)}
=============================================================================
