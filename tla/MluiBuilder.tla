---------------------------- MODULE MluiBuilder ----------------------------
(***************************************************************************)
(* The four program builders of bench_mlui_layout.c, as the loops they     *)
(* are: StartBuild allocates the arrays and writes what precedes the loop, *)
(* BuildStep is one round of it, Finish is finish_program.  The module's   *)
(* specification builds one program of any shape and size.                 *)
(***************************************************************************)
EXTENDS MluiProgram

CONSTANTS
    Shapes,     \* shapes built, a subset of {"CHAIN", "FLAT", "BALANCED", "INTERACTIVE"}
    Sizes,      \* node counts asked for
    WrapperId,  \* identity of the first wrapper of an interactive program
    LeafId      \* identity of its first leaf

ASSUME BuilderAssumption ==
    /\ Shapes \subseteq {"CHAIN", "FLAT", "BALANCED", "INTERACTIVE"}
    /\ Sizes \subseteq Nat
    /\ WrapperId \in Nat /\ LeafId \in Nat /\ 1 < WrapperId /\ WrapperId < LeafId

\* No size makes a 32-bit field of a row wrap.
ASSUME SizesFit ==
    \A n \in Sizes : 7 * (n + 3) < U32 /\ 3000 + n < U32 /\ LeafId + n < U32

VARIABLE build   \* the program being built, with the loop's counters

TokensPerNode(shape) == IF shape = "INTERACTIVE" THEN 7 ELSE 2

PairCount(n) == (n - 1) \div 2

\* The clamped node count and the lengths of the arrays that are allocated.
NodeCap(shape, n) ==
    CASE shape = "FLAT" -> IF n < 2 THEN 2 ELSE n
      [] shape = "INTERACTIVE" -> 1 + 2 * PairCount(IF n < 3 THEN 3 ELSE n)
      [] OTHER -> IF n = 0 THEN 1 ELSE n

Rounds(shape, cap) ==
    CASE shape = "FLAT" -> cap - 1
      [] shape = "INTERACTIVE" -> PairCount(cap)
      [] OTHER -> cap

TokenCap(shape, cap) ==
    TokensPerNode(shape) * Rounds(shape, cap)

\* set_node_base: every other field of the row is zero.
NodeBase(id, kind, token_first, token_count) ==
    [ZeroNode EXCEPT !.id = id, !.kind = kind,
                     !.token_first = token_first, !.token_count = token_count]

\* What stands before the loop: the flat and the interactive shapes have a
\* fragment as their root.
FirstNode(shape, cap) ==
    IF shape \in {"FLAT", "INTERACTIVE"}
    THEN [NodeBase(1, "FRAGMENT", 0, 0) EXCEPT !.n_child = Rounds(shape, cap)]
    ELSE ZeroNode

StartBuild(shape, n) ==
    LET cap == NodeCap(shape, n)
    IN  [shape |-> shape, i |-> 0, child_write |-> 0, n_node |-> cap,
         nodes |-> [j \in 0 .. cap - 1 |-> IF j = 0 THEN FirstNode(shape, cap) ELSE ZeroNode],
         children |-> [c \in 0 .. cap - 2 |-> 0]]

---------------------------------------------------------------------------
(* One round of each loop.                                                 *)

ChainStep(b) ==
    LET i == b.i
        node == NodeBase(1000 + i, "BOX", 2 * i, 2)
    IN  IF i + 1 < b.n_node
        THEN [b EXCEPT !.i = i + 1,
                       !.nodes[i] = [node EXCEPT !.first_child = i, !.n_child = 1],
                       !.children[i] = i + 1]
        ELSE [b EXCEPT !.i = i + 1, !.nodes[i] = node]

FlatShifted(b) ==                                               \* mutant
    [b EXCEPT !.i = @ + 1, !.children[b.i] = b.i,
              !.nodes[b.i + 1] = NodeBase(2000 + b.i, "BOX", 2 * b.i, 2)]
FlatStep(b) ==
    LET i == b.i
    IN  [b EXCEPT !.i = i + 1,
                  !.nodes[i + 1] = NodeBase(2000 + i, "BOX", 2 * i, 2),
                  !.children[i] = i + 1]

\* Children are written where the last node's stopped.
BalancedStep(b) ==
    LET i == b.i
        left == 2 * i + 1
        count == (IF left < b.n_node THEN 1 ELSE 0) + (IF left + 1 < b.n_node THEN 1 ELSE 0)
        w == b.child_write
    IN  [b EXCEPT !.i = i + 1,
                  !.child_write = w + count,
                  !.nodes[i] = [NodeBase(3000 + i, "BOX", 2 * i, 2)
                                  EXCEPT !.first_child = w, !.n_child = count],
                  !.children = [c \in DOMAIN b.children |->
                                  IF c = w /\ count > 0 THEN left
                                  ELSE IF c = w + 1 /\ count > 1 THEN left + 1
                                  ELSE b.children[c]]]

WrapperKind(i) ==
    CASE i % 8 = 1 -> "SCROLL"
      [] i % 8 = 2 -> "FOCUS_SCOPE"
      [] i % 8 = 3 -> "LAYER"
      [] i % 8 = 4 -> "OVERLAY"
      [] i % 8 = 5 -> "MODAL"
      [] i % 8 = 6 -> "WITH_DRAG_SOURCE"
      [] i % 8 = 7 -> "WITH_DROP_TARGET"
      [] OTHER -> "WITH_INPUT"

\* A wrapper and its leaf: wrappers first in the child array, leaves after.
InteractiveStep(b) ==
    LET i == b.i
        pairs == Rounds("INTERACTIVE", b.n_node)
        wrapper == 1 + 2 * i
        leaf == wrapper + 1
        role == IF i % 2 = 1 THEN "FOCUS_TARGET" ELSE "ACTIVATE_TARGET"
    IN  [b EXCEPT !.i = i + 1,
                  !.child_write = @ + 1,
                  !.nodes = [j \in DOMAIN b.nodes |->
                               IF j = wrapper
                               THEN [NodeBase(WrapperId + i, WrapperKind(i), 0, 0)
                                       EXCEPT !.first_child = pairs + i, !.n_child = 1,
                                              !.role = role]
                               ELSE IF j = leaf THEN NodeBase(LeafId + i, "BOX", 7 * i, 7)
                               ELSE b.nodes[j]],
                  !.children = [c \in DOMAIN b.children |->
                                  IF c = b.child_write THEN wrapper
                                  ELSE IF c = pairs + i THEN leaf
                                  ELSE b.children[c]]]

Finished(b) == b.i >= Rounds(b.shape, b.n_node)

BuildStep(b) ==
    CASE b.shape = "CHAIN" -> ChainStep(b)
      [] b.shape = "FLAT" -> FlatStep(b)
      [] b.shape = "BALANCED" -> BalancedStep(b)
      [] OTHER -> InteractiveStep(b)

\* finish_program: a valid header, root index 0, and the lengths of the arrays.
\* The balanced builder counts its children as it writes them.
ChildCount(b) == IF b.shape = "BALANCED" THEN b.child_write ELSE b.n_node - 1

Finish(b) ==
    MakeProgram(TRUE, b.nodes, [c \in 0 .. ChildCount(b) - 1 |-> b.children[c]],
                TokenCap(b.shape, b.n_node))

---------------------------------------------------------------------------
(* The specification of one build.                                         *)

BuildInit == \E shape \in Shapes, n \in Sizes : build = StartBuild(shape, n)

BuildNext == ~Finished(build) /\ build' = BuildStep(build)

BuildSpec == BuildInit /\ [][BuildNext]_build

---------------------------------------------------------------------------
(* What a finished program must be.                                        *)

\* The identities of an interactive program's wrappers end where its leaves'
\* begin: more pairs than that and a wrapper takes the identity of a leaf.
IdsFit(b) ==
    b.shape = "INTERACTIVE" => Rounds(b.shape, b.n_node) <= LeafId - WrapperId

\* Every node but the root is the child of exactly one earlier node.
IsTree(p) ==
    \A j \in 1 .. p.n_node - 1 :
        \E i \in 0 .. j - 1, c \in 0 .. p.n_child - 1 :
            /\ p.children[c] = j
            /\ \A k \in 0 .. p.n_node - 1 :
                 (p.nodes[k].first_child <= c /\ c < p.nodes[k].first_child + p.nodes[k].n_child)
                    <=> k = i
            /\ \A d \in 0 .. p.n_child - 1 : p.children[d] = j => d = c

\* Whatever the shape and the size, the program that is built is a tree rooted
\* at node 0, and the validator accepts it exactly when the identities of its
\* shape do not collide.
BuildsTrees ==
    Finished(build) => LET p == Finish(build)
                       IN  IsTree(p) /\ (ValidateProgram(p) = "OK" <=> IdsFit(build))

=============================================================================
