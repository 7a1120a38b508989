---------------------------- MODULE MluiProgram ----------------------------
(***************************************************************************)
(* The rows a host hands to the MLUI kernel: an authored program is an     *)
(* array of nodes, an array of child indices and an array of style tokens, *)
(* the nodes naming ranges of the other two.  ValidateProgram is the       *)
(* kernel's validator.  Colours, sizes, text and paint are left out; of a  *)
(* node's style only `drawn` is kept, whether the node puts a box, text or *)
(* hit operation over the origin of the window.                            *)
(***************************************************************************)
EXTENDS Integers, FiniteSets

CONSTANT U32    \* the range of a 32-bit count, scaled down for TLC

ASSUME U32Assumption == U32 \in Nat \ {0}

Containers == {"FRAGMENT", "BOX"}
Leaves     == {"EMPTY", "TEXT", "TEXT_REF", "PAINT"}
Wrappers   == {"SCROLL", "WITH_INPUT", "WITH_DRAG_SOURCE", "WITH_DROP_TARGET",
               "WITH_DROP_SLOT", "WITH_STATE", "FOCUS_SCOPE", "LAYER",
               "OVERLAY", "MODAL"}
AuthKinds  == Containers \cup Leaves \cup Wrappers

Roles == {"PASSIVE", "HIT_TARGET", "FOCUS_TARGET", "ACTIVATE_TARGET", "EDIT_TARGET"}

\* The statuses that the calls modelled here can answer.
StatusCodes == {"OK", "OOM", "DUPLICATE_ID", "INVALID_ID", "UNSUPPORTED_NODE",
                "MISSING_NODE", "INVALID_HEADER", "INVALID_OPCODE",
                "INVALID_RANGE", "INVALID_ARITY"}

\* mlui_program_op: what a node row says to the validator and the phases.
Node == [id: Nat, kind: AuthKinds \cup {"INVALID"}, role: Roles, drawn: BOOLEAN,
         first_child: Nat, n_child: Nat, token_first: Nat, token_count: Nat]

\* What xcalloc and memset leave in a row.
ZeroNode == [id |-> 0, kind |-> "INVALID", role |-> "PASSIVE", drawn |-> TRUE,
             first_child |-> 0, n_child |-> 0, token_first |-> 0, token_count |-> 0]

\* A program: a well-formed header or not, the root index, and the three
\* arrays, numbered from 0 as in C.
MakeProgram(header, nodes, children, n_token) ==
    [header |-> header, root_index |-> 0, n_node |-> Cardinality(DOMAIN nodes),
     nodes |-> nodes, n_child |-> Cardinality(DOMAIN children),
     children |-> children, n_token |-> n_token]

---------------------------------------------------------------------------
(* The validator.                                                          *)

\* first + count is computed in 32 bits before it is compared.
RangeFits(first, count, length) ==
    count > 0 => first < length /\ (first + count) % U32 <= length

NodeStatus(p, i) ==
    LET node == p.nodes[i]
        arity == \/ node.kind \in Wrappers /\ node.n_child # 1
                 \/ node.kind \in Leaves /\ node.n_child # 0
        range == /\ RangeFits(node.first_child, node.n_child, p.n_child)
                 /\ RangeFits(node.token_first, node.token_count, p.n_token)
    IN  CASE node.kind \notin AuthKinds -> "INVALID_OPCODE"
          [] node.kind \in AuthKinds /\ arity -> "INVALID_ARITY"
          [] node.kind \in AuthKinds /\ ~arity /\ ~range -> "INVALID_RANGE"
          [] OTHER -> "OK"

BadNodes(p) == {i \in 0 .. p.n_node - 1 : NodeStatus(p, i) # "OK"}

\* Nodes that repeat the identity of an earlier one; 0 is no identity.
Duplicates(p) ==
    {i \in 0 .. p.n_node - 1 :
        /\ p.nodes[i].id # 0
        /\ \E j \in 0 .. i - 1 : p.nodes[j].id = p.nodes[i].id}

FirstOf(S) == CHOOSE i \in S : \A j \in S : i <= j

ValidateProgram(p) ==
    CASE ~p.header -> "INVALID_HEADER"
      [] p.header /\ p.root_index >= p.n_node -> "INVALID_RANGE"
      [] p.header /\ p.root_index < p.n_node /\ BadNodes(p) # {} ->
            NodeStatus(p, FirstOf(BadNodes(p)))
      [] p.header /\ p.root_index < p.n_node /\ BadNodes(p) = {} /\ Duplicates(p) # {} ->
            "DUPLICATE_ID"
      [] OTHER -> "OK"

---------------------------------------------------------------------------
(* What the frame phases make of a loaded program.                         *)

Bracketed == {"SCROLL", "FOCUS_SCOPE", "LAYER", "OVERLAY", "MODAL"}
Marked    == {"WITH_DRAG_SOURCE", "WITH_DROP_TARGET", "WITH_DROP_SLOT"}

\* Operations one node adds to the view: its box, its hit area, and the
\* wrapper's mark or opening and closing pair.
OpsOf(node) ==
    1 + (IF node.role # "PASSIVE" THEN 1 ELSE 0)
      + (IF node.kind \in Bracketed THEN 2 ELSE 0)
      + (IF node.kind \in Marked THEN 1 ELSE 0)

\* view.n after each node of the linear pass.
ViewCount(p) ==
    LET upTo[i \in 0 .. p.n_node] ==
            IF i = 0 THEN 0 ELSE upTo[i - 1] + OpsOf(p.nodes[i - 1])
    IN  upTo[p.n_node]

\* The report tests every drawn operation against the origin and the last one
\* wins; no operation leaves 0.
HoverOf(p) ==
    LET seen == {i \in 0 .. p.n_node - 1 : p.nodes[i].drawn}
    IN  IF seen = {} THEN 0
        ELSE p.nodes[CHOOSE i \in seen : \A j \in seen : j <= i].id

=============================================================================
