----------------------------- MODULE MluiProofs -----------------------------
(* Of the benchmark's builders: the program that each loop builds, in closed *)
(* form, and that it is a tree the validator accepts, for every shape and    *)
(* every size whose fields fit 32 bits.  Of the kernel: what each call does  *)
(* to the buffers, for any program and any refusal of the allocator, and     *)
(* from that what a host may rely on between its calls.  Of the benchmark:   *)
(* from both, that its averages are exact and its exit statuses true.        *)
EXTENDS MluiBench, MluiClient, FiniteSetTheorems, NaturalsInduction,
        WellFoundedInduction, TLAPS

Keys == {"shape", "i", "child_write", "n_node", "nodes", "children"}

\* What the properties read of a row.
Row(r, id, kind, role, first_child, n_child, token_first, token_count) ==
    /\ r.id = id /\ r.kind = kind /\ r.role = role /\ r.drawn
    /\ r.first_child = first_child /\ r.n_child = n_child
    /\ r.token_first = token_first /\ r.token_count = token_count

\* The counters are within the arrays that were allocated.
Shaped(b) ==
    /\ DOMAIN b = Keys
    /\ b.shape \in {"CHAIN", "FLAT", "BALANCED", "INTERACTIVE"}
    /\ b.n_node \in Nat \ {0} /\ 7 * b.n_node < U32
    /\ b.i \in Nat /\ b.i <= Rounds(b.shape, b.n_node)
    /\ b.child_write \in Nat
    /\ DOMAIN b.nodes = 0 .. b.n_node - 1
    /\ DOMAIN b.children = 0 .. b.n_node - 2
    /\ b.shape = "FLAT" => b.n_node >= 2
    /\ b.shape = "INTERACTIVE" => b.n_node >= 3 /\ b.n_node = 1 + 2 * PairCount(b.n_node)

---------------------------------------------------------------------------
(* The rows and children that stand after b.i rounds.                        *)

ChainInv(b) ==
    \A j \in 0 .. b.i - 1 :
        /\ j + 1 < b.n_node =>
              Row(b.nodes[j], 1000 + j, "BOX", "PASSIVE", j, 1, 2 * j, 2) /\ b.children[j] = j + 1
        /\ j + 1 = b.n_node => Row(b.nodes[j], 1000 + j, "BOX", "PASSIVE", 0, 0, 2 * j, 2)

FlatInv(b) ==
    /\ Row(b.nodes[0], 1, "FRAGMENT", "PASSIVE", 0, b.n_node - 1, 0, 0)
    /\ \A c \in 0 .. b.i - 1 :
          Row(b.nodes[c + 1], 2000 + c, "BOX", "PASSIVE", 0, 0, 2 * c, 2) /\ b.children[c] = c + 1

\* The children that the first j nodes of a balanced tree have.
Before(j, n) == IF 2 * j <= n - 1 THEN 2 * j ELSE n - 1

BalancedInv(b) ==
    /\ b.child_write = Before(b.i, b.n_node)
    /\ \A j \in 0 .. b.i - 1 :
          Row(b.nodes[j], 3000 + j, "BOX", "PASSIVE", Before(j, b.n_node),
              Before(j + 1, b.n_node) - Before(j, b.n_node), 2 * j, 2)
    /\ \A c \in 0 .. b.child_write - 1 : b.children[c] = c + 1

WrapperRole(d) == IF d % 2 = 1 THEN "FOCUS_TARGET" ELSE "ACTIVATE_TARGET"

InteractiveInv(b) ==
    LET pairs == PairCount(b.n_node)
    IN  /\ b.child_write = b.i
        /\ Row(b.nodes[0], 1, "FRAGMENT", "PASSIVE", 0, pairs, 0, 0)
        /\ \A d \in 0 .. b.i - 1 :
              /\ Row(b.nodes[1 + 2 * d], WrapperId + d, WrapperKind(d), WrapperRole(d), pairs + d, 1, 0, 0)
              /\ Row(b.nodes[2 + 2 * d], LeafId + d, "BOX", "PASSIVE", 0, 0, 7 * d, 7)
              /\ b.children[d] = 1 + 2 * d
              /\ b.children[pairs + d] = 2 + 2 * d

Building(b) ==
    /\ Shaped(b)
    /\ b.shape = "CHAIN" => ChainInv(b)
    /\ b.shape = "FLAT" => FlatInv(b)
    /\ b.shape = "BALANCED" => BalancedInv(b)
    /\ b.shape = "INTERACTIVE" => InteractiveInv(b)

\* The inductive invariant.
BuildInv == Building(build)

---------------------------------------------------------------------------
(* Rows.                                                                     *)

LEMMA BaseRow ==
    ASSUME NEW id, NEW kind, NEW token_first, NEW token_count
    PROVE  Row(NodeBase(id, kind, token_first, token_count),
               id, kind, "PASSIVE", 0, 0, token_first, token_count)
BY DEF Row, NodeBase, ZeroNode

---------------------------------------------------------------------------
(* The start of a build.                                                     *)

LEMMA StartInv ==
    ASSUME NEW shape \in {"CHAIN", "FLAT", "BALANCED", "INTERACTIVE"},
           NEW n \in Nat, 7 * (n + 3) < U32,
           NEW b, b = StartBuild(shape, n)
    PROVE  Building(b) /\ b.shape = shape /\ b.n_node = NodeCap(shape, n)
<1>2. /\ shape \in {"CHAIN", "FLAT", "BALANCED", "INTERACTIVE"}
      /\ n \in Nat /\ 7 * (n + 3) < U32
  OBVIOUS
<1> DEFINE cap == NodeCap(shape, n)
<1>3. /\ cap \in Nat \ {0} /\ cap <= n + 3
      /\ shape = "FLAT" => cap >= 2
      /\ shape = "INTERACTIVE" => cap >= 3 /\ cap = 1 + 2 * PairCount(cap)
  <2>1. CASE shape = "FLAT"
    BY <1>2, <2>1 DEF NodeCap
  <2>2. CASE shape \in {"CHAIN", "BALANCED"}
    BY <1>2, <2>2 DEF NodeCap
  <2>3. CASE shape = "INTERACTIVE"
    <3> DEFINE m == IF n < 3 THEN 3 ELSE n
               p == PairCount(m)
    <3>1. m \in Nat /\ m >= 3 /\ m <= n + 3
      BY <1>2
    <3>2. cap = 1 + 2 * p
      <4> HIDE DEF m
      <4>1. NodeCap(shape, n) = 1 + 2 * PairCount(IF n < 3 THEN 3 ELSE n)
        BY <2>3, Zenon DEF NodeCap
      <4> QED
        BY <4>1, Zenon DEF m
    <3> HIDE DEF m
    <3>4. p \in Nat /\ p >= 1 /\ 2 * p <= n + 2
      BY <1>2, <3>1 DEF PairCount
    <3> HIDE DEF p, cap
    <3>3. PairCount(cap) = p
      BY <3>2, <3>4 DEF PairCount
    <3> QED
      BY <1>2, <2>3, <3>2, <3>3, <3>4
  <2> QED
    BY <1>2, <2>1, <2>2, <2>3
<1>4. Rounds(shape, cap) \in Nat
  BY <1>2, <1>3 DEF Rounds, PairCount
<1> HIDE DEF cap
<1>5. /\ b.shape = shape /\ b.i = 0 /\ b.child_write = 0 /\ b.n_node = cap
      /\ b.nodes = [j \in 0 .. cap - 1 |-> IF j = 0 THEN FirstNode(shape, cap) ELSE ZeroNode]
      /\ b.children = [c \in 0 .. cap - 2 |-> 0]
  BY DEF StartBuild, cap
<1>14. DOMAIN b = Keys
  BY DEF StartBuild, Keys
<1>6. 7 * cap < U32
  BY <1>2, <1>3, U32Assumption
<1>7. Shaped(b)
  BY <1>2, <1>3, <1>4, <1>5, <1>6, <1>14 DEF Shaped
<1>8. b.nodes[0] = FirstNode(shape, cap)
  BY <1>3, <1>5
<1>9. shape \in {"FLAT", "INTERACTIVE"} =>
        Row(b.nodes[0], 1, "FRAGMENT", "PASSIVE", 0, Rounds(shape, cap), 0, 0)
  BY <1>8 DEF FirstNode, Row, NodeBase, ZeroNode
<1>10. shape = "CHAIN" => ChainInv(b)
  BY <1>5 DEF ChainInv
<1>11. shape = "FLAT" => FlatInv(b)
  BY <1>5, <1>9 DEF FlatInv, Rounds
<1>12. shape = "BALANCED" => BalancedInv(b)
  BY <1>3, <1>5 DEF BalancedInv, Before
<1>13. shape = "INTERACTIVE" => InteractiveInv(b)
  BY <1>5, <1>9 DEF InteractiveInv, Rounds
<1> QED
  BY <1>5, <1>7, <1>10, <1>11, <1>12, <1>13 DEF Building, cap

---------------------------------------------------------------------------
(* One round.                                                                *)

\* A round writes the fields that it changes.
LEMMA Updated ==
    ASSUME NEW b, DOMAIN b = Keys, NEW i, NEW k, NEW row, NEW c, NEW x
    PROVE  LET q == [b EXCEPT !.i = i, !.nodes[k] = row, !.children[c] = x]
           IN  /\ DOMAIN q = Keys /\ q.shape = b.shape /\ q.n_node = b.n_node
               /\ q.i = i /\ q.child_write = b.child_write
               /\ q.nodes = [b.nodes EXCEPT ![k] = row]
               /\ q.children = [b.children EXCEPT ![c] = x]
<1> DEFINE N == [b.nodes EXCEPT ![k] = row]
           C == [b.children EXCEPT ![c] = x]
           q1 == [b EXCEPT !.i = i]
           q2 == [q1 EXCEPT !.nodes[k] = row]
           q3 == [q2 EXCEPT !.children[c] = x]
<1>1. /\ DOMAIN q1 = Keys /\ q1.shape = b.shape /\ q1.n_node = b.n_node /\ q1.i = i
      /\ q1.child_write = b.child_write /\ q1.nodes = b.nodes /\ q1.children = b.children
  BY DEF Keys
<1> HIDE DEF q1
<1>2. /\ DOMAIN q2 = Keys /\ q2.shape = b.shape /\ q2.n_node = b.n_node /\ q2.i = i
      /\ q2.child_write = b.child_write /\ q2.nodes = N /\ q2.children = b.children
  BY <1>1 DEF Keys
<1> HIDE DEF q2
<1>3. /\ DOMAIN q3 = Keys /\ q3.shape = b.shape /\ q3.n_node = b.n_node /\ q3.i = i
      /\ q3.child_write = b.child_write /\ q3.nodes = N /\ q3.children = C
  BY <1>2 DEF Keys
<1> QED
  BY <1>3 DEF q1, q2, q3

LEMMA ChainKeeps ==
    ASSUME NEW b, Shaped(b), b.shape = "CHAIN", ChainInv(b), ~Finished(b)
    PROVE  Shaped(ChainStep(b)) /\ ChainStep(b).shape = "CHAIN" /\ ChainInv(ChainStep(b))
<1> DEFINE i == b.i
           n == b.n_node
           q == ChainStep(b)
           node == NodeBase(1000 + i, "BOX", 2 * i, 2)
           parent == [node EXCEPT !.first_child = i, !.n_child = 1]
           row == IF i + 1 < n THEN parent ELSE node
<1>1. /\ i \in Nat /\ n \in Nat \ {0} /\ i < n /\ DOMAIN b = Keys
      /\ DOMAIN b.nodes = 0 .. n - 1 /\ DOMAIN b.children = 0 .. n - 2
      /\ b.child_write \in Nat
  BY DEF Shaped, Finished, Rounds
<1>2. /\ Row(node, 1000 + i, "BOX", "PASSIVE", 0, 0, 2 * i, 2)
      /\ Row(parent, 1000 + i, "BOX", "PASSIVE", i, 1, 2 * i, 2)
  BY DEF Row, NodeBase, ZeroNode
<1> HIDE DEF node, parent
<1>3. /\ DOMAIN q = Keys /\ q.shape = b.shape /\ q.n_node = n /\ q.i = i + 1
      /\ q.child_write = b.child_write
      /\ q.nodes = [b.nodes EXCEPT ![i] = row]
      /\ i + 1 < n => q.children = [b.children EXCEPT ![i] = i + 1]
      /\ i + 1 >= n => q.children = b.children
  <2>1. CASE i + 1 < n
    <3>1. q = [b EXCEPT !.i = i + 1, !.nodes[i] = parent, !.children[i] = i + 1]
      BY <2>1 DEF ChainStep, parent, node
    <3> QED
      BY <1>1, <2>1, <3>1, Updated
  <2>2. CASE ~(i + 1 < n)
    <3>1. q = [b EXCEPT !.i = i + 1, !.nodes[i] = node]
      BY <2>2 DEF ChainStep, node
    <3> DEFINE q1 == [b EXCEPT !.i = i + 1]
    <3>2. /\ DOMAIN q1 = Keys /\ q1.shape = b.shape /\ q1.n_node = n /\ q1.i = i + 1
          /\ q1.child_write = b.child_write /\ q1.nodes = b.nodes /\ q1.children = b.children
      BY <1>1 DEF Keys
    <3>3. q = [q1 EXCEPT !.nodes[i] = node]
      BY <3>1
    <3> HIDE DEF q1, q
    <3> QED
      BY <1>1, <2>2, <3>2, <3>3 DEF Keys
  <2> QED
    BY <2>1, <2>2
<1> HIDE DEF q
<1>4. Shaped(q)
  BY <1>1, <1>3 DEF Shaped, Rounds
<1>5. ASSUME NEW j \in 0 .. q.i - 1
      PROVE  /\ j + 1 < q.n_node =>
                   Row(q.nodes[j], 1000 + j, "BOX", "PASSIVE", j, 1, 2 * j, 2) /\ q.children[j] = j + 1
             /\ j + 1 = q.n_node => Row(q.nodes[j], 1000 + j, "BOX", "PASSIVE", 0, 0, 2 * j, 2)
  <2>1. CASE j = i
    <3>1. q.nodes[j] = row
      BY <1>1, <1>3, <2>1
    <3>2. j + 1 < n => q.children[j] = j + 1
      BY <1>1, <1>3, <2>1
    <3> QED
      BY <1>1, <1>2, <1>3, <2>1, <3>1, <3>2
  <2>2. CASE j \in 0 .. i - 1
    <3>1. q.nodes[j] = b.nodes[j] /\ q.children[j] = b.children[j]
      BY <1>1, <1>3, <2>2
    <3> QED
      BY <1>3, <2>2, <3>1 DEF ChainInv
  <2> QED
    BY <1>1, <1>3, <2>1, <2>2
<1>6. ChainInv(q)
  BY <1>5 DEF ChainInv
<1> QED
  BY <1>3, <1>4, <1>6 DEF q

LEMMA FlatKeeps ==
    ASSUME NEW b, Shaped(b), b.shape = "FLAT", FlatInv(b), ~Finished(b)
    PROVE  Shaped(FlatStep(b)) /\ FlatStep(b).shape = "FLAT" /\ FlatInv(FlatStep(b))
<1> DEFINE i == b.i
           n == b.n_node
           q == FlatStep(b)
           row == NodeBase(2000 + i, "BOX", 2 * i, 2)
<1>1. /\ i \in Nat /\ n \in Nat \ {0} /\ i < n - 1 /\ DOMAIN b = Keys
      /\ DOMAIN b.nodes = 0 .. n - 1 /\ DOMAIN b.children = 0 .. n - 2
      /\ b.child_write \in Nat
  BY DEF Shaped, Finished, Rounds
<1>2. Row(row, 2000 + i, "BOX", "PASSIVE", 0, 0, 2 * i, 2)
  BY BaseRow
<1>3. q = [b EXCEPT !.i = i + 1, !.nodes[i + 1] = row, !.children[i] = i + 1]
  BY DEF FlatStep
<1> HIDE DEF q, row
<1>4. /\ DOMAIN q = Keys /\ q.shape = b.shape /\ q.n_node = n /\ q.i = i + 1
      /\ q.child_write = b.child_write
      /\ q.nodes = [b.nodes EXCEPT ![i + 1] = row]
      /\ q.children = [b.children EXCEPT ![i] = i + 1]
  BY <1>1, <1>3, Updated
<1>5. Shaped(q)
  BY <1>1, <1>4 DEF Shaped, Rounds
<1>6. q.nodes[0] = b.nodes[0]
  BY <1>1, <1>4
<1>7. ASSUME NEW c \in 0 .. q.i - 1
      PROVE  Row(q.nodes[c + 1], 2000 + c, "BOX", "PASSIVE", 0, 0, 2 * c, 2) /\ q.children[c] = c + 1
  <2>1. CASE c = i
    BY <1>1, <1>2, <1>4, <2>1
  <2>2. CASE c \in 0 .. i - 1
    <3>1. q.nodes[c + 1] = b.nodes[c + 1] /\ q.children[c] = b.children[c]
      BY <1>1, <1>4, <2>2
    <3> QED
      BY <2>2, <3>1 DEF FlatInv
  <2> QED
    BY <1>1, <1>4, <2>1, <2>2
<1>8. FlatInv(q)
  BY <1>4, <1>6, <1>7 DEF FlatInv
<1> QED
  BY <1>4, <1>5, <1>8 DEF q

LEMMA BalancedKeeps ==
    ASSUME NEW b, Shaped(b), b.shape = "BALANCED", BalancedInv(b), ~Finished(b)
    PROVE  Shaped(BalancedStep(b)) /\ BalancedStep(b).shape = "BALANCED"
           /\ BalancedInv(BalancedStep(b))
<1> DEFINE i == b.i
           n == b.n_node
           w == b.child_write
           left == 2 * i + 1
           many == (IF left < n THEN 1 ELSE 0) + (IF left + 1 < n THEN 1 ELSE 0)
           base == NodeBase(3000 + i, "BOX", 2 * i, 2)
           row == [base EXCEPT !.first_child = w, !.n_child = many]
           C == [c \in DOMAIN b.children |->
                    IF c = w /\ many > 0 THEN left
                    ELSE IF c = w + 1 /\ many > 1 THEN left + 1
                    ELSE b.children[c]]
           q == BalancedStep(b)
<1>1. /\ i \in Nat /\ n \in Nat \ {0} /\ i < n /\ DOMAIN b = Keys
      /\ DOMAIN b.nodes = 0 .. n - 1 /\ DOMAIN b.children = 0 .. n - 2
      /\ w = Before(i, n) /\ w \in Nat
  BY DEF Shaped, Finished, Rounds, BalancedInv
<1>2. Row(row, 3000 + i, "BOX", "PASSIVE", w, many, 2 * i, 2)
  <2> HIDE DEF many
  <2> QED
    BY DEF Row, NodeBase, ZeroNode
<1>3. q = [b EXCEPT !.i = i + 1, !.child_write = w + many, !.nodes[i] = row, !.children = C]
  BY DEF BalancedStep
<1>4. w + many = Before(i + 1, n) /\ many \in {0, 1, 2}
  <2>1. CASE left + 1 < n
    <3>1. many = 2 /\ 2 * i <= n - 1 /\ 2 * (i + 1) <= n - 1
      BY <1>1, <2>1
    <3> HIDE DEF many
    <3> QED
      BY <1>1, <3>1 DEF Before
  <2>2. CASE left + 1 = n
    <3>1. many = 1 /\ 2 * i <= n - 1 /\ ~(2 * (i + 1) <= n - 1) /\ n = 2 * i + 2
      BY <1>1, <2>2
    <3> HIDE DEF many
    <3> QED
      BY <1>1, <3>1 DEF Before
  <2>3. CASE left >= n
    <3>1. many = 0 /\ (2 * i <= n - 1 => 2 * i = n - 1) /\ ~(2 * (i + 1) <= n - 1)
      BY <1>1, <2>3
    <3> HIDE DEF many
    <3> QED
      BY <1>1, <3>1 DEF Before
  <2> HIDE DEF many
  <2> QED
    BY <1>1, <2>1, <2>2, <2>3
<1> HIDE DEF row, C, many, q
<1>5. /\ DOMAIN q = Keys /\ q.shape = b.shape /\ q.n_node = n /\ q.i = i + 1
      /\ q.child_write = w + many /\ q.nodes = [b.nodes EXCEPT ![i] = row]
      /\ q.children = C
  <2> DEFINE N == [b.nodes EXCEPT ![i] = row]
             q1 == [b EXCEPT !.i = i + 1]
             q2 == [q1 EXCEPT !.child_write = w + many]
             q3 == [q2 EXCEPT !.nodes[i] = row]
  <2>1. /\ DOMAIN q1 = Keys /\ q1.shape = b.shape /\ q1.n_node = n /\ q1.i = i + 1
        /\ q1.nodes = b.nodes
    BY <1>1 DEF Keys
  <2>4. q = [q3 EXCEPT !.children = C]
    BY <1>3
  <2> HIDE DEF q1
  <2>2. /\ DOMAIN q2 = Keys /\ q2.shape = b.shape /\ q2.n_node = n /\ q2.i = i + 1
        /\ q2.child_write = w + many /\ q2.nodes = b.nodes
    BY <2>1 DEF Keys
  <2> HIDE DEF q2
  <2>3. /\ DOMAIN q3 = Keys /\ q3.shape = b.shape /\ q3.n_node = n /\ q3.i = i + 1
        /\ q3.child_write = w + many /\ q3.nodes = N
    BY <2>2 DEF Keys
  <2> HIDE DEF q3
  <2> QED
    BY <2>3, <2>4 DEF Keys
<1>6. Shaped(q)
  <2>1. DOMAIN q.children = 0 .. n - 2 /\ DOMAIN q.nodes = 0 .. n - 1
    BY <1>1, <1>5 DEF C
  <2> QED
    BY <1>1, <1>4, <1>5, <2>1 DEF Shaped, Rounds
<1>7. ASSUME NEW j \in 0 .. q.i - 1
      PROVE  Row(q.nodes[j], 3000 + j, "BOX", "PASSIVE", Before(j, n),
                 Before(j + 1, n) - Before(j, n), 2 * j, 2)
  <2>1. CASE j = i
    <3>1. q.nodes[j] = row
      BY <1>1, <1>5, <2>1
    <3>2. many = Before(j + 1, n) - Before(j, n)
      BY <1>1, <1>4, <2>1
    <3> QED
      BY <1>1, <1>2, <2>1, <3>1, <3>2
  <2>2. CASE j \in 0 .. i - 1
    <3>1. q.nodes[j] = b.nodes[j]
      BY <1>1, <1>5, <2>2
    <3> QED
      BY <2>2, <3>1 DEF BalancedInv
  <2> QED
    BY <1>1, <1>5, <2>1, <2>2
<1>8. ASSUME NEW c \in 0 .. q.child_write - 1 PROVE q.children[c] = c + 1
  <2>6. w + many \in Nat /\ w + many <= n - 1
    BY <1>1, <1>4 DEF Before
  <2>1. c \in 0 .. n - 2 /\ c \in Nat /\ c < w + many
    BY <1>1, <1>5, <2>6
  <2>2. q.children[c] = IF c = w /\ many > 0 THEN left
                        ELSE IF c = w + 1 /\ many > 1 THEN left + 1
                        ELSE b.children[c]
    BY <1>1, <1>5, <2>1 DEF C
  <2>3. CASE c < w
    BY <1>1, <2>1, <2>2, <2>3 DEF BalancedInv
  <2>4. CASE c = w /\ many > 0
    <3>1. w = 2 * i
      BY <1>1, <2>4 DEF Before, many
    <3> QED
      BY <1>1, <2>2, <2>4, <3>1
  <2>5. CASE c = w + 1 /\ many > 1
    <3>1. w = 2 * i
      BY <1>1, <2>5 DEF Before, many
    <3> QED
      BY <1>1, <2>2, <2>5, <3>1
  <2> QED
    BY <1>1, <1>4, <2>1, <2>3, <2>4, <2>5
<1>9. BalancedInv(q)
  BY <1>4, <1>5, <1>7, <1>8 DEF BalancedInv
<1> QED
  BY <1>5, <1>6, <1>9 DEF q

\* Where the d-th of p pairs stands.
LEMMA PairBounds ==
    ASSUME NEW p \in Nat, NEW d \in Nat, d < p, NEW n, n = 1 + 2 * p
    PROVE  /\ 1 + 2 * d \in 0 .. n - 1 /\ 2 + 2 * d \in 0 .. n - 1
           /\ d \in 0 .. n - 2 /\ p + d \in 0 .. n - 2
OBVIOUS

LEMMA InteractiveKeeps ==
    ASSUME NEW b, Shaped(b), b.shape = "INTERACTIVE", InteractiveInv(b), ~Finished(b)
    PROVE  Shaped(InteractiveStep(b)) /\ InteractiveStep(b).shape = "INTERACTIVE"
           /\ InteractiveInv(InteractiveStep(b))
<1> DEFINE i == b.i
           n == b.n_node
           pairs == Rounds("INTERACTIVE", n)
           wrapper == 1 + 2 * i
           leaf == wrapper + 1
           role == IF i % 2 = 1 THEN "FOCUS_TARGET" ELSE "ACTIVATE_TARGET"
           outer == [NodeBase(WrapperId + i, WrapperKind(i), 0, 0)
                       EXCEPT !.first_child = pairs + i, !.n_child = 1, !.role = role]
           inner == NodeBase(LeafId + i, "BOX", 7 * i, 7)
           N == [j \in DOMAIN b.nodes |->
                    IF j = wrapper THEN outer ELSE IF j = leaf THEN inner ELSE b.nodes[j]]
           C == [c \in DOMAIN b.children |->
                    IF c = b.child_write THEN wrapper
                    ELSE IF c = pairs + i THEN leaf
                    ELSE b.children[c]]
           q == InteractiveStep(b)
<1>1. /\ i \in Nat /\ n \in Nat \ {0} /\ DOMAIN b = Keys
      /\ DOMAIN b.nodes = 0 .. n - 1 /\ DOMAIN b.children = 0 .. n - 2
      /\ b.child_write = i
  BY DEF Shaped, InteractiveInv
<1>2. pairs = PairCount(n) /\ pairs \in Nat /\ n = 1 + 2 * pairs /\ i < pairs
  <2>1. pairs = PairCount(n)
    BY Zenon DEF Rounds
  <2>2. n = 1 + 2 * PairCount(n) /\ ~(i >= pairs)
    BY DEF Shaped, Finished
  <2>3. PairCount(n) \in Nat
    BY <1>1 DEF PairCount
  <2> HIDE DEF pairs
  <2> QED
    BY <1>1, <2>1, <2>2, <2>3
<1> HIDE DEF pairs
<1>3. /\ Row(outer, WrapperId + i, WrapperKind(i), WrapperRole(i), pairs + i, 1, 0, 0)
      /\ Row(inner, LeafId + i, "BOX", "PASSIVE", 0, 0, 7 * i, 7)
  <2>1. role = WrapperRole(i)
    BY DEF WrapperRole
  <2> HIDE DEF role
  <2> QED
    BY <2>1 DEF Row, NodeBase, ZeroNode
<1>4. q = [b EXCEPT !.i = i + 1, !.child_write = @ + 1, !.nodes = N, !.children = C]
  BY DEF InteractiveStep, pairs
<1> HIDE DEF outer, inner, N, C, q
<1>5. /\ DOMAIN q = Keys /\ q.shape = b.shape /\ q.n_node = n /\ q.i = i + 1
      /\ q.child_write = i + 1 /\ q.nodes = N /\ q.children = C
  <2> DEFINE q1 == [b EXCEPT !.i = i + 1]
             q2 == [q1 EXCEPT !.child_write = i + 1]
             q3 == [q2 EXCEPT !.nodes = N]
  <2>1. /\ DOMAIN q1 = Keys /\ q1.shape = b.shape /\ q1.n_node = n /\ q1.i = i + 1
    BY <1>1 DEF Keys
  <2>4. q = [q3 EXCEPT !.children = C]
    BY <1>1, <1>4
  <2> HIDE DEF q1
  <2>2. /\ DOMAIN q2 = Keys /\ q2.shape = b.shape /\ q2.n_node = n /\ q2.i = i + 1
        /\ q2.child_write = i + 1
    BY <2>1 DEF Keys
  <2> HIDE DEF q2
  <2>3. /\ DOMAIN q3 = Keys /\ q3.shape = b.shape /\ q3.n_node = n /\ q3.i = i + 1
        /\ q3.child_write = i + 1 /\ q3.nodes = N
    BY <2>2 DEF Keys
  <2> HIDE DEF q3
  <2> QED
    BY <2>3, <2>4 DEF Keys
<1>6. Shaped(q)
  <2>1. DOMAIN q.children = 0 .. n - 2 /\ DOMAIN q.nodes = 0 .. n - 1
    BY <1>1, <1>5 DEF C, N
  <2>2. q.i <= Rounds(q.shape, q.n_node)
    BY <1>1, <1>2, <1>5 DEF Rounds
  <2> QED
    BY <1>1, <1>5, <2>1, <2>2 DEF Shaped
<1>7. /\ \A j \in 0 .. n - 1 : q.nodes[j] =
            IF j = wrapper THEN outer ELSE IF j = leaf THEN inner ELSE b.nodes[j]
      /\ \A c \in 0 .. n - 2 : q.children[c] =
            IF c = i THEN wrapper ELSE IF c = pairs + i THEN leaf ELSE b.children[c]
  BY <1>1, <1>5 DEF N, C
<1>11. 0 \in 0 .. n - 1 /\ 0 # wrapper /\ 0 # leaf
  BY <1>1, <1>2
<1>8. q.nodes[0] = b.nodes[0]
  BY <1>7, <1>11
<1>9. ASSUME NEW d \in 0 .. q.i - 1
      PROVE  /\ Row(q.nodes[1 + 2 * d], WrapperId + d, WrapperKind(d), WrapperRole(d), pairs + d, 1, 0, 0)
             /\ Row(q.nodes[2 + 2 * d], LeafId + d, "BOX", "PASSIVE", 0, 0, 7 * d, 7)
             /\ q.children[d] = 1 + 2 * d
             /\ q.children[pairs + d] = 2 + 2 * d
  <2>4. d \in Nat /\ d <= i /\ d < pairs
    BY <1>1, <1>2, <1>5
  <2>1. /\ 1 + 2 * d \in 0 .. n - 1 /\ 2 + 2 * d \in 0 .. n - 1
        /\ d \in 0 .. n - 2 /\ pairs + d \in 0 .. n - 2
    BY <1>2, <2>4, PairBounds
  <2>2. CASE d = i
    <3>1. /\ q.nodes[1 + 2 * d] = outer /\ q.nodes[2 + 2 * d] = inner
          /\ q.children[d] = 1 + 2 * d /\ q.children[pairs + d] = 2 + 2 * d
      <4>1. /\ 1 + 2 * d = wrapper /\ 2 + 2 * d = leaf /\ leaf # wrapper
            /\ pairs + d = pairs + i /\ pairs + d # i
        BY <1>1, <1>2, <2>2
      <4> QED
        BY <1>7, <2>1, <2>2, <4>1
    <3> QED
      BY <1>3, <2>2, <3>1
  <2>3. CASE d \in 0 .. i - 1
    <3>1. /\ q.nodes[1 + 2 * d] = b.nodes[1 + 2 * d] /\ q.nodes[2 + 2 * d] = b.nodes[2 + 2 * d]
          /\ q.children[d] = b.children[d] /\ q.children[pairs + d] = b.children[pairs + d]
      <4>1. /\ 1 + 2 * d # wrapper /\ 1 + 2 * d # leaf
            /\ 2 + 2 * d # wrapper /\ 2 + 2 * d # leaf
            /\ d # i /\ d # pairs + i /\ pairs + d # i /\ pairs + d # pairs + i
        BY <1>1, <1>2, <2>3, <2>4
      <4> QED
        BY <1>7, <2>1, <4>1
    <3> QED
      BY <1>2, <2>3, <3>1 DEF InteractiveInv
  <2> QED
    BY <1>1, <2>2, <2>3, <2>4
<1>10. InteractiveInv(q)
  BY <1>2, <1>5, <1>8, <1>9 DEF InteractiveInv
<1> QED
  BY <1>5, <1>6, <1>10 DEF q

LEMMA BuildStepInv == BuildInv /\ [BuildNext]_build => BuildInv'
<1>1. ASSUME BuildInv, BuildNext PROVE BuildInv'
  <2>1. Shaped(build) /\ ~Finished(build) /\ build' = BuildStep(build)
    BY <1>1 DEF BuildInv, Building, BuildNext
  <2>2. CASE build.shape = "CHAIN"
    <3>1. build' = ChainStep(build)
      BY <2>1, <2>2 DEF BuildStep
    <3> QED
      BY <1>1, <2>1, <2>2, <3>1, ChainKeeps DEF BuildInv, Building
  <2>3. CASE build.shape = "FLAT"
    <3>1. build' = FlatStep(build)
      BY <2>1, <2>3 DEF BuildStep
    <3> QED
      BY <1>1, <2>1, <2>3, <3>1, FlatKeeps DEF BuildInv, Building
  <2>4. CASE build.shape = "BALANCED"
    <3>1. build' = BalancedStep(build)
      BY <2>1, <2>4 DEF BuildStep
    <3> QED
      BY <1>1, <2>1, <2>4, <3>1, BalancedKeeps DEF BuildInv, Building
  <2>5. CASE build.shape = "INTERACTIVE"
    <3>1. build' = InteractiveStep(build)
      BY <2>1, <2>5 DEF BuildStep
    <3> QED
      BY <1>1, <2>1, <2>5, <3>1, InteractiveKeeps DEF BuildInv, Building
  <2> QED
    BY <2>1, <2>2, <2>3, <2>4, <2>5 DEF Shaped
<1>2. ASSUME BuildInv, UNCHANGED build PROVE BuildInv'
  BY <1>2 DEF BuildInv, Building
<1> QED
  BY <1>1, <1>2

---------------------------------------------------------------------------
(* The finished program.                                                     *)

LEMMA IntervalSize ==
    ASSUME NEW m \in Nat
    PROVE  Cardinality(0 .. m - 1) = m
<1>1. 0 \in Int /\ m - 1 \in Int
  OBVIOUS
<1>2. Cardinality(0 .. m - 1) = IF 0 > m - 1 THEN 0 ELSE (m - 1) - 0 + 1
  BY <1>1, FS_Interval
<1> QED
  BY <1>2

\* Its arrays are as long as finish_program says.
LEMMA Finishing ==
    ASSUME NEW b, Shaped(b), ChildCount(b) = b.n_node - 1
    PROVE  LET p == Finish(b)
           IN  /\ p.header = TRUE /\ p.root_index = 0
               /\ p.n_node = b.n_node /\ p.n_child = b.n_node - 1
               /\ p.nodes = b.nodes /\ p.n_token = TokenCap(b.shape, b.n_node)
               /\ \A c \in 0 .. b.n_node - 2 : p.children[c] = b.children[c]
<1> DEFINE n == b.n_node
           C == [c \in 0 .. ChildCount(b) - 1 |-> b.children[c]]
<1>1. n \in Nat \ {0} /\ DOMAIN b.nodes = 0 .. n - 1 /\ n - 1 \in Int /\ n - 2 \in Int
  BY DEF Shaped
<1>2. Cardinality(0 .. n - 1) = n
  BY <1>1, IntervalSize
<1>3. DOMAIN C = 0 .. n - 2 /\ \A c \in 0 .. n - 2 : C[c] = b.children[c]
  BY <1>1
<1>4. Cardinality(DOMAIN C) = n - 1
  <2>1. n - 1 \in Nat /\ 0 .. n - 2 = 0 .. (n - 1) - 1
    BY <1>1
  <2> QED
    BY <1>3, <2>1, IntervalSize
<1> HIDE DEF C
<1> QED
  BY <1>1, <1>2, <1>3, <1>4 DEF Finish, MakeProgram, C

\* The range of a row that does not wrap.
LEMMA RangeOK ==
    ASSUME NEW first \in Nat, NEW many \in Nat, NEW length \in Nat,
           first + many <= length, length < U32
    PROVE  RangeFits(first, many, length)
<1>1. (first + many) % U32 = first + many
  <2> DEFINE s == first + many
  <2>1. s \in Nat /\ s < U32 /\ U32 \in Nat /\ U32 > 0
    BY U32Assumption
  <2> HIDE DEF s
  <2>2. s % U32 = s
    BY <2>1
  <2> QED
    BY <2>2 DEF s
<1> QED
  BY <1>1 DEF RangeFits

\* A node with children.
LEMMA ParentOK ==
    ASSUME NEW p, NEW k, NEW kind \in AuthKinds \ Leaves,
           NEW first \in Nat, NEW many \in Nat, NEW tf \in Nat, NEW tc \in Nat,
           p.nodes[k].kind = kind, kind \in Wrappers => many = 1,
           p.nodes[k].first_child = first, p.nodes[k].n_child = many,
           p.nodes[k].token_first = tf, p.nodes[k].token_count = tc,
           p.n_child \in Nat, p.n_child < U32, first + many <= p.n_child,
           p.n_token \in Nat, p.n_token < U32, tf + tc <= p.n_token
    PROVE  NodeStatus(p, k) = "OK"
<1>1. /\ RangeFits(first, many, p.n_child)
      /\ RangeFits(tf, tc, p.n_token)
  BY RangeOK
<1> QED
  BY <1>1 DEF NodeStatus

\* A box without children.
LEMMA LeafOK ==
    ASSUME NEW p, NEW k, NEW tf \in Nat, NEW tc \in Nat,
           p.nodes[k].kind = "BOX", p.nodes[k].n_child = 0, p.nodes[k].first_child = 0,
           p.nodes[k].token_first = tf, p.nodes[k].token_count = tc,
           p.n_token \in Nat, p.n_token < U32, tf + tc <= p.n_token
    PROVE  NodeStatus(p, k) = "OK"
<1>1. RangeFits(tf, tc, p.n_token)
  BY RangeOK
<1>2. RangeFits(0, 0, p.n_child)
  BY DEF RangeFits
<1>3. "BOX" \in AuthKinds /\ "BOX" \notin Wrappers /\ "BOX" \notin Leaves
  BY DEF AuthKinds, Containers, Wrappers, Leaves
<1> QED
  BY <1>1, <1>2, <1>3 DEF NodeStatus

\* With every row passed, only identities can refuse a program.
LEMMA Accepted ==
    ASSUME NEW p, p.header, p.root_index = 0, p.n_node \in Nat \ {0},
           \A k \in 0 .. p.n_node - 1 : NodeStatus(p, k) = "OK"
    PROVE  /\ ValidateProgram(p) = "OK" <=> Duplicates(p) = {}
           /\ ValidateProgram(p) \in {"OK", "DUPLICATE_ID"}
<1>1. BadNodes(p) = {} /\ ~(p.root_index >= p.n_node) /\ p.root_index < p.n_node
  BY DEF BadNodes
<1> QED
  BY <1>1 DEF ValidateProgram

\* Rows with identities of their own repeat none.
LEMMA Distinct ==
    ASSUME NEW p, p.n_node \in Nat,
           \A j, k \in 0 .. p.n_node - 1 : p.nodes[j].id = p.nodes[k].id => j = k
    PROVE  Duplicates(p) = {}
<1> SUFFICES ASSUME NEW k \in 0 .. p.n_node - 1, NEW j \in 0 .. k - 1,
                    p.nodes[j].id = p.nodes[k].id
             PROVE  FALSE
  BY DEF Duplicates
<1>1. j \in 0 .. p.n_node - 1 /\ j # k
  OBVIOUS
<1> QED
  BY <1>1

\* The child of exactly one earlier node.
ChildOf(p, j, i, c) ==
    /\ i \in 0 .. j - 1 /\ c \in 0 .. p.n_child - 1
    /\ p.children[c] = j
    /\ \A k \in 0 .. p.n_node - 1 :
         (p.nodes[k].first_child <= c /\ c < p.nodes[k].first_child + p.nodes[k].n_child)
            <=> k = i
    /\ \A d \in 0 .. p.n_child - 1 : p.children[d] = j => d = c

LEMMA TreeOf ==
    ASSUME NEW p, \A j \in 1 .. p.n_node - 1 : \E i, c : ChildOf(p, j, i, c)
    PROVE  IsTree(p)
BY DEF IsTree, ChildOf

\* A chain: each node's child is the next.
LEMMA ChainIsTree ==
    ASSUME NEW b, Shaped(b), b.shape = "CHAIN", ChainInv(b), Finished(b)
    PROVE  IsTree(Finish(b)) /\ ValidateProgram(Finish(b)) = "OK"
<1> DEFINE n == b.n_node
           p == Finish(b)
<1>1. n \in Nat \ {0} /\ b.i = n /\ 7 * n < U32 /\ U32 \in Nat
  BY U32Assumption DEF Shaped, Finished, Rounds
<1>2. /\ p.header = TRUE /\ p.root_index = 0 /\ p.n_node = n /\ p.n_child = n - 1
      /\ p.nodes = b.nodes /\ p.n_token = 2 * n
      /\ \A c \in 0 .. n - 2 : p.children[c] = b.children[c]
  BY Finishing DEF ChildCount, TokenCap, TokensPerNode, Rounds
<1> HIDE DEF p
<1>3. ASSUME NEW k \in 0 .. n - 1
      PROVE  /\ k + 1 < n => Row(p.nodes[k], 1000 + k, "BOX", "PASSIVE", k, 1, 2 * k, 2)
             /\ k + 1 = n => Row(p.nodes[k], 1000 + k, "BOX", "PASSIVE", 0, 0, 2 * k, 2)
  BY <1>1, <1>2 DEF ChainInv
<1>4. \A c \in 0 .. n - 2 : p.children[c] = c + 1
  BY <1>1, <1>2 DEF ChainInv
<1>5. ASSUME NEW k \in 0 .. n - 1 PROVE NodeStatus(p, k) = "OK"
  <2>1. "BOX" \in AuthKinds \ Leaves /\ "BOX" \notin Wrappers
    BY DEF AuthKinds, Containers, Wrappers, Leaves
  <2>2. /\ p.n_child \in Nat /\ p.n_child < U32 /\ p.n_token \in Nat /\ p.n_token < U32
        /\ 2 * k \in Nat /\ 2 * k + 2 <= p.n_token
    BY <1>1, <1>2
  <2>3. CASE k + 1 < n
    <3>1. Row(p.nodes[k], 1000 + k, "BOX", "PASSIVE", k, 1, 2 * k, 2) /\ k + 1 <= p.n_child
      BY <1>1, <1>2, <1>3, <2>3
    <3> DEFINE tf == 2 * k
    <3>2. tf \in Nat /\ tf + 2 <= p.n_token /\ Row(p.nodes[k], 1000 + k, "BOX", "PASSIVE", k, 1, tf, 2)
      BY <2>2, <3>1
    <3> HIDE DEF tf
    <3> QED
      BY <2>1, <2>2, <3>1, <3>2, ParentOK DEF Row
  <2>4. CASE k + 1 = n
    <3>1. Row(p.nodes[k], 1000 + k, "BOX", "PASSIVE", 0, 0, 2 * k, 2)
      BY <1>1, <1>2, <1>3, <2>4
    <3> DEFINE tf == 2 * k
    <3>2. tf \in Nat /\ tf + 2 <= p.n_token /\ Row(p.nodes[k], 1000 + k, "BOX", "PASSIVE", 0, 0, tf, 2)
      BY <2>2, <3>1
    <3> HIDE DEF tf
    <3> QED
      BY <2>2, <3>2, LeafOK DEF Row
  <2> QED
    BY <1>1, <2>3, <2>4
<1>6. Duplicates(p) = {}
  <2>1. \A k \in 0 .. n - 1 : p.nodes[k].id = 1000 + k
    BY <1>1, <1>3 DEF Row
  <2> QED
    BY <1>1, <1>2, <2>1, Distinct
<1>7. ASSUME NEW j \in 1 .. n - 1 PROVE ChildOf(p, j, j - 1, j - 1)
  <2>1. /\ j - 1 \in 0 .. j - 1 /\ j - 1 \in 0 .. n - 2 /\ p.children[j - 1] = j
    BY <1>1, <1>4
  <2>2. ASSUME NEW k \in 0 .. n - 1
        PROVE  (p.nodes[k].first_child <= j - 1
                  /\ j - 1 < p.nodes[k].first_child + p.nodes[k].n_child) <=> k = j - 1
    BY <1>1, <1>3 DEF Row
  <2>3. \A d \in 0 .. n - 2 : p.children[d] = j => d = j - 1
    BY <1>1, <1>4
  <2> QED
    BY <1>1, <1>2, <2>1, <2>2, <2>3 DEF ChildOf
<1> QED
  BY <1>1, <1>2, <1>5, <1>6, <1>7, Accepted, TreeOf DEF p

\* A flat program: a root with every other node.
LEMMA FlatIsTree ==
    ASSUME NEW b, Shaped(b), b.shape = "FLAT", FlatInv(b), Finished(b)
    PROVE  IsTree(Finish(b)) /\ ValidateProgram(Finish(b)) = "OK"
<1> DEFINE n == b.n_node
           p == Finish(b)
<1>1. n \in Nat \ {0} /\ n >= 2 /\ b.i = n - 1 /\ 7 * n < U32 /\ U32 \in Nat
  BY U32Assumption DEF Shaped, Finished, Rounds
<1>2. /\ p.header = TRUE /\ p.root_index = 0 /\ p.n_node = n /\ p.n_child = n - 1
      /\ p.nodes = b.nodes /\ p.n_token = 2 * (n - 1)
      /\ \A c \in 0 .. n - 2 : p.children[c] = b.children[c]
  BY Finishing DEF ChildCount, TokenCap, TokensPerNode, Rounds
<1> HIDE DEF p
<1>3. Row(p.nodes[0], 1, "FRAGMENT", "PASSIVE", 0, n - 1, 0, 0)
  BY <1>2 DEF FlatInv
<1>4. ASSUME NEW c \in 0 .. n - 2
      PROVE  Row(p.nodes[c + 1], 2000 + c, "BOX", "PASSIVE", 0, 0, 2 * c, 2) /\ p.children[c] = c + 1
  BY <1>1, <1>2 DEF FlatInv
<1>8. ASSUME NEW k \in 0 .. n - 1, k # 0
      PROVE  Row(p.nodes[k], 1999 + k, "BOX", "PASSIVE", 0, 0, 2 * (k - 1), 2)
  <2> DEFINE c == k - 1
  <2>1. c \in 0 .. n - 2 /\ c + 1 = k /\ 2000 + c = 1999 + k
    BY <1>1, <1>8
  <2>2. Row(p.nodes[c + 1], 2000 + c, "BOX", "PASSIVE", 0, 0, 2 * c, 2)
    BY <1>4, <2>1
  <2> QED
    BY <2>1, <2>2
<1>5. ASSUME NEW k \in 0 .. n - 1 PROVE NodeStatus(p, k) = "OK"
  <2>1. "FRAGMENT" \in AuthKinds \ Leaves /\ "FRAGMENT" \notin Wrappers
    BY DEF AuthKinds, Containers, Wrappers, Leaves
  <2>2. /\ p.n_child \in Nat /\ p.n_child < U32 /\ p.n_token \in Nat /\ p.n_token < U32
    BY <1>1, <1>2
  <2>3. CASE k = 0
    <3>1. n - 1 \in Nat /\ 0 + (n - 1) <= p.n_child /\ 0 + 0 <= p.n_token
      BY <1>1, <1>2
    <3> QED
      BY <1>3, <2>1, <2>2, <2>3, <3>1, ParentOK DEF Row
  <2>4. CASE k # 0
    <3>1. 2 * (k - 1) \in Nat /\ 2 * (k - 1) + 2 <= p.n_token
      BY <1>1, <1>2, <2>4
    <3>2. Row(p.nodes[k], 1999 + k, "BOX", "PASSIVE", 0, 0, 2 * (k - 1), 2)
      BY <1>8, <2>4
    <3> DEFINE tf == 2 * (k - 1)
    <3> HIDE DEF tf
    <3> QED
      BY <2>2, <3>1, <3>2, LeafOK DEF Row
  <2> QED
    BY <2>3, <2>4
<1>6. Duplicates(p) = {}
  <2>1. \A k \in 0 .. n - 1 : p.nodes[k].id = IF k = 0 THEN 1 ELSE 1999 + k
    BY <1>3, <1>8 DEF Row
  <2> QED
    BY <1>1, <1>2, <2>1, Distinct
<1>7. ASSUME NEW j \in 1 .. n - 1 PROVE ChildOf(p, j, 0, j - 1)
  <2>1. 0 \in 0 .. j - 1 /\ j - 1 \in 0 .. n - 2 /\ p.children[j - 1] = j
    BY <1>1, <1>4
  <2>2. ASSUME NEW k \in 0 .. n - 1
        PROVE  (p.nodes[k].first_child <= j - 1
                  /\ j - 1 < p.nodes[k].first_child + p.nodes[k].n_child) <=> k = 0
    <3>1. CASE k = 0
      BY <1>1, <1>3, <3>1 DEF Row
    <3>2. CASE k # 0
      BY <1>1, <1>8, <3>2 DEF Row
    <3> QED
      BY <3>1, <3>2
  <2>3. \A d \in 0 .. n - 2 : p.children[d] = j => d = j - 1
    BY <1>1, <1>4
  <2> QED
    BY <1>1, <1>2, <2>1, <2>2, <2>3 DEF ChildOf
<1> QED
  BY <1>1, <1>2, <1>5, <1>6, <1>7, Accepted, TreeOf DEF p
\* A balanced tree: the children of node i are 2 i + 1 and 2 i + 2.
LEMMA BalancedIsTree ==
    ASSUME NEW b, Shaped(b), b.shape = "BALANCED", BalancedInv(b), Finished(b)
    PROVE  IsTree(Finish(b)) /\ ValidateProgram(Finish(b)) = "OK"
<1> DEFINE n == b.n_node
           p == Finish(b)
<1>1. n \in Nat \ {0} /\ b.i = n /\ 7 * n < U32 /\ U32 \in Nat
  BY U32Assumption DEF Shaped, Finished, Rounds
<1>9. b.child_write = n - 1
  <2>1. b.child_write = Before(n, n)
    BY <1>1 DEF BalancedInv
  <2> QED
    BY <1>1, <2>1 DEF Before
<1>2. /\ p.header = TRUE /\ p.root_index = 0 /\ p.n_node = n /\ p.n_child = n - 1
      /\ p.nodes = b.nodes /\ p.n_token = 2 * n
      /\ \A c \in 0 .. n - 2 : p.children[c] = b.children[c]
  BY <1>9, Finishing DEF ChildCount, TokenCap, TokensPerNode, Rounds
<1> HIDE DEF p
<1>3. ASSUME NEW k \in 0 .. n - 1
      PROVE  Row(p.nodes[k], 3000 + k, "BOX", "PASSIVE", Before(k, n), Before(k + 1, n) - Before(k, n), 2 * k, 2)
  BY <1>1, <1>2 DEF BalancedInv
<1>4. \A c \in 0 .. n - 2 : p.children[c] = c + 1
  BY <1>1, <1>2, <1>9 DEF BalancedInv
<1>8. ASSUME NEW k \in 0 .. n - 1
      PROVE  /\ Before(k, n) \in Nat /\ Before(k + 1, n) \in Nat
             /\ Before(k, n) <= Before(k + 1, n) /\ Before(k + 1, n) <= n - 1
  BY <1>1 DEF Before
<1>5. ASSUME NEW k \in 0 .. n - 1 PROVE NodeStatus(p, k) = "OK"
  <2>1. "BOX" \in AuthKinds \ Leaves /\ "BOX" \notin Wrappers
    BY DEF AuthKinds, Containers, Wrappers, Leaves
  <2>2. p.n_child \in Nat /\ p.n_child < U32 /\ p.n_token \in Nat /\ p.n_token < U32
    BY <1>1, <1>2
  <2> DEFINE first == Before(k, n)
             many == Before(k + 1, n) - first
             tf == 2 * k
  <2>3. first \in Nat /\ many \in Nat /\ first + many <= p.n_child
    BY <1>2, <1>8
  <2>4. tf \in Nat /\ tf + 2 <= p.n_token
    BY <1>1, <1>2
  <2>5. Row(p.nodes[k], 3000 + k, "BOX", "PASSIVE", first, many, tf, 2)
    BY <1>3
  <2> HIDE DEF first, many, tf
  <2> QED
    BY <2>1, <2>2, <2>3, <2>4, <2>5, ParentOK DEF Row
<1>6. Duplicates(p) = {}
  <2>1. \A k \in 0 .. n - 1 : p.nodes[k].id = 3000 + k
    BY <1>3 DEF Row
  <2> QED
    BY <1>1, <1>2, <2>1, Distinct
<1>7. ASSUME NEW j \in 1 .. n - 1 PROVE ChildOf(p, j, (j - 1) \div 2, j - 1)
  <2> DEFINE parent == (j - 1) \div 2
  <2>1. parent \in Nat /\ 2 * parent <= j - 1 /\ j - 1 <= 2 * parent + 1
    BY <1>1
  <2> HIDE DEF parent
  <2>2. parent \in 0 .. j - 1 /\ j - 1 \in 0 .. n - 2 /\ p.children[j - 1] = j
    BY <1>1, <1>4, <2>1
  <2>3. ASSUME NEW k \in 0 .. n - 1
        PROVE  (p.nodes[k].first_child <= j - 1
                  /\ j - 1 < p.nodes[k].first_child + p.nodes[k].n_child) <=> k = parent
    <3>1. /\ p.nodes[k].first_child = Before(k, n)
          /\ p.nodes[k].first_child + p.nodes[k].n_child = Before(k + 1, n)
      BY <1>3, <1>8 DEF Row
    <3>2. Before(k, n) <= j - 1 /\ j - 1 < Before(k + 1, n) <=> k = parent
      BY <1>1, <2>1 DEF Before
    <3> QED
      BY <3>1, <3>2
  <2>4. \A d \in 0 .. n - 2 : p.children[d] = j => d = j - 1
    BY <1>1, <1>4
  <2> QED
    BY <1>1, <1>2, <2>2, <2>3, <2>4 DEF ChildOf, parent
<1> QED
  BY <1>1, <1>2, <1>5, <1>6, <1>7, Accepted, TreeOf DEF p

\* Which node of an interactive program k is.
LEMMA PairCases ==
    ASSUME NEW P \in Nat, NEW k \in 0 .. 2 * P, k # 0
    PROVE  \E d \in 0 .. P - 1 : k = 1 + 2 * d \/ k = 2 + 2 * d
<1> DEFINE d == (k - 1) \div 2
<1>1. d \in 0 .. P - 1 /\ (k = 1 + 2 * d \/ k = 2 + 2 * d)
  OBVIOUS
<1> QED
  BY <1>1

LEMMA WrapperIsOne ==
    ASSUME NEW d \in Nat
    PROVE  WrapperKind(d) \in AuthKinds \ Leaves
<1>1. WrapperKind(d) \in Wrappers
  BY Zenon DEF WrapperKind, Wrappers
<1>2. Wrappers \subseteq AuthKinds \ Leaves
  BY DEF AuthKinds, Wrappers, Leaves
<1> QED
  BY <1>1, <1>2

\* An interactive program: the root's children are the wrappers, and each
\* wrapper has its leaf.  Whether it is accepted is up to the identities.
LEMMA InteractiveIsTree ==
    ASSUME NEW b, Shaped(b), b.shape = "INTERACTIVE", InteractiveInv(b), Finished(b)
    PROVE  /\ IsTree(Finish(b)) /\ (ValidateProgram(Finish(b)) = "OK" <=> IdsFit(b))
           /\ ValidateProgram(Finish(b)) \in {"OK", "DUPLICATE_ID"}
<1> DEFINE n == b.n_node
           p == Finish(b)
           P == PairCount(n)
<1>1. /\ n \in Nat \ {0} /\ 7 * n < U32 /\ U32 \in Nat
      /\ P \in Nat \ {0} /\ n = 1 + 2 * P /\ b.i = P
      /\ Rounds("INTERACTIVE", n) = P
  <2>1. /\ n \in Nat \ {0} /\ 7 * n < U32 /\ U32 \in Nat /\ n >= 3 /\ n = 1 + 2 * P
    BY U32Assumption DEF Shaped
  <2>2. Rounds("INTERACTIVE", n) = P
    BY Zenon DEF Rounds
  <2>3. b.i \in Nat /\ b.i <= P /\ b.i >= P
    BY <2>2 DEF Shaped, Finished
  <2>4. P \in Nat
    BY <2>1 DEF PairCount
  <2> HIDE DEF P
  <2> QED
    BY <2>1, <2>2, <2>3, <2>4
<1>2. /\ p.header = TRUE /\ p.root_index = 0 /\ p.n_node = n /\ p.n_child = n - 1
      /\ p.nodes = b.nodes /\ p.n_token = 7 * P
      /\ \A c \in 0 .. n - 2 : p.children[c] = b.children[c]
  <2>1. ChildCount(b) = n - 1
    BY DEF ChildCount
  <2>2. TokenCap(b.shape, n) = 7 * P
    BY <1>1, Zenon DEF TokenCap, TokensPerNode
  <2> HIDE DEF P
  <2> QED
    BY <2>1, <2>2, Finishing
<1>3. Row(p.nodes[0], 1, "FRAGMENT", "PASSIVE", 0, P, 0, 0)
  BY <1>2 DEF InteractiveInv
<1>4. ASSUME NEW d \in 0 .. P - 1
      PROVE  /\ Row(p.nodes[1 + 2 * d], WrapperId + d, WrapperKind(d), WrapperRole(d), P + d, 1, 0, 0)
             /\ Row(p.nodes[2 + 2 * d], LeafId + d, "BOX", "PASSIVE", 0, 0, 7 * d, 7)
             /\ p.children[d] = 1 + 2 * d
             /\ p.children[P + d] = 2 + 2 * d
  <2>1. /\ Row(b.nodes[1 + 2 * d], WrapperId + d, WrapperKind(d), WrapperRole(d), P + d, 1, 0, 0)
        /\ Row(b.nodes[2 + 2 * d], LeafId + d, "BOX", "PASSIVE", 0, 0, 7 * d, 7)
        /\ b.children[d] = 1 + 2 * d
        /\ b.children[P + d] = 2 + 2 * d
    BY <1>1 DEF InteractiveInv
  <2>2. d \in 0 .. n - 2 /\ P + d \in 0 .. n - 2
    BY <1>1
  <2> QED
    BY <1>2, <2>1, <2>2
<1> HIDE DEF p, P
<1>13. ASSUME NEW k \in 0 .. n - 1, k # 0
       PROVE  \E d \in 0 .. P - 1 : k = 1 + 2 * d \/ k = 2 + 2 * d
  <2>1. P \in Nat /\ k \in 0 .. 2 * P
    BY <1>1
  <2> QED
    BY <1>13, <2>1, PairCases
<1>5. ASSUME NEW k \in 0 .. n - 1 PROVE NodeStatus(p, k) = "OK"
  <2>1. p.n_child \in Nat /\ p.n_child < U32 /\ p.n_token \in Nat /\ p.n_token < U32
    BY <1>1, <1>2
  <2>2. CASE k = 0
    <3>1. "FRAGMENT" \in AuthKinds \ Leaves /\ "FRAGMENT" \notin Wrappers
      BY DEF AuthKinds, Containers, Wrappers, Leaves
    <3>2. P \in Nat /\ 0 + P <= p.n_child /\ 0 + 0 <= p.n_token
      BY <1>1, <1>2
    <3> QED
      BY <1>3, <2>1, <2>2, <3>1, <3>2, ParentOK DEF Row
  <2>3. ASSUME NEW d \in 0 .. P - 1, k = 1 + 2 * d PROVE NodeStatus(p, k) = "OK"
    <3> DEFINE first == P + d
               kind == WrapperKind(d)
    <3>1. first \in Nat /\ first + 1 <= p.n_child /\ 0 + 0 <= p.n_token
      BY <1>1, <1>2
    <3>2. Row(p.nodes[k], WrapperId + d, kind, WrapperRole(d), first, 1, 0, 0)
      BY <1>4, <2>3
    <3>3. kind \in AuthKinds \ Leaves
      BY <1>1, WrapperIsOne
    <3> HIDE DEF first, kind
    <3> QED
      BY <2>1, <3>1, <3>2, <3>3, ParentOK DEF Row
  <2>4. ASSUME NEW d \in 0 .. P - 1, k = 2 + 2 * d PROVE NodeStatus(p, k) = "OK"
    <3> DEFINE tf == 7 * d
    <3>1. tf \in Nat /\ tf + 7 <= p.n_token
      BY <1>1, <1>2
    <3>2. Row(p.nodes[k], LeafId + d, "BOX", "PASSIVE", 0, 0, tf, 7)
      BY <1>4, <2>4
    <3> HIDE DEF tf
    <3> QED
      BY <2>1, <3>1, <3>2, LeafOK DEF Row
  <2> QED
    BY <1>13, <2>2, <2>3, <2>4
<1>6. Duplicates(p) = {} <=> P <= LeafId - WrapperId
  <2>0. WrapperId \in Nat /\ LeafId \in Nat /\ 1 < WrapperId /\ WrapperId < LeafId
    BY BuilderAssumption
  <2>1. /\ p.nodes[0].id = 1
        /\ \A d \in 0 .. P - 1 : /\ p.nodes[1 + 2 * d].id = WrapperId + d
                                 /\ p.nodes[2 + 2 * d].id = LeafId + d
    BY <1>3, <1>4 DEF Row
  <2>2. ASSUME P <= LeafId - WrapperId PROVE Duplicates(p) = {}
    <3>1. ASSUME NEW j \in 0 .. n - 1, NEW k \in 0 .. n - 1, p.nodes[j].id = p.nodes[k].id
          PROVE  j = k
      <4>1. ASSUME NEW l \in 0 .. n - 1
            PROVE  \/ l = 0 /\ p.nodes[l].id = 1
                   \/ \E d \in 0 .. P - 1 : l = 1 + 2 * d /\ p.nodes[l].id = WrapperId + d
                   \/ \E d \in 0 .. P - 1 : l = 2 + 2 * d /\ p.nodes[l].id = LeafId + d
        <5>1. CASE l = 0
          BY <2>1, <5>1
        <5>2. CASE l # 0
          <6>1. PICK d \in 0 .. P - 1 : l = 1 + 2 * d \/ l = 2 + 2 * d
            BY <1>13, <5>2
          <6> QED
            BY <2>1, <6>1
        <5> QED
          BY <5>1, <5>2
      <4>2. CASE j = 0 /\ p.nodes[j].id = 1
        BY <2>0, <3>1, <4>1, <4>2
      <4>3. ASSUME NEW d \in 0 .. P - 1, j = 1 + 2 * d, p.nodes[j].id = WrapperId + d
            PROVE  j = k
        <5>1. CASE k = 0 /\ p.nodes[k].id = 1
          BY <2>0, <3>1, <4>3, <5>1
        <5>2. ASSUME NEW e \in 0 .. P - 1, k = 1 + 2 * e, p.nodes[k].id = WrapperId + e
              PROVE  j = k
          BY <1>1, <2>0, <3>1, <4>3, <5>2
        <5>3. ASSUME NEW e \in 0 .. P - 1, k = 2 + 2 * e, p.nodes[k].id = LeafId + e
              PROVE  j = k
          BY <1>1, <2>0, <2>2, <3>1, <4>3, <5>3
        <5> QED
          BY <4>1, <5>1, <5>2, <5>3
      <4>4. ASSUME NEW d \in 0 .. P - 1, j = 2 + 2 * d, p.nodes[j].id = LeafId + d
            PROVE  j = k
        BY <1>1, <2>0, <2>2, <3>1, <4>1, <4>4
      <4> QED
        BY <4>1, <4>2, <4>3, <4>4
    <3> QED
      BY <1>1, <1>2, <3>1, Distinct
  <2>3. ASSUME ~(P <= LeafId - WrapperId) PROVE Duplicates(p) # {}
    <3> DEFINE e == LeafId - WrapperId
    <3>1. e \in 0 .. P - 1 /\ e >= 1 /\ 0 \in 0 .. P - 1
      BY <1>1, <2>0, <2>3
    <3>2. p.nodes[1 + 2 * e].id = LeafId /\ p.nodes[2].id = LeafId
      <4>1. p.nodes[1 + 2 * e].id = WrapperId + e /\ p.nodes[2 + 2 * 0].id = LeafId + 0
        BY <2>1, <3>1
      <4> QED
        BY <2>0, <4>1
    <3>3. 1 + 2 * e \in 0 .. p.n_node - 1 /\ 2 \in 0 .. (1 + 2 * e) - 1 /\ LeafId # 0
      BY <1>1, <1>2, <2>0, <3>1
    <3> HIDE DEF e
    <3> QED
      BY <3>2, <3>3 DEF Duplicates
  <2> QED
    BY <2>2, <2>3
<1>7. ASSUME NEW k \in 0 .. n - 1, NEW c \in 0 .. n - 2
      PROVE  (p.nodes[k].first_child <= c /\ c < p.nodes[k].first_child + p.nodes[k].n_child)
               <=> \/ k = 0 /\ c < P
                   \/ \E d \in 0 .. P - 1 : k = 1 + 2 * d /\ c = P + d
  <2>1. CASE k = 0
    BY <1>1, <1>3, <2>1 DEF Row
  <2>2. ASSUME NEW d \in 0 .. P - 1, k = 1 + 2 * d
        PROVE  (p.nodes[k].first_child <= c /\ c < p.nodes[k].first_child + p.nodes[k].n_child)
                 <=> c = P + d
    <3>1. p.nodes[k].first_child = P + d /\ p.nodes[k].n_child = 1
      BY <1>4, <2>2 DEF Row
    <3> QED
      BY <1>1, <3>1
  <2>3. ASSUME NEW d \in 0 .. P - 1, k = 2 + 2 * d
        PROVE  ~(p.nodes[k].first_child <= c /\ c < p.nodes[k].first_child + p.nodes[k].n_child)
    <3>1. p.nodes[k].first_child = 0 /\ p.nodes[k].n_child = 0
      BY <1>4, <2>3 DEF Row
    <3> QED
      BY <1>1, <3>1
  <2>4. CASE k # 0
    <3>1. PICK d \in 0 .. P - 1 : k = 1 + 2 * d \/ k = 2 + 2 * d
      BY <1>13, <2>4
    <3>2. CASE k = 1 + 2 * d
      <4>1. (\/ k = 0 /\ c < P
             \/ \E e \in 0 .. P - 1 : k = 1 + 2 * e /\ c = P + e) <=> c = P + d
        BY <1>1, <2>4, <3>2
      <4> QED
        BY <2>2, <3>2, <4>1
    <3>3. CASE k = 2 + 2 * d
      <4>1. ~(\/ k = 0 /\ c < P
              \/ \E e \in 0 .. P - 1 : k = 1 + 2 * e /\ c = P + e)
        BY <1>1, <2>4, <3>3
      <4> QED
        BY <2>3, <3>3, <4>1
    <3> QED
      BY <3>1, <3>2, <3>3
  <2> QED
    BY <2>1, <2>4
<1>8. ASSUME NEW c \in 0 .. n - 2
      PROVE  p.children[c] = IF c < P THEN 1 + 2 * c ELSE 2 + 2 * (c - P)
  <2>1. CASE c < P
    <3>1. c \in 0 .. P - 1
      BY <1>1, <2>1
    <3>2. p.children[c] = 1 + 2 * c
      BY <1>4, <3>1
    <3> QED
      BY <2>1, <3>2
  <2>2. CASE ~(c < P)
    <3>1. c - P \in 0 .. P - 1 /\ c = P + (c - P)
      BY <1>1, <2>2
    <3> QED
      BY <1>4, <2>2, <3>1
  <2> QED
    BY <2>1, <2>2
<1>9. ASSUME NEW j \in 1 .. n - 1 PROVE \E i, c : ChildOf(p, j, i, c)
  <2>1. ASSUME NEW d \in 0 .. P - 1, j = 1 + 2 * d PROVE ChildOf(p, j, 0, d)
    <3>1. 0 \in 0 .. j - 1 /\ d \in 0 .. n - 2 /\ d < P
      BY <1>1, <2>1
    <3>2. p.children[d] = j /\ \A e \in 0 .. n - 2 : p.children[e] = j => e = d
      BY <1>1, <1>8, <2>1, <3>1
    <3>3. ASSUME NEW k \in 0 .. n - 1
          PROVE  (p.nodes[k].first_child <= d
                    /\ d < p.nodes[k].first_child + p.nodes[k].n_child) <=> k = 0
      <4>1. ~ \E e \in 0 .. P - 1 : k = 1 + 2 * e /\ d = P + e
        BY <1>1
      <4> QED
        BY <1>7, <3>1, <4>1
    <3> QED
      BY <1>1, <1>2, <3>1, <3>2, <3>3 DEF ChildOf
  <2>2. ASSUME NEW d \in 0 .. P - 1, j = 2 + 2 * d PROVE ChildOf(p, j, 1 + 2 * d, P + d)
    <3> DEFINE c == P + d
               parent == 1 + 2 * d
    <3>1. parent \in 0 .. j - 1 /\ c \in 0 .. n - 2 /\ ~(c < P)
      BY <1>1, <2>2
    <3>2. p.children[c] = j /\ \A e \in 0 .. n - 2 : p.children[e] = j => e = c
      BY <1>1, <1>8, <2>2, <3>1
    <3>3. ASSUME NEW k \in 0 .. n - 1
          PROVE  (p.nodes[k].first_child <= c
                    /\ c < p.nodes[k].first_child + p.nodes[k].n_child) <=> k = parent
      <4>1. (\E e \in 0 .. P - 1 : k = 1 + 2 * e /\ c = P + e) <=> k = parent
        BY <1>1
      <4> HIDE DEF c, parent
      <4> QED
        BY <1>7, <3>1, <4>1
    <3> HIDE DEF c, parent
    <3>4. ChildOf(p, j, parent, c)
      BY <1>1, <1>2, <3>1, <3>2, <3>3 DEF ChildOf
    <3> QED
      BY <3>4 DEF c, parent
  <2>3. PICK d \in 0 .. P - 1 : j = 1 + 2 * d \/ j = 2 + 2 * d
    <3>1. j \in 0 .. n - 1 /\ j # 0
      BY <1>1
    <3> QED
      BY <1>13, <3>1
  <2> QED
    BY <2>1, <2>2, <2>3
<1>10. IsTree(p)
  BY <1>2, <1>9, TreeOf
<1>11. /\ ValidateProgram(p) = "OK" <=> Duplicates(p) = {}
       /\ ValidateProgram(p) \in {"OK", "DUPLICATE_ID"}
  BY <1>1, <1>2, <1>5, Accepted
<1>12. IdsFit(b) <=> P <= LeafId - WrapperId
  BY <1>1 DEF IdsFit
<1> QED
  BY <1>6, <1>10, <1>11, <1>12 DEF p

---------------------------------------------------------------------------
\* What a program is once its loop has ended.
Complete(b) == Building(b) /\ Finished(b)

LEMMA CompleteIsTree ==
    ASSUME NEW b, Complete(b)
    PROVE  /\ IsTree(Finish(b)) /\ (ValidateProgram(Finish(b)) = "OK" <=> IdsFit(b))
           /\ ValidateProgram(Finish(b)) \in {"OK", "DUPLICATE_ID"}
<1>1. Shaped(b) /\ Finished(b)
  BY DEF Complete, Building
<1>2. CASE b.shape = "CHAIN"
  BY <1>1, <1>2, ChainIsTree DEF Complete, Building, IdsFit
<1>3. CASE b.shape = "FLAT"
  BY <1>1, <1>3, FlatIsTree DEF Complete, Building, IdsFit
<1>4. CASE b.shape = "BALANCED"
  BY <1>1, <1>4, BalancedIsTree DEF Complete, Building, IdsFit
<1>5. CASE b.shape = "INTERACTIVE"
  BY <1>1, <1>5, InteractiveIsTree DEF Complete, Building
<1> QED
  BY <1>1, <1>2, <1>3, <1>4, <1>5 DEF Shaped

\* Whatever the shape and the size, the program the benchmark builds is a tree
\* rooted at node 0, and the kernel's validator accepts it exactly when the
\* identities of its wrappers stop before those of its leaves.
THEOREM ProgramsAreTrees == BuildSpec => []BuildsTrees
<1>1. ASSUME BuildInit PROVE BuildInv
  <2>1. PICK shape \in Shapes, n \in Sizes : build = StartBuild(shape, n)
    BY <1>1 DEF BuildInit
  <2>2. /\ shape \in {"CHAIN", "FLAT", "BALANCED", "INTERACTIVE"}
        /\ n \in Nat /\ 7 * (n + 3) < U32
    BY BuilderAssumption, SizesFit
  <2> QED
    BY <2>1, <2>2, StartInv DEF BuildInv
<1>2. BuildInv /\ [BuildNext]_build => BuildInv'
  BY BuildStepInv
<1>3. BuildInv => BuildsTrees
  BY CompleteIsTree DEF BuildInv, Complete, BuildsTrees
<1> QED
  BY <1>1, <1>2, <1>3, PTL DEF BuildSpec

---------------------------------------------------------------------------
(* Natural numbers.                                                          *)

\* A set of naturals that is not empty has a least member.
LEMMA LeastNatural ==
    ASSUME NEW S \in SUBSET Nat, S # {}
    PROVE  \E t \in S : \A u \in S : t <= u
<1> DEFINE R == {ss \in Nat \X Nat : ss[1] < ss[2]}
<1>1. IsWellFoundedOn(R, Nat)
  BY NatLessThanWellFounded DEF OpToRel
<1>2. \E t \in S : \A u \in S : ~ (<<u, t>> \in R)
  <2> HIDE DEF R
  <2> QED
    BY <1>1, WFMin
<1>3. PICK t \in S : \A u \in S : ~ (<<u, t>> \in R)
  BY <1>2
<1>4. \A u \in S : t <= u
  <2> SUFFICES ASSUME NEW u \in S PROVE t <= u
    OBVIOUS
  <2>1. u \in Nat /\ t \in Nat /\ ~ (u < t)
    BY <1>3
  <2> QED
    BY <2>1
<1> QED
  BY <1>4

\* A set of naturals with 0 and the successors of its members is all of them.
LEMMA EveryNatural ==
    ASSUME NEW S, 0 \in S, \A n \in Nat : n \in S => n + 1 \in S
    PROVE  \A n \in Nat : n \in S
<1> SUFFICES ASSUME Nat \ S # {} PROVE FALSE
  OBVIOUS
<1>1. PICK t \in Nat \ S : \A u \in Nat \ S : t <= u
  BY LeastNatural, Zenon
<1>2. t \in Nat /\ t # 0 /\ t - 1 \in Nat /\ ~(t <= t - 1) /\ (t - 1) + 1 = t
  BY <1>1
<1>3. t - 1 \in S
  BY <1>1, <1>2
<1> QED
  BY <1>1, <1>2, <1>3

---------------------------------------------------------------------------
(* Programs.                                                                 *)

\* view.n after the nodes before each.
Counting(p, n, f) == f = [i \in 0..n |-> IF i = 0 THEN 0 ELSE f[i - 1] + OpsOf(p.nodes[i - 1])]

\* The recursive function of ViewCount exists.
LEMMA CountingExists ==
    ASSUME NEW p
    PROVE  \A n \in Nat : \E f : Counting(p, n, f)
<1> DEFINE S == {n \in Nat : \E f : Counting(p, n, f)}
<1>1. 0 \in S
  <2>1. Counting(p, 0, [i \in 0..0 |-> 0])
    BY DEF Counting
  <2> QED
    BY <2>1
<1>2. ASSUME NEW n \in Nat, n \in S PROVE n + 1 \in S
  <2>1. PICK f : Counting(p, n, f)
    BY <1>2
  <2> DEFINE g == [i \in 0..n + 1 |-> IF i \in 0..n THEN f[i] ELSE f[n] + OpsOf(p.nodes[n])]
  <2>2. \A i \in 0..n : f[i] = IF i = 0 THEN 0 ELSE f[i - 1] + OpsOf(p.nodes[i - 1])
    BY <2>1 DEF Counting
  <2>3. ASSUME NEW i \in 0..n + 1
        PROVE  g[i] = IF i = 0 THEN 0 ELSE g[i - 1] + OpsOf(p.nodes[i - 1])
    <3>1. CASE i \in 0..n
      <4>1. i = 0 \/ (i - 1 \in 0..n + 1 /\ i - 1 \in 0..n)
        BY <3>1
      <4> QED
        BY <2>2, <3>1, <4>1
    <3>2. CASE i = n + 1
      <4>1. i - 1 = n /\ n \in 0..n /\ n \in 0..n + 1 /\ i \notin 0..n /\ i # 0
        BY <3>2
      <4> QED
        BY <4>1
    <3> QED
      BY <3>1, <3>2
  <2> HIDE DEF g
  <2>4. g = [i \in 0..n + 1 |-> g[i]]
    BY DEF g
  <2>5. Counting(p, n + 1, g)
    BY <2>3, <2>4 DEF Counting
  <2> QED
    BY <2>5
<1> HIDE DEF S
<1>3. \A n \in Nat : n \in S
  BY <1>1, <1>2, EveryNatural
<1> QED
  BY <1>3 DEF S

\* A program draws some number of operations.
LEMMA ViewCountTyped ==
    ASSUME NEW p, p.n_node \in Nat
    PROVE  ViewCount(p) \in Nat
<1> DEFINE n == p.n_node
           f == CHOOSE f : Counting(p, n, f)
           S == {i \in Nat : i <= n => f[i] \in Nat}
<1>1. Counting(p, n, f)
  BY CountingExists, Zenon
<1>2. ViewCount(p) = f[n]
  BY Zenon DEF ViewCount, Counting
<1> HIDE DEF f
<1>3. \A i \in 0..n : f[i] = IF i = 0 THEN 0 ELSE f[i - 1] + OpsOf(p.nodes[i - 1])
  BY <1>1 DEF Counting
<1>4. 0 \in S
  BY <1>3
<1>5. ASSUME NEW i \in Nat, i \in S PROVE i + 1 \in S
  <2>1. OpsOf(p.nodes[i]) \in Nat
    BY DEF OpsOf
  <2>2. CASE i + 1 <= n
    <3>1. i + 1 \in 0..n /\ (i + 1) - 1 = i /\ f[i] \in Nat
      BY <1>5, <2>2
    <3>2. f[i + 1] = f[i] + OpsOf(p.nodes[i])
      BY <1>3, <3>1
    <3> QED
      BY <2>1, <3>1, <3>2
  <2> QED
    BY <2>2
<1> HIDE DEF S
<1>6. \A i \in Nat : i \in S
  BY <1>4, <1>5, EveryNatural
<1> QED
  BY <1>2, <1>6 DEF S

---------------------------------------------------------------------------
(* The buffers of a kernel.                                                  *)

IsProgram(p) ==
    /\ p.n_node \in Nat /\ p.n_child \in Nat /\ p.n_token \in Nat
    /\ \A i \in 0 .. p.n_node - 1 : p.nodes[i].id \in Nat

Fields == {"auth", "len", "cap", "events", "pressed", "capture", "hover", "torn", "wild"}

IsKernel(k) ==
    /\ DOMAIN k = Fields
    /\ IsProgram(k.auth)
    /\ k.len \in [Buffers -> Nat] /\ k.cap \in [Buffers -> Nat]
    /\ k.events \in Seq(Nat)
    /\ k.pressed \in Nat /\ k.hover \in Nat

\* What making room does not touch.
Kept(k, g) ==
    /\ g.auth = k.auth /\ g.events = k.events
    /\ g.pressed = k.pressed /\ g.hover = k.hover

\* Only the buffers of B have another length or another place.
Only(k, g, B) == \A b \in Buffers \ B : g.len[b] = k.len[b] /\ g.cap[b] = k.cap[b]

\* An outcome that adds m elements to buffer b, or is refused.
Filled(k, o, b, m) ==
    /\ IsKernel(o.kernel) /\ Kept(k, o.kernel) /\ Only(k, o.kernel, {b})
    /\ o.status \in {"OK", "OOM"}
    /\ o.status = "OK" /\ ~o.kernel.wild => o.kernel.len[b] = k.len[b] + m

\* The one outcome of Answer.
LEMMA AnswerFields ==
    ASSUME NEW k, NEW answer, NEW o \in Answer(k, answer)
    PROVE  o.kernel = k /\ o.status = answer
BY DEF Answer

\* A kernel with another length or capacity of one buffer.
LEMMA Resized ==
    ASSUME NEW k, IsKernel(k), NEW b \in Buffers, NEW g, DOMAIN g = Fields,
           g.len \in [Buffers -> Nat], g.cap \in [Buffers -> Nat],
           \A f \in Fields \ {"len", "cap", "torn", "wild"} : g[f] = k[f]
    PROVE  IsKernel(g) /\ Kept(k, g)
BY DEF IsKernel, Kept, Fields

\* grow_* changes no length, and no buffer but its own.
LEMMA Grown ==
    ASSUME NEW k, IsKernel(k), NEW b \in Buffers, NEW n \in Nat, NEW o \in Grow(k, b, n)
    PROVE  Filled(k, o, b, 0) /\ o.kernel.len = k.len
<1> DEFINE doubled == 2 * k.cap[b]
           want == k.len[b] + n
           c == [k.cap EXCEPT ![b] = IF doubled < want THEN want ELSE doubled]
           w == k.wild \/ (b = "scene" /\ k.torn)
           grown == [[k EXCEPT !.cap = c] EXCEPT !.wild = w]
           t == k.cap[b] > 0
           torn == [k EXCEPT !.torn = t]
<1>1. k.len[b] \in Nat /\ k.cap[b] \in Nat
  BY DEF IsKernel
<1>2. c \in [Buffers -> Nat] /\ \A d \in Buffers \ {b} : c[d] = k.cap[d]
  BY <1>1 DEF IsKernel
<1>3. \/ o \in Answer(k, "OK") \/ o \in Answer(grown, "OK")
      \/ o \in Answer(k, "OOM") \/ o \in Answer(torn, "OOM")
  BY DEF Grow
<1> HIDE DEF c, w, t
<1>4. IsKernel(grown) /\ Kept(k, grown) /\ grown.len = k.len /\ grown.cap = c
  <2>1. DOMAIN grown = Fields /\ \A f \in Fields \ {"cap", "wild"} : grown[f] = k[f]
    BY DEF IsKernel, Fields
  <2>2. grown.len = k.len /\ grown.cap = c
    BY DEF IsKernel, Fields
  <2> HIDE DEF grown
  <2>3. grown.len \in [Buffers -> Nat] /\ grown.cap \in [Buffers -> Nat]
    BY <1>2, <2>2 DEF IsKernel
  <2>4. \A f \in Fields \ {"len", "cap", "torn", "wild"} : grown[f] = k[f]
    BY <2>1
  <2> QED
    BY <2>1, <2>2, <2>3, <2>4, Resized
<1>5. IsKernel(torn) /\ Kept(k, torn) /\ torn.len = k.len /\ torn.cap = k.cap
  <2>1. DOMAIN torn = Fields /\ \A f \in Fields \ {"torn"} : torn[f] = k[f]
    BY DEF IsKernel, Fields
  <2>2. torn.len = k.len /\ torn.cap = k.cap
    BY DEF IsKernel, Fields
  <2> HIDE DEF torn
  <2>3. torn.len \in [Buffers -> Nat] /\ torn.cap \in [Buffers -> Nat]
    BY <1>2, <2>2 DEF IsKernel
  <2>4. \A f \in Fields \ {"len", "cap", "torn", "wild"} : torn[f] = k[f]
    BY <2>1
  <2> QED
    BY <2>1, <2>2, <2>3, <2>4, Resized
<1> HIDE DEF grown, torn
<1>6. /\ \/ o.kernel = k \/ o.kernel = grown \/ o.kernel = torn
      /\ o.status \in {"OK", "OOM"}
  BY <1>3 DEF Answer
<1>7. Kept(k, k)
  BY DEF Kept
<1> QED
  BY <1>1, <1>2, <1>4, <1>5, <1>6, <1>7 DEF Filled, Only

\* A buffer with room enough.
LEMMA Unchanged ==
    ASSUME NEW k, IsKernel(k), NEW b \in Buffers, NEW o \in Answer(k, "OK")
    PROVE  Filled(k, o, b, 0) /\ o.kernel.len = k.len
<1>1. o.kernel = k /\ o.status = "OK"
  BY AnswerFields
<1>2. k.len[b] \in Nat
  BY DEF IsKernel
<1> QED
  BY <1>1, <1>2 DEF Filled, Kept, Only

\* The same of the callers' idiom.
LEMMA Ensured ==
    ASSUME NEW k, IsKernel(k), NEW b \in Buffers, NEW n \in Nat, NEW o \in Ensure(k, b, n)
    PROVE  Filled(k, o, b, 0)
<1>1. k.cap[b] \in Nat
  BY DEF IsKernel
<1>2. CASE k.cap[b] < n
  <2>1. n - k.cap[b] \in Nat /\ o \in Grow(k, b, n - k.cap[b])
    BY <1>1, <1>2 DEF Ensure
  <2> QED
    BY <2>1, Grown
<1>3. CASE ~(k.cap[b] < n)
  BY <1>3, Unchanged DEF Ensure
<1> QED
  BY <1>2, <1>3

\* What the step after an outcome may lead to.
LEMMA Adding ==
    ASSUME NEW k, NEW g, NEW o, NEW b \in Buffers, NEW m \in Nat, NEW n \in Nat, IsKernel(k),
           Filled(k, g, b, m), g.status = "OK", ~g.kernel.wild, Filled(g.kernel, o, b, n)
    PROVE  Filled(k, o, b, m + n)
<1>1. k.len[b] \in Nat
  BY DEF IsKernel
<1> QED
  BY <1>1 DEF Filled, Kept, Only

\* One element more, or none.
LEMMA Appended1 ==
    ASSUME NEW k, IsKernel(k), NEW b \in Buffers, NEW o \in Append1(k, b)
    PROVE  /\ Filled(k, o, b, 1)
           /\ o.status # "OK" \/ o.kernel.wild => o.kernel.len = k.len
<1> DEFINE room == IF k.len[b] >= k.cap[b] THEN Grow(k, b, 1) ELSE Answer(k, "OK")
           Longer(g) == [g EXCEPT !.len[b] = @ + 1]
<1>1. PICK g \in room : IF g.status = "OK" /\ ~g.kernel.wild
                        THEN o \in Answer(Longer(g.kernel), "OK") ELSE o = g
  BY Zenon DEF Append1, Then
<1>2. Filled(k, g, b, 0) /\ g.kernel.len = k.len
  BY Grown, Unchanged
<1> HIDE DEF room
<1>3. CASE g.status = "OK" /\ ~g.kernel.wild
  <2> DEFINE h == g.kernel
             l == [h.len EXCEPT ![b] = h.len[b] + 1]
             r == [h EXCEPT !.len = l]
  <2>1. o.kernel = r /\ o.status = "OK"
    BY <1>1, <1>3, AnswerFields
  <2>2. IsKernel(h)
    BY <1>2 DEF Filled
  <2> HIDE DEF h
  <2>3. l \in [Buffers -> Nat] /\ l[b] = h.len[b] + 1 /\ \A d \in Buffers \ {b} : l[d] = h.len[d]
    BY <2>2 DEF IsKernel
  <2> HIDE DEF l
  <2>4. DOMAIN r = Fields /\ \A f \in Fields \ {"len"} : r[f] = h[f]
    BY <2>2 DEF IsKernel, Fields
  <2>5. r.len = l /\ r.cap = h.cap /\ r.wild = h.wild
    BY <2>2 DEF IsKernel, Fields
  <2> HIDE DEF r
  <2>6. IsKernel(r) /\ Kept(h, r)
    BY <2>2, <2>3, <2>4, <2>5, Resized DEF IsKernel
  <2>7. Filled(h, o, b, 1)
    BY <2>1, <2>3, <2>5, <2>6 DEF Filled, Only
  <2>8. Filled(k, o, b, 0 + 1)
    BY <1>2, <1>3, <2>7, Adding DEF h
  <2> QED
    BY <1>3, <2>1, <2>5, <2>8 DEF h
<1>4. CASE ~(g.status = "OK" /\ ~g.kernel.wild)
  BY <1>1, <1>2, <1>4 DEF Filled
<1> QED
  BY <1>3, <1>4

---------------------------------------------------------------------------
(* AppendMany.                                                               *)

NextAppends(S, b) == Then(S, LAMBDA g : Append1(g, b))

Appends(k, b, n, f) ==
    f = [j \in 0..n |-> IF j = 0 THEN Answer(k, "OK") ELSE NextAppends(f[j - 1], b)]

\* The recursive function of AppendMany exists.
LEMMA AppendsExist ==
    ASSUME NEW k, NEW b
    PROVE  \A n \in Nat : \E f : Appends(k, b, n, f)
<1> DEFINE S == {n \in Nat : \E f : Appends(k, b, n, f)}
<1>1. 0 \in S
  <2>1. Appends(k, b, 0, [j \in 0..0 |-> Answer(k, "OK")])
    BY DEF Appends
  <2> QED
    BY <2>1
<1>2. ASSUME NEW n \in Nat, n \in S PROVE n + 1 \in S
  <2>1. PICK f : Appends(k, b, n, f)
    BY <1>2
  <2> DEFINE g == [j \in 0..n + 1 |-> IF j \in 0..n THEN f[j] ELSE NextAppends(f[n], b)]
  <2>2. \A j \in 0..n : f[j] = IF j = 0 THEN Answer(k, "OK") ELSE NextAppends(f[j - 1], b)
    BY <2>1 DEF Appends
  <2>3. ASSUME NEW j \in 0..n + 1
        PROVE  g[j] = IF j = 0 THEN Answer(k, "OK") ELSE NextAppends(g[j - 1], b)
    <3>1. CASE j \in 0..n
      <4>1. j = 0 \/ (j - 1 \in 0..n + 1 /\ j - 1 \in 0..n)
        BY <3>1
      <4> QED
        BY <2>2, <3>1, <4>1
    <3>2. CASE j = n + 1
      <4>1. j - 1 = n /\ n \in 0..n /\ n \in 0..n + 1 /\ j \notin 0..n /\ j # 0
        BY <3>2
      <4> QED
        BY <4>1
    <3> QED
      BY <3>1, <3>2
  <2> HIDE DEF g
  <2>4. g = [j \in 0..n + 1 |-> g[j]]
    BY DEF g
  <2>5. Appends(k, b, n + 1, g)
    BY <2>3, <2>4 DEF Appends
  <2> QED
    BY <2>5
<1> HIDE DEF S
<1>3. \A n \in Nat : n \in S
  BY <1>1, <1>2, EveryNatural
<1> QED
  BY <1>3 DEF S

\* AppendMany adds m elements or is refused.
LEMMA Appended ==
    ASSUME NEW k, IsKernel(k), NEW b \in Buffers, NEW m \in Nat, NEW o \in AppendMany(k, b, m)
    PROVE  Filled(k, o, b, m)
<1> DEFINE f == CHOOSE f : Appends(k, b, m, f)
           S == {j \in Nat : j <= m => \A q \in f[j] : Filled(k, q, b, j)}
<1>1. Appends(k, b, m, f)
  BY AppendsExist, Zenon
<1>2. AppendMany(k, b, m) = f[m]
  BY Zenon DEF AppendMany, Appends, NextAppends
<1> HIDE DEF f
<1>3. \A j \in 0..m : f[j] = IF j = 0 THEN Answer(k, "OK") ELSE NextAppends(f[j - 1], b)
  BY <1>1 DEF Appends
<1>4. 0 \in S
  <2>1. f[0] = Answer(k, "OK")
    BY <1>3
  <2> QED
    BY <2>1, Unchanged
<1>5. ASSUME NEW j \in Nat, j \in S PROVE j + 1 \in S
  <2>1. SUFFICES ASSUME j + 1 <= m, NEW q \in f[j + 1] PROVE Filled(k, q, b, j + 1)
    OBVIOUS
  <2>2. j + 1 \in 0..m /\ (j + 1) - 1 = j /\ j <= m /\ j + 1 # 0
    BY <2>1
  <2>3. f[j + 1] = NextAppends(f[j], b)
    BY <1>3, <2>2
  <2>4. PICK g \in f[j] : IF g.status = "OK" /\ ~g.kernel.wild
                          THEN q \in Append1(g.kernel, b) ELSE q = g
    BY <2>1, <2>3, Zenon DEF NextAppends, Then
  <2>5. Filled(k, g, b, j)
    BY <1>5, <2>2, <2>4
  <2>6. CASE g.status = "OK" /\ ~g.kernel.wild
    <3>1. Filled(g.kernel, q, b, 1)
      BY <2>4, <2>5, <2>6, Appended1 DEF Filled
    <3> QED
      BY <2>5, <2>6, <3>1, Adding
  <2>7. CASE ~(g.status = "OK" /\ ~g.kernel.wild)
    BY <2>4, <2>5, <2>7 DEF Filled
  <2> QED
    BY <2>6, <2>7
<1> HIDE DEF S
<1>6. \A j \in Nat : j \in S
  BY <1>4, <1>5, EveryNatural
<1> QED
  BY <1>2, <1>6 DEF S

---------------------------------------------------------------------------
(* The phases of a frame.                                                    *)

Touched(k, o, B) == IsKernel(o.kernel) /\ Kept(k, o.kernel) /\ Only(k, o.kernel, B)

WithLength(k, b, n) == [k EXCEPT !.len[b] = n]

\* A kernel with another length of one buffer.
LEMMA SetLength ==
    ASSUME NEW k, IsKernel(k), NEW b \in Buffers, NEW n \in Nat
    PROVE  /\ IsKernel(WithLength(k, b, n)) /\ Kept(k, WithLength(k, b, n))
           /\ Only(k, WithLength(k, b, n), {b}) /\ WithLength(k, b, n).len[b] = n
           /\ WithLength(k, b, n).wild = k.wild
<1> DEFINE l == [k.len EXCEPT ![b] = n]
           g == [k EXCEPT !.len = l]
<1>1. l \in [Buffers -> Nat] /\ l[b] = n /\ \A d \in Buffers \ {b} : l[d] = k.len[d]
  BY DEF IsKernel
<1>2. g = WithLength(k, b, n)
  BY DEF WithLength
<1> HIDE DEF l
<1>3. DOMAIN g = Fields /\ \A f \in Fields \ {"len"} : g[f] = k[f]
  BY DEF IsKernel, Fields
<1>4. g.len = l /\ g.cap = k.cap /\ g.wild = k.wild
  BY DEF IsKernel, Fields
<1> HIDE DEF g
<1>5. g.len \in [Buffers -> Nat] /\ g.cap \in [Buffers -> Nat]
  BY <1>1, <1>4 DEF IsKernel
<1>6. \A f \in Fields \ {"len", "cap", "torn", "wild"} : g[f] = k[f]
  BY <1>3
<1>7. IsKernel(g) /\ Kept(k, g)
  BY <1>3, <1>5, <1>6, Resized
<1> QED
  BY <1>1, <1>2, <1>4, <1>7 DEF Only

\* A kernel that has, or has not, written outside a buffer.
LEMMA SetWild ==
    ASSUME NEW k, IsKernel(k), NEW w, NEW g, g = [k EXCEPT !.wild = w]
    PROVE  IsKernel(g) /\ Kept(k, g) /\ g.len = k.len /\ g.cap = k.cap /\ g.wild = w
<1>1. DOMAIN g = Fields /\ \A f \in Fields \ {"wild"} : g[f] = k[f]
  BY DEF IsKernel, Fields
<1>2. g.len = k.len /\ g.cap = k.cap /\ g.wild = w
  BY DEF IsKernel, Fields
<1> QED
  BY <1>1, <1>2, Zenon DEF IsKernel, Kept, Fields

\* Copy writes one buffer.
LEMMA Copied ==
    ASSUME NEW k, IsKernel(k), NEW b \in Buffers, NEW n \in Nat
    PROVE  /\ IsKernel(Copy(k, b, n)) /\ Kept(k, Copy(k, b, n)) /\ Only(k, Copy(k, b, n), {b})
           /\ Copy(k, b, n).len[b] = n
<1> DEFINE g == WithLength(k, b, n)
           w == k.wild \/ n > k.cap[b]
           h == [g EXCEPT !.wild = w]
<1>1. Copy(k, b, n) = h
  <2>1. g.wild = k.wild
    BY SetLength
  <2>2. Copy(k, b, n) = [k EXCEPT !.len[b] = n, !.wild = w]
    BY DEF Copy
  <2> QED
    BY <2>2 DEF WithLength
<1>2. IsKernel(g) /\ Kept(k, g) /\ Only(k, g, {b}) /\ g.len[b] = n
  BY SetLength
<1> HIDE DEF g, w
<1>3. IsKernel(h) /\ Kept(g, h) /\ h.len = g.len /\ h.cap = g.cap
  BY <1>2, SetWild
<1> QED
  BY <1>1, <1>2, <1>3 DEF Kept, Only

\* ui_lower_scene.
LEMMA Lowered ==
    ASSUME NEW k, IsKernel(k), NEW root, NEW o \in LowerScene(k, root)
    PROVE  /\ Touched(k, o, {"scene", "schild"})
           /\ o.status \in {"OK", "OOM", "MISSING_NODE", "UNSUPPORTED_NODE"}
           /\ o.status = "OK" /\ ~o.kernel.wild => o.kernel.len["scene"] = k.auth.n_node
<1> DEFINE p == k.auth
           empties == {i \in 0 .. p.n_node - 1 : p.nodes[i].kind = "EMPTY"}
           lowered == IF empties = {} THEN p.n_node ELSE FirstOf(empties)
           c(g) == Copy(g, "schild", p.n_child)
           s(g) == [c(g) EXCEPT !.wild = @ \/ c(g).torn \/ lowered > c(g).cap["scene"]]
           Lower(g) == IF empties # {} THEN Answer(s(g), "UNSUPPORTED_NODE")
                       ELSE Answer([s(g) EXCEPT !.len["scene"] = p.n_node], "OK")
<1>1. CASE o \in Answer(k, "MISSING_NODE")
  BY <1>1, AnswerFields DEF Touched, Kept, Only
<1>2. CASE o \notin Answer(k, "MISSING_NODE")
  <2>1. PICK a \in Ensure(k, "scene", p.n_node) :
          \E b \in IF a.status = "OK" /\ ~a.kernel.wild
                   THEN Ensure(a.kernel, "schild", p.n_child) ELSE {a} :
             o \in IF b.status = "OK" /\ ~b.kernel.wild THEN Lower(b.kernel) ELSE {b}
    <3> HIDE DEF empties, lowered
    <3> QED
      BY <1>2, Zenon DEF LowerScene, Then, empties, lowered
  <2>2. PICK b \in IF a.status = "OK" /\ ~a.kernel.wild
                   THEN Ensure(a.kernel, "schild", p.n_child) ELSE {a} :
             o \in IF b.status = "OK" /\ ~b.kernel.wild THEN Lower(b.kernel) ELSE {b}
    BY <2>1
  <2> HIDE DEF Lower
  <2>3. p.n_node \in Nat /\ p.n_child \in Nat
    BY DEF IsKernel, IsProgram
  <2>4. Filled(k, a, "scene", 0)
    BY <2>3, Ensured DEF Buffers
  <2>5. Touched(k, b, {"scene", "schild"}) /\ b.status \in {"OK", "OOM"}
    <3>1. CASE b = a
      BY <2>4, <3>1 DEF Filled, Touched, Only
    <3>2. CASE b \in Ensure(a.kernel, "schild", p.n_child)
      <4>1. IsKernel(a.kernel)
        BY <2>4 DEF Filled
      <4>2. Filled(a.kernel, b, "schild", 0)
        BY <2>3, <3>2, <4>1, Ensured DEF Buffers
      <4> QED
        BY <2>4, <4>2 DEF Filled, Touched, Kept, Only
    <3> QED
      BY <2>2, <3>1, <3>2
  <2>6. CASE o = b /\ ~(b.status = "OK" /\ ~b.kernel.wild)
    BY <2>5, <2>6
  <2>7. CASE o \in Lower(b.kernel)
    <3> DEFINE g == b.kernel
               w == c(g).wild \/ c(g).torn \/ lowered > c(g).cap["scene"]
               z == WithLength(s(g), "scene", p.n_node)
    <3>0. o \in Answer(s(g), "UNSUPPORTED_NODE") \/ o \in Answer(z, "OK")
      <4> HIDE DEF s
      <4> QED
        BY <2>7, Zenon DEF Lower, WithLength
    <3>1. IsKernel(g) /\ Kept(k, g) /\ Only(k, g, {"scene", "schild"})
      BY <2>5 DEF Touched
    <3>9. "scene" \in Buffers /\ "schild" \in Buffers
      BY DEF Buffers
    <3> HIDE DEF g
    <3>2. /\ IsKernel(c(g)) /\ Kept(g, c(g)) /\ Only(g, c(g), {"schild"})
      BY <2>3, <3>1, Copied DEF Buffers
    <3>3. s(g) = [c(g) EXCEPT !.wild = w]
      OBVIOUS
    <3> HIDE DEF c, w
    <3>4. IsKernel(s(g)) /\ Kept(c(g), s(g)) /\ s(g).len = c(g).len /\ s(g).cap = c(g).cap
      BY <3>2, <3>3, SetWild
    <3> HIDE DEF s
    <3>5. /\ IsKernel(z) /\ Kept(s(g), z) /\ Only(s(g), z, {"scene"})
          /\ z.len["scene"] = p.n_node
      BY <2>3, <3>4, <3>9, SetLength
    <3>6. \/ o.kernel = s(g) /\ o.status = "UNSUPPORTED_NODE"
          \/ o.kernel = z /\ o.status = "OK"
      BY <3>0 DEF Answer
    <3> HIDE DEF z
    <3>7. CASE o.kernel = s(g) /\ o.status = "UNSUPPORTED_NODE"
      BY <3>1, <3>2, <3>4, <3>7 DEF Touched, Kept, Only
    <3>8. CASE o.kernel = z /\ o.status = "OK"
      BY <3>1, <3>2, <3>4, <3>5, <3>8 DEF Touched, Kept, Only
    <3> QED
      BY <3>6, <3>7, <3>8
  <2> QED
    BY <2>2, <2>6, <2>7
<1> QED
  BY <1>1, <1>2

\* ui_solve_scene.
LEMMA Solved ==
    ASSUME NEW k, IsKernel(k), NEW o \in SolveScene(k)
    PROVE  Filled(k, o, "solve", k.len["scene"])
<1>1. k.len["scene"] \in Nat /\ "solve" \in Buffers /\ "scene" \in Buffers
  BY DEF IsKernel, Buffers
<1>2. PICK a \in Ensure(k, "solve", k.len["scene"]) :
        o \in IF a.status = "OK" /\ ~a.kernel.wild
              THEN AppendMany(a.kernel, "solve", a.kernel.len["scene"]) ELSE {a}
  BY Zenon DEF SolveScene, Then
<1>3. Filled(k, a, "solve", 0)
  BY <1>1, Ensured
<1>4. IsKernel(a.kernel) /\ a.kernel.len["scene"] = k.len["scene"]
  BY <1>1, <1>3 DEF Filled, Only
<1>5. CASE a.status = "OK" /\ ~a.kernel.wild
  <2>1. o \in AppendMany(a.kernel, "solve", k.len["scene"])
    BY <1>2, <1>4, <1>5
  <2>2. Filled(a.kernel, o, "solve", k.len["scene"])
    BY <1>1, <1>4, <2>1, Appended
  <2>3. Filled(k, o, "solve", 0 + k.len["scene"])
    BY <1>1, <1>3, <1>5, <2>2, Adding
  <2> QED
    BY <1>1, <2>3
<1>6. CASE ~(a.status = "OK" /\ ~a.kernel.wild)
  BY <1>2, <1>3, <1>6 DEF Filled
<1> QED
  BY <1>5, <1>6

\* ui_interact_step: nothing fires and the press, if it changes, is let go or
\* goes to the node under the pointer; or the node under it, which is pressed,
\* fires and is let go; or the event finds no room and nothing changes.
Quiet(k, o, hover) ==
    /\ o.status = "OK" /\ o.kernel.events = k.events /\ o.kernel.len = k.len
    /\ o.kernel.cap = k.cap /\ o.kernel.pressed \in {k.pressed, 0, hover}

Fires(k, o, hover) ==
    /\ o.status = "OK" /\ k.pressed # 0 /\ k.pressed = hover
    /\ o.kernel.events = Append(k.events, k.pressed) /\ o.kernel.pressed = 0
    /\ o.kernel.len["event"] = k.len["event"] + 1 /\ Only(k, o.kernel, {"event"})

Refused(k, o, hover) ==
    /\ o.status # "OK" \/ o.kernel.wild
    /\ o.status \in {"OK", "OOM"}
    /\ k.pressed # 0 /\ k.pressed = hover
    /\ o.kernel.events = k.events /\ o.kernel.pressed = k.pressed
    /\ o.kernel.len = k.len /\ Only(k, o.kernel, {"event"})

\* The pointer's step is one of the three.
LEMMA Interacted ==
    ASSUME NEW k, IsKernel(k), NEW hover \in Nat, NEW raw, NEW o \in InteractStep(k, hover, raw)
    PROVE  /\ IsKernel(o.kernel) /\ o.kernel.auth = k.auth
           /\ Quiet(k, o, hover) \/ Fires(k, o, hover) \/ Refused(k, o, hover)
<1> DEFINE released == Released(k)
           e == Append(released.events, k.pressed)
           activated == [released EXCEPT !.events = e]
           Done(g) == [activated EXCEPT !.len = g.len, !.cap = g.cap]
           firing == Then(Append1(k, "event"), LAMBDA g : Answer(Done(g), "OK"))
           moved == [k EXCEPT !.hover = hover]
           c == IF hover # 0 /\ k.capture = 0 THEN hover ELSE k.capture
           pressed == [k EXCEPT !.pressed = hover, !.capture = c]
<1>1. DOMAIN k = Fields
  BY DEF IsKernel
<1>2. /\ DOMAIN released = Fields /\ released.pressed = 0
      /\ \A f \in Fields \ {"pressed", "capture"} : released[f] = k[f]
  BY <1>1 DEF Released, Fields
<1>3. /\ DOMAIN moved = Fields /\ moved.hover = hover
      /\ \A f \in Fields \ {"hover"} : moved[f] = k[f]
  BY <1>1 DEF Fields
<1>4. /\ DOMAIN pressed = Fields /\ pressed.pressed = hover
      /\ \A f \in Fields \ {"pressed", "capture"} : pressed[f] = k[f]
  <2> HIDE DEF c
  <2> QED
    BY <1>1 DEF Fields
<1>5. \/ o \in Answer(moved, "OK") \/ o \in Answer(pressed, "OK")
      \/ o \in Answer(released, "OK") \/ o \in Answer(k, "OK")
      \/ k.pressed # 0 /\ k.pressed = hover /\ o \in firing
  <2>1. CASE raw = "POINTER_MOVED"
    BY <2>1 DEF InteractStep
  <2>2. CASE raw = "POINTER_PRESSED"
    BY <2>2 DEF InteractStep
  <2>3. CASE raw = "POINTER_RELEASED" /\ k.pressed # 0 /\ k.pressed = hover
    <3>1. raw # "POINTER_MOVED" /\ raw # "POINTER_PRESSED"
      BY <2>3
    <3>2. InteractStep(k, hover, raw) = firing
      BY <2>3, <3>1, Zenon DEF InteractStep
    <3> QED
      BY <2>3, <3>2, Zenon
  <2>4. CASE raw = "POINTER_RELEASED" /\ ~(k.pressed # 0 /\ k.pressed = hover)
    BY <2>4 DEF InteractStep
  <2>5. CASE raw \notin {"POINTER_MOVED", "POINTER_PRESSED", "POINTER_RELEASED"}
    BY <2>5 DEF InteractStep
  <2> QED
    BY <2>1, <2>2, <2>3, <2>4, <2>5
<1> HIDE DEF released, moved, pressed
<1>6. ASSUME NEW g \in {moved, pressed, released, k}, o \in Answer(g, "OK")
      PROVE  IsKernel(o.kernel) /\ o.kernel.auth = k.auth /\ Quiet(k, o, hover)
  <2>1. o.kernel = g /\ o.status = "OK"
    BY <1>6, AnswerFields
  <2>2. /\ DOMAIN g = Fields /\ g.pressed \in {k.pressed, 0, hover} /\ g.hover \in {k.hover, hover}
        /\ \A f \in Fields \ {"pressed", "capture", "hover"} : g[f] = k[f]
    BY <1>1, <1>2, <1>3, <1>4 DEF Fields
  <2>3. /\ g.events = k.events /\ g.len = k.len /\ g.cap = k.cap /\ g.auth = k.auth
    BY <2>2 DEF Fields
  <2>4. IsKernel(g)
    BY <2>2, <2>3 DEF IsKernel
  <2> QED
    BY <2>1, <2>2, <2>3, <2>4 DEF Quiet
<1>7. ASSUME k.pressed # 0, k.pressed = hover, o \in firing
      PROVE  /\ IsKernel(o.kernel) /\ o.kernel.auth = k.auth
             /\ Fires(k, o, hover) \/ Refused(k, o, hover)
  <2>1. PICK g \in Append1(k, "event") :
          IF g.status = "OK" /\ ~g.kernel.wild THEN o \in Answer(Done(g.kernel), "OK") ELSE o = g
    BY <1>7, Zenon DEF Then
  <2>2. "event" \in Buffers
    BY DEF Buffers
  <2>3. Filled(k, g, "event", 1) /\ (g.status # "OK" \/ g.kernel.wild => g.kernel.len = k.len)
    BY <2>2, Appended1
  <2>4. CASE ~(g.status = "OK" /\ ~g.kernel.wild)
    BY <1>7, <2>1, <2>3, <2>4 DEF Filled, Refused, Kept
  <2>5. CASE g.status = "OK" /\ ~g.kernel.wild
    <3> DEFINE h == g.kernel
               d == Done(h)
    <3>1. o.kernel = d /\ o.status = "OK"
      BY <2>1, <2>5, AnswerFields
    <3>2. e = Append(k.events, k.pressed) /\ e \in Seq(Nat)
      BY <1>2 DEF IsKernel, Fields
    <3> HIDE DEF e
    <3>3. /\ DOMAIN d = Fields /\ d.events = e /\ d.len = h.len /\ d.cap = h.cap
          /\ d.pressed = 0 /\ d.hover = k.hover /\ d.auth = k.auth
      BY <1>2 DEF Fields
    <3> HIDE DEF d
    <3>4. IsKernel(h) /\ Only(k, h, {"event"}) /\ h.len["event"] = k.len["event"] + 1
      BY <2>3, <2>5 DEF Filled
    <3> HIDE DEF h
    <3>5. IsKernel(d)
      BY <3>2, <3>3, <3>4 DEF IsKernel
    <3> QED
      BY <1>7, <3>1, <3>2, <3>3, <3>4, <3>5 DEF Fires, Only
  <2> QED
    BY <2>4, <2>5
<1> QED
  BY <1>5, <1>6, <1>7

\* A bounded one has a greatest.
LEMMA GreatestNatural ==
    ASSUME NEW n \in Nat, NEW S \in SUBSET (0 .. n), S # {}
    PROVE  \E t \in S : \A u \in S : u <= t
<1> DEFINE R == {i \in 0 .. n : n - i \in S}
<1>1. PICK s \in S : TRUE
  OBVIOUS
<1>2. n - s \in R
  <2>1. n - s \in 0 .. n /\ n - (n - s) = s
    BY <1>1
  <2> QED
    BY <1>1, <2>1
<1>3. R \in SUBSET Nat /\ R # {}
  BY <1>2
<1>4. PICK r \in R : \A q \in R : r <= q
  BY <1>3, LeastNatural, Zenon
<1>5. ASSUME NEW u \in S PROVE u <= n - r
  <2>1. u \in 0 .. n /\ n - u \in 0 .. n /\ n - (n - u) = u
    OBVIOUS
  <2>2. n - u \in R
    BY <2>1
  <2>3. r <= n - u /\ r \in Nat
    BY <1>3, <1>4, <2>2
  <2> QED
    BY <2>1, <2>3
<1> QED
  BY <1>4, <1>5

\* What is under the pointer is a node's identity, or none.
LEMMA HoverTyped ==
    ASSUME NEW p, IsProgram(p)
    PROVE  HoverOf(p) \in Nat
<1> DEFINE seen == {i \in 0 .. p.n_node - 1 : p.nodes[i].drawn}
           top == CHOOSE i \in seen : \A j \in seen : j <= i
<1>1. HoverOf(p) = IF seen = {} THEN 0 ELSE p.nodes[top].id
  BY DEF HoverOf
<1>2. CASE seen # {}
  <2>1. p.n_node \in Nat /\ seen \in SUBSET (0 .. p.n_node) /\ seen \in SUBSET (0 .. p.n_node - 1)
    BY DEF IsProgram
  <2> HIDE DEF seen
  <2>2. \E i \in seen : \A j \in seen : j <= i
    BY <1>2, <2>1, GreatestNatural, Zenon
  <2>3. top \in seen
    BY <2>2
  <2> HIDE DEF top
  <2> QED
    BY <1>1, <1>2, <2>1, <2>3 DEF IsProgram
<1> QED
  BY <1>1, <1>2

\* A reset empties the buffers of a frame.
LEMMA FrameStarts ==
    ASSUME NEW k, IsKernel(k)
    PROVE  /\ IsKernel(ResetFrame(k))
           /\ ResetFrame(k).auth = k.auth /\ ResetFrame(k).pressed = k.pressed
           /\ ResetFrame(k).hover = k.hover /\ ResetFrame(k).events = <<>>
           /\ \A b \in FrameBuffers : ResetFrame(k).len[b] = 0
<1> DEFINE l == [b \in Buffers |-> IF b \in FrameBuffers THEN 0 ELSE k.len[b]]
           r == [k EXCEPT !.len = l, !.events = <<>>]
<1>1. l \in [Buffers -> Nat] /\ \A b \in FrameBuffers : l[b] = 0
  BY DEF IsKernel, FrameBuffers, Buffers
<1>2. ResetFrame(k) = r
  BY DEF ResetFrame
<1> HIDE DEF l
<1>3. /\ DOMAIN r = Fields /\ r.len = l /\ r.events = <<>> /\ r.cap = k.cap
      /\ r.auth = k.auth /\ r.pressed = k.pressed /\ r.hover = k.hover
  BY DEF IsKernel, Fields
<1> HIDE DEF r
<1>4. IsKernel(r)
  BY <1>1, <1>3 DEF IsKernel
<1> QED
  BY <1>1, <1>2, <1>3, <1>4

\* What a frame leaves, whatever it answers.
FrameEnds(k, o) ==
    /\ IsKernel(o.kernel) /\ o.kernel.auth = k.auth
    /\ o.kernel.len["event"] = Len(o.kernel.events)
    /\ o.status = "OK" /\ ~o.kernel.wild =>
          /\ o.kernel.len["view"] = ViewCount(k.auth)
          /\ o.kernel.len["solve"] = k.auth.n_node
          /\ Len(o.kernel.events) <= 1
    /\ o.status # "OK" => o.kernel.events = <<>>
    /\ o.status \in {"MISSING_NODE", "UNSUPPORTED_NODE"} => o.kernel.len["view"] = 0
    /\ \/ o.kernel.events = <<>>
       \/ k.pressed # 0 /\ o.kernel.events = <<k.pressed>> /\ o.kernel.pressed = 0

\* The phases, one after the other, each on what the one before it left.
LEMMA FrameRuns ==
    ASSUME NEW k, IsKernel(k), NEW root, NEW raw, NEW o \in Frame(k, root, raw)
    PROVE  FrameEnds(k, o)
<1> DEFINE r == ResetFrame(k)
           Goes(x) == x.status = "OK" /\ ~x.kernel.wild
           hover == HoverOf(k.auth)
<1>1. PICK a \in LowerScene(r, root) :
        \E b \in IF Goes(a) THEN SolveScene(a.kernel) ELSE {a} :
          \E c \in IF Goes(b) THEN RenderOps(b.kernel) ELSE {b} :
             o \in IF Goes(c) THEN InteractStep(c.kernel, HoverOf(c.kernel.auth), raw) ELSE {c}
  BY Zenon DEF Frame, Then
<1>2. PICK b \in IF Goes(a) THEN SolveScene(a.kernel) ELSE {a} :
        \E c \in IF Goes(b) THEN RenderOps(b.kernel) ELSE {b} :
           o \in IF Goes(c) THEN InteractStep(c.kernel, HoverOf(c.kernel.auth), raw) ELSE {c}
  BY <1>1, Zenon
<1>3. PICK c \in IF Goes(b) THEN RenderOps(b.kernel) ELSE {b} :
        o \in IF Goes(c) THEN InteractStep(c.kernel, HoverOf(c.kernel.auth), raw) ELSE {c}
  BY <1>2, Zenon
<1>4. /\ IsKernel(r) /\ r.auth = k.auth /\ r.pressed = k.pressed /\ r.events = <<>>
      /\ \A x \in FrameBuffers : r.len[x] = 0
  BY FrameStarts
<1> HIDE DEF r
<1>5. IsProgram(k.auth) /\ hover \in Nat /\ ViewCount(k.auth) \in Nat /\ k.auth.n_node \in Nat
  BY HoverTyped, ViewCountTyped DEF IsKernel, IsProgram
<1> HIDE DEF hover
<1>20. /\ r.len["solve"] = 0 /\ r.len["view"] = 0 /\ r.len["event"] = 0
       /\ {"solve", "view", "event", "scene", "schild"} \subseteq Buffers
  BY <1>4 DEF FrameBuffers, Buffers
\* An outcome from which the frame does not go on to the interaction.
<1> DEFINE Early(x) == /\ IsKernel(x.kernel) /\ Kept(r, x.kernel) /\ x.kernel.len["event"] = 0
                       /\ x.status \in {"MISSING_NODE", "UNSUPPORTED_NODE"} =>
                             x.kernel.len["view"] = 0
<1>6. ASSUME NEW x, Early(x), ~Goes(x) PROVE FrameEnds(k, x)
  <2>1. x.kernel.events = <<>> /\ Len(x.kernel.events) = 0 /\ x.kernel.auth = k.auth
    BY <1>4, <1>6 DEF Kept
  <2> QED
    BY <1>6, <2>1 DEF FrameEnds
<1>7. /\ Early(a)
      /\ Goes(a) => /\ a.kernel.len["scene"] = k.auth.n_node /\ a.kernel.len["solve"] = 0
                    /\ a.kernel.len["view"] = 0
  <2>1. /\ Touched(r, a, {"scene", "schild"})
        /\ a.status = "OK" /\ ~a.kernel.wild => a.kernel.len["scene"] = r.auth.n_node
    BY <1>1, <1>4, Lowered
  <2>2. \A x \in {"solve", "view", "event"} : a.kernel.len[x] = r.len[x]
    BY <1>20, <2>1 DEF Touched, Only
  <2> QED
    BY <1>4, <1>20, <2>1, <2>2 DEF Touched
<1>8. /\ Early(b)
      /\ Goes(b) => b.kernel.len["solve"] = k.auth.n_node /\ b.kernel.len["view"] = 0
  <2>1. CASE Goes(a)
    <3>1. b \in SolveScene(a.kernel)
      BY <1>2, <2>1
    <3>2. Filled(a.kernel, b, "solve", a.kernel.len["scene"])
      BY <1>7, <3>1, Solved
    <3>3. \A x \in {"view", "event"} : b.kernel.len[x] = a.kernel.len[x]
      BY <1>20, <3>2 DEF Filled, Only
    <3> QED
      BY <1>5, <1>7, <2>1, <3>2, <3>3 DEF Filled, Kept
  <2>2. CASE ~Goes(a)
    BY <1>2, <1>7, <2>2
  <2> QED
    BY <2>1, <2>2
<1>9. /\ Early(c)
      /\ Goes(c) => /\ c.kernel.len["solve"] = k.auth.n_node
                    /\ c.kernel.len["view"] = ViewCount(k.auth)
  <2>1. CASE Goes(b)
    <3>1. c \in RenderOps(b.kernel) /\ b.kernel.auth = k.auth
      BY <1>3, <1>4, <1>8, <2>1 DEF Kept
    <3>2. Filled(b.kernel, c, "view", ViewCount(k.auth))
      BY <1>5, <1>8, <1>20, <3>1, Appended DEF RenderOps
    <3>3. \A x \in {"solve", "event"} : c.kernel.len[x] = b.kernel.len[x]
      BY <1>20, <3>2 DEF Filled, Only
    <3> QED
      BY <1>5, <1>8, <2>1, <3>2, <3>3 DEF Filled, Kept
  <2>2. CASE ~Goes(b)
    BY <1>3, <1>8, <2>2
  <2> QED
    BY <2>1, <2>2
<1>10. CASE ~Goes(c)
  BY <1>3, <1>6, <1>9, <1>10
<1>11. CASE Goes(c)
  <2> DEFINE g == c.kernel
  <2>1. /\ IsKernel(g) /\ g.auth = k.auth /\ g.events = <<>> /\ g.pressed = k.pressed
        /\ g.len["event"] = 0 /\ g.len["solve"] = k.auth.n_node
        /\ g.len["view"] = ViewCount(k.auth)
    BY <1>4, <1>9, <1>11 DEF Kept
  <2>2. o \in InteractStep(g, hover, raw)
    BY <1>3, <1>11, <2>1 DEF hover
  <2> HIDE DEF g
  <2>3. /\ IsKernel(o.kernel) /\ o.kernel.auth = g.auth
        /\ Quiet(g, o, hover) \/ Fires(g, o, hover) \/ Refused(g, o, hover)
    BY <1>5, <2>1, <2>2, Interacted
  <2>4. CASE Quiet(g, o, hover)
    BY <2>1, <2>3, <2>4 DEF Quiet, FrameEnds
  <2>5. CASE Fires(g, o, hover)
    <3>1. o.kernel.events = <<k.pressed>> /\ Len(o.kernel.events) = 1
      BY <2>1, <2>5 DEF Fires
    <3>2. \A x \in {"solve", "view"} : o.kernel.len[x] = g.len[x]
      BY <1>20, <2>5 DEF Fires, Only
    <3> QED
      BY <2>1, <2>3, <2>5, <3>1, <3>2 DEF Fires, FrameEnds
  <2>6. CASE Refused(g, o, hover)
    <3>1. o.kernel.events = <<>> /\ Len(o.kernel.events) = 0
      BY <2>1, <2>6 DEF Refused
    <3> QED
      BY <2>1, <2>3, <2>6, <3>1 DEF Refused, FrameEnds
  <2> QED
    BY <2>3, <2>4, <2>5, <2>6
<1> QED
  BY <1>10, <1>11

---------------------------------------------------------------------------
(* Loading.                                                                  *)

ProgramBuffers == {"node", "child", "token", "slot"}

\* What loading does not touch.
Undisturbed(k, o) ==
    /\ IsKernel(o.kernel) /\ Only(k, o.kernel, ProgramBuffers)
    /\ o.kernel.events = k.events /\ o.kernel.pressed = k.pressed

\* Storing slots, as far as it gets.
LEMMA SlotsStored ==
    ASSUME NEW k, IsKernel(k), NEW p, IsProgram(p), NEW o \in StoreSlots(k, p)
    PROVE  Undisturbed(k, o)
<1> DEFINE first == FirstOf(Duplicates(p))
<1>1. /\ \E n \in {first, k.cap["slot"], p.n_node} : o.kernel = WithLength(k, "slot", n)
      /\ Duplicates(p) = {} =>
            \E n \in {k.cap["slot"], p.n_node} : o.kernel = WithLength(k, "slot", n)
  <2> HIDE DEF first
  <2>1. \/ Duplicates(p) # {} /\ o \in Answer(WithLength(k, "slot", first), "DUPLICATE_ID")
        \/ o \in Answer(WithLength(k, "slot", k.cap["slot"]), "OOM")
        \/ o \in Answer(WithLength(k, "slot", p.n_node), "OK")
    BY Zenon DEF StoreSlots, WithLength, first
  <2>2. \/ Duplicates(p) # {} /\ o.kernel = WithLength(k, "slot", first)
        \/ o.kernel = WithLength(k, "slot", k.cap["slot"])
        \/ o.kernel = WithLength(k, "slot", p.n_node)
    BY <2>1 DEF Answer
  <2> QED
    BY <2>2
<1>2. Duplicates(p) # {} => first \in Nat
  <2>1. Duplicates(p) \in SUBSET Nat
    BY DEF Duplicates, IsProgram
  <2> QED
    BY <2>1, LeastNatural DEF FirstOf
<1>3. "slot" \in Buffers /\ k.cap["slot"] \in Nat /\ p.n_node \in Nat
  BY DEF Buffers, IsKernel, IsProgram
<1> HIDE DEF first
<1>4. PICK n \in Nat : o.kernel = WithLength(k, "slot", n)
  BY <1>1, <1>2, <1>3
<1>5. /\ IsKernel(WithLength(k, "slot", n)) /\ Kept(k, WithLength(k, "slot", n))
      /\ Only(k, WithLength(k, "slot", n), {"slot"})
  BY <1>3, <1>4, SetLength
<1> QED
  BY <1>4, <1>5 DEF Undisturbed, Kept, Only, ProgramBuffers

\* ui_import_auth, as far as it gets.
LEMMA Imported ==
    ASSUME NEW k, IsKernel(k), NEW p, IsProgram(p), NEW o \in ImportAuth(k, p)
    PROVE  Undisturbed(k, o)
<1> DEFINE Goes(x) == x.status = "OK" /\ ~x.kernel.wild
           Authored(g) == [g EXCEPT !.auth = p]
           Rows(g) == Copy(Copy(Copy(Authored(g), "node", p.n_node), "child", p.n_child),
                           "token", p.n_token)
           Onward(x, S) == IF Goes(x) THEN S ELSE {x}
<1>0. Undisturbed(k, [kernel |-> k, status |-> "INVALID_ID"])
  BY DEF Undisturbed, Only
<1>1. CASE o \in Answer(k, "INVALID_ID")
  BY <1>0, <1>1 DEF Answer
<1>2. CASE o \notin Answer(k, "INVALID_ID")
  <2> DEFINE nodes == Ensure(k, "node", p.n_node)
             children == Then(nodes, LAMBDA g : Ensure(g, "child", p.n_child))
             tokens == Then(children, LAMBDA g : Ensure(g, "token", p.n_token))
             slots == Then(tokens, LAMBDA g : Ensure(g, "slot", p.n_node))
             copied == Then(slots, LAMBDA g : Answer(Rows(g), "OK"))
  <2>1. o \in Then(copied, LAMBDA g : StoreSlots(g, p))
    BY <1>2, Zenon DEF ImportAuth
  <2>2. PICK e \in copied : o \in Onward(e, StoreSlots(e.kernel, p))
    <3> HIDE DEF copied
    <3> QED
      BY <2>1, Zenon DEF Then
  <2>3. PICK d \in slots : e \in Onward(d, Answer(Rows(d.kernel), "OK"))
    <3> HIDE DEF slots
    <3> QED
      BY <2>2, Zenon DEF Then
  <2>4. PICK c \in tokens : d \in Onward(c, Ensure(c.kernel, "slot", p.n_node))
    <3> HIDE DEF tokens
    <3> QED
      BY <2>3, Zenon DEF Then
  <2>5. PICK b \in children : c \in Onward(b, Ensure(b.kernel, "token", p.n_token))
    <3> HIDE DEF children
    <3> QED
      BY <2>4, Zenon DEF Then
  <2>6. PICK a \in nodes : b \in Onward(a, Ensure(a.kernel, "child", p.n_child))
    <3> HIDE DEF nodes
    <3> QED
      BY <2>5, Zenon DEF Then
  <2> HIDE DEF Rows
  <2>7. /\ p.n_node \in Nat /\ p.n_child \in Nat /\ p.n_token \in Nat
        /\ \A x \in ProgramBuffers : x \in Buffers
    BY DEF IsProgram, ProgramBuffers, Buffers
  <2>8. ASSUME NEW x \in ProgramBuffers, NEW g, NEW q, NEW n \in Nat, Undisturbed(k, g),
               q \in Ensure(g.kernel, x, n)
        PROVE  Undisturbed(k, q)
    <3>1. Filled(g.kernel, q, x, 0)
      BY <2>7, <2>8, Ensured DEF Undisturbed
    <3> QED
      BY <2>8, <3>1 DEF Filled, Undisturbed, Kept, Only
  <2>9. Undisturbed(k, a)
    <3>1. Undisturbed(k, [kernel |-> k, status |-> "OK"])
      BY DEF Undisturbed, Only
    <3>2. "node" \in ProgramBuffers
      BY DEF ProgramBuffers
    <3>3. Filled(k, a, "node", 0)
      BY <2>6, <2>7, <3>2, Ensured
    <3> QED
      BY <3>2, <3>3 DEF Filled, Undisturbed, Kept, Only
  <2>10. Undisturbed(k, b)
    BY <2>6, <2>7, <2>8, <2>9 DEF ProgramBuffers
  <2>11. Undisturbed(k, c)
    BY <2>5, <2>7, <2>8, <2>10 DEF ProgramBuffers
  <2>12. Undisturbed(k, d)
    BY <2>4, <2>7, <2>8, <2>11 DEF ProgramBuffers
  <2>13. Undisturbed(k, e)
    <3>1. CASE e = d
      BY <2>12, <3>1
    <3>2. CASE e \in Answer(Rows(d.kernel), "OK")
      <4> DEFINE h == d.kernel
                 l == Authored(h)
                 u == Copy(l, "node", p.n_node)
                 v == Copy(u, "child", p.n_child)
                 w == Copy(v, "token", p.n_token)
      <4>1. e.kernel = w
        BY <3>2, AnswerFields DEF Rows
      <4>2. IsKernel(h) /\ Only(k, h, ProgramBuffers) /\ h.events = k.events /\ h.pressed = k.pressed
        BY <2>12 DEF Undisturbed
      <4> HIDE DEF h
      <4>3. /\ DOMAIN l = Fields /\ l.auth = p /\ l.len = h.len /\ l.cap = h.cap
            /\ l.events = h.events /\ l.pressed = h.pressed /\ l.hover = h.hover
        BY <4>2 DEF IsKernel, Fields
      <4> HIDE DEF l
      <4>4. IsKernel(l)
        BY <4>2, <4>3 DEF IsKernel
      <4>5. {"node", "child", "token"} \subseteq Buffers
        BY DEF Buffers
      <4>6. IsKernel(u) /\ Kept(l, u) /\ Only(l, u, {"node"})
        BY <2>7, <4>4, <4>5, Copied
      <4> HIDE DEF u
      <4>7. IsKernel(v) /\ Kept(u, v) /\ Only(u, v, {"child"})
        BY <2>7, <4>5, <4>6, Copied
      <4> HIDE DEF v
      <4>8. IsKernel(w) /\ Kept(v, w) /\ Only(v, w, {"token"})
        BY <2>7, <4>5, <4>7, Copied
      <4> HIDE DEF w
      <4>9. Only(k, w, ProgramBuffers)
        BY <4>2, <4>3, <4>6, <4>7, <4>8 DEF Only, ProgramBuffers
      <4> QED
        BY <4>1, <4>2, <4>3, <4>6, <4>7, <4>8, <4>9 DEF Undisturbed, Kept
    <3> QED
      BY <2>3, <3>1, <3>2
  <2>14. CASE o = e
    BY <2>13, <2>14
  <2>15. CASE o \in StoreSlots(e.kernel, p)
    <3>1. Undisturbed(e.kernel, o)
      BY <2>13, <2>15, SlotsStored DEF Undisturbed
    <3> QED
      BY <2>13, <3>1 DEF Undisturbed, Only
  <2> QED
    BY <2>2, <2>14, <2>15
<1> QED
  BY <1>1, <1>2

\* Loading, refused by the validator or imported.
LEMMA LoadedProgram ==
    ASSUME NEW k, IsKernel(k), NEW p, IsProgram(p), NEW o \in LoadProgram(k, p)
    PROVE  Undisturbed(k, o)
<1>1. CASE o \in Answer(k, ValidateProgram(p))
  <2>1. o.kernel = k
    BY <1>1, AnswerFields
  <2> QED
    BY <2>1 DEF Undisturbed, Only
<1> QED
  BY <1>1, Imported, Zenon DEF LoadProgram

---------------------------------------------------------------------------
(* The client.                                                               *)

\* The inductive invariant.
ClientInv ==
    /\ IsKernel(ui)
    /\ ui.len["event"] = Len(ui.events)
    /\ FrameIsWhole

\* Neither torn nor written past its buffers.
Sound(k) == IsKernel(k) /\ ~k.torn /\ ~k.wild

\* A kernel that has just been made.
LEMMA FreshKernel ==
    /\ Sound(NewKernel) /\ NewKernel.auth = NoProgram
    /\ NewKernel.len = [b \in Buffers |-> 0] /\ NewKernel.cap = [b \in Buffers |-> 0]
    /\ NewKernel.events = <<>> /\ NewKernel.pressed = 0 /\ NewKernel.hover = 0
<1>1. IsProgram(NoProgram)
  <2> DEFINE nodes == [i \in {} |-> ZeroNode]
             children == [c \in {} |-> 0]
  <2>1. DOMAIN nodes = {} /\ DOMAIN children = {} /\ Cardinality({}) = 0
    BY FS_EmptySet
  <2> HIDE DEF nodes, children
  <2>2. NoProgram.n_node = 0 /\ NoProgram.n_child = 0 /\ NoProgram.n_token = 0
    <3>1. NoProgram = MakeProgram(FALSE, nodes, children, 0)
      BY DEF NoProgram, nodes, children
    <3> QED
      BY <2>1, <3>1 DEF MakeProgram
  <2> QED
    BY <2>2 DEF IsProgram
<1>2. /\ DOMAIN NewKernel = Fields /\ NewKernel.auth = NoProgram
      /\ NewKernel.len = [b \in Buffers |-> 0] /\ NewKernel.cap = [b \in Buffers |-> 0]
      /\ NewKernel.events = <<>> /\ NewKernel.pressed = 0 /\ NewKernel.hover = 0
      /\ ~NewKernel.torn /\ ~NewKernel.wild
  BY DEF NewKernel, Fields
<1>3. IsKernel(NewKernel)
  BY <1>1, <1>2 DEF IsKernel
<1> QED
  BY <1>2, <1>3 DEF Sound

\* The client starts with one.
LEMMA ClientInit ==
    ASSUME HostInit
    PROVE  ClientInv
<1>1. ui = NewKernel /\ last.call = "init"
  BY DEF HostInit
<1>2. NewKernel.len["event"] = Len(NewKernel.events)
  BY FreshKernel DEF Buffers
<1> QED
  BY <1>1, <1>2, FreshKernel DEF ClientInv, FrameIsWhole, Sound

\* Where a call that is not a frame leaves the press and the event.
Steady(k, g) == g.events = k.events /\ g.pressed = k.pressed
Forgets(k, g) == g.events = k.events /\ g.pressed = 0
Clears(k, g) == g.events = <<>> /\ g.pressed = k.pressed

\* A call makes one of its outcomes the kernel.
LEMMA CallDone ==
    ASSUME NEW name, NEW outcomes, Call(name, outcomes)
    PROVE  \E o \in outcomes : ui' = o.kernel /\ last'.call = name /\ last'.status = o.status
BY DEF Call

\* What each call does to the press, the event and the lent buffers.
LEMMA LoadStep ==
    ASSUME ClientInv, HostLoad \/ Import
    PROVE  /\ ClientInv' /\ last'.call # "frame"
           /\ Steady(ui, ui') /\ Only(ui, ui', ProgramBuffers)
<1>1. PICK p \in Programs :
        Call("load", LoadProgram(ui, p)) \/ Call("import", ImportAuth(ui, p))
  BY Zenon DEF HostLoad, Import
<1>2. IsProgram(p)
  BY ProgramsAssumption DEF IsProgram, Node
<1>3. PICK o \in LoadProgram(ui, p) \cup ImportAuth(ui, p) :
        ui' = o.kernel /\ last'.call \in {"load", "import"}
  BY <1>1, CallDone
<1>4. Undisturbed(ui, o)
  BY <1>2, <1>3, LoadedProgram, Imported DEF ClientInv
<1>5. "event" \in Buffers /\ "event" \notin ProgramBuffers
  BY DEF Buffers, ProgramBuffers
<1> QED
  BY <1>3, <1>4, <1>5 DEF ClientInv, Undisturbed, Steady, Only, FrameIsWhole

LEMMA InteractDone ==
    ASSUME ClientInv, Interact
    PROVE  /\ ClientInv' /\ last'.call # "frame"
           /\ Steady(ui, ui') \/ Forgets(ui, ui')
           /\ Only(ui, ui', {})
<1>1. PICK raw \in Raws : Call("interact", InteractStep(ui, 0, raw))
  BY DEF Interact
<1>2. PICK o \in InteractStep(ui, 0, raw) : ui' = o.kernel /\ last'.call = "interact"
  BY <1>1, CallDone
<1>3. IsKernel(ui) /\ 0 \in Nat
  BY DEF ClientInv
<1>4. /\ IsKernel(o.kernel) /\ o.kernel.auth = ui.auth
      /\ Quiet(ui, o, 0) \/ Fires(ui, o, 0) \/ Refused(ui, o, 0)
  BY <1>3, Interacted
<1>5. Quiet(ui, o, 0)
  BY <1>4 DEF Fires, Refused
<1> QED
  BY <1>2, <1>4, <1>5 DEF ClientInv, Quiet, Steady, Forgets, Only, FrameIsWhole

LEMMA FrameDone ==
    ASSUME ClientInv, FrameStep
    PROVE  /\ ClientInv' /\ last'.call = "frame"
           /\ \/ ui'.events = <<>>
              \/ /\ ui.pressed # 0 /\ ui'.pressed = 0
                 /\ ui'.events = <<ui.pressed>>
<1>1. PICK root \in {0, 1}, raw \in Raws : Call("frame", Frame(ui, root, raw))
  BY DEF FrameStep
<1>2. PICK o \in Frame(ui, root, raw) :
        ui' = o.kernel /\ last'.call = "frame" /\ last'.status = o.status
  BY <1>1, CallDone
<1>3. FrameEnds(ui, o)
  BY FrameRuns DEF ClientInv
<1> QED
  BY <1>2, <1>3 DEF ClientInv, FrameEnds, FrameIsWhole

LEMMA ClearDone ==
    ASSUME ClientInv, Clear \/ Reset
    PROVE  ClientInv' /\ last'.call \in {"clear", "reset"} /\ Clears(ui, ui')
<1>1. CASE Clear
  <2>1. ui' = ClearEvents(ui) /\ last'.call = "clear"
    BY <1>1 DEF Clear, Call, Answer
  <2> DEFINE g == [ui EXCEPT !.events = <<>>]
             c == WithLength(g, "event", 0)
  <2>2. ui' = c
    BY <2>1 DEF ClearEvents, WithLength
  <2>3. /\ DOMAIN g = Fields /\ g.events = <<>>
        /\ \A f \in Fields \ {"events"} : g[f] = ui[f]
    BY DEF ClientInv, IsKernel, Fields
  <2> HIDE DEF g
  <2>4. IsKernel(g) /\ g.pressed = ui.pressed
    BY <2>3 DEF ClientInv, IsKernel, Fields
  <2>5. "event" \in Buffers /\ 0 \in Nat
    BY DEF Buffers
  <2>6. IsKernel(c) /\ Kept(g, c) /\ c.len["event"] = 0
    BY <2>4, <2>5, SetLength
  <2> HIDE DEF c
  <2>7. Len(ui'.events) = 0 /\ ui'.events = <<>>
    BY <2>2, <2>3, <2>6 DEF Kept
  <2> QED
    BY <2>1, <2>2, <2>3, <2>4, <2>6, <2>7 DEF ClientInv, Clears, Kept, FrameIsWhole
<1>2. CASE Reset
  <2>1. ui' = ResetFrame(ui) /\ last'.call = "reset"
    BY <1>2 DEF Reset, Call, Answer
  <2>2. /\ IsKernel(ui') /\ ui'.pressed = ui.pressed /\ ui'.events = <<>>
        /\ ui'.len["event"] = 0
    BY <2>1, FrameStarts DEF ClientInv, FrameBuffers
  <2> QED
    BY <2>1, <2>2 DEF ClientInv, Clears, FrameIsWhole
<1> QED
  BY <1>1, <1>2

LEMMA CloseDone ==
    ASSUME ClientInv, HostClose
    PROVE  ClientInv' /\ last'.call = "close" /\ Steady(ui, ui')
<1> DEFINE w == ~ClosesCleanly(ui)
<1>1. ui' = [ui EXCEPT !.wild = w] /\ last'.call = "close"
  BY DEF HostClose
<1> HIDE DEF w
<1>2. IsKernel(ui') /\ Kept(ui, ui') /\ ui'.len = ui.len
  <2>1. /\ DOMAIN ui' = Fields /\ \A f \in Fields \ {"wild"} : ui'[f] = ui[f]
    BY <1>1 DEF ClientInv, IsKernel, Fields
  <2> QED
    BY <2>1, Zenon DEF ClientInv, IsKernel, Kept, Fields
<1> QED
  BY <1>1, <1>2 DEF ClientInv, Kept, Steady, FrameIsWhole

LEMMA ClientStep == ClientInv /\ [HostNext]_hostVars => ClientInv'
<1>1. ASSUME ClientInv, UNCHANGED hostVars PROVE ClientInv'
  BY <1>1 DEF ClientInv, FrameIsWhole, hostVars
<1> QED
  BY <1>1, LoadStep, InteractDone, FrameDone, ClearDone, CloseDone, Zenon DEF HostNext

\* Whatever calls came before it, and whatever the allocator refused, a frame
\* that answers OK shows the whole program and one that does not shows nothing
\* that could be taken for it.
THEOREM FramesAreWhole == HostSpec => []FrameIsWhole
<1>1. ClientInv => FrameIsWhole
  BY DEF ClientInv
<1> QED
  BY <1>1, ClientInit, ClientStep, PTL DEF HostSpec

\* What a host borrowed lasts until a frame, a reset, a clear or the close.
THEOREM BorrowsAreKept == HostSpec => BorrowsLast
<1>1. ClientInv /\ [HostNext]_hostVars =>
        [last'.call \in {"load", "import", "interact"} =>
          /\ \A b \in {"view", "event"} :
                ui'.cap[b] = ui.cap[b] /\ ui'.len[b] = ui.len[b]
          /\ ui'.events = ui.events]_hostVars
  <2> SUFFICES ASSUME ClientInv, HostNext, last'.call \in {"load", "import", "interact"}
               PROVE  /\ \A b \in {"view", "event"} :
                            ui'.cap[b] = ui.cap[b] /\ ui'.len[b] = ui.len[b]
                      /\ ui'.events = ui.events
    OBVIOUS
  <2>1. HostLoad \/ Import \/ Interact
    BY FrameDone, ClearDone, CloseDone DEF HostNext
  <2>2. ui'.events = ui.events /\ Only(ui, ui', ProgramBuffers)
    BY <2>1, LoadStep, InteractDone DEF Steady, Forgets, Only
  <2>3. {"view", "event"} \subseteq Buffers \ ProgramBuffers
    BY DEF Buffers, ProgramBuffers
  <2> QED
    BY <2>2, <2>3 DEF Only
<1> QED
  BY <1>1, ClientInit, ClientStep, PTL DEF HostSpec, BorrowsLast

\* The kernel keeps the promise of MluiPress.
THEOREM PressImplemented == HostSpec => ActivatesOnce
<1>1. HostInit => Promise!Init
  BY DEF HostInit, Promise!Init, NewKernel, Fired
<1>2. ClientInv /\ [HostNext]_hostVars => [Promise!Next]_<<ui.pressed, Fired>>
  <2> SUFFICES ASSUME ClientInv, HostNext
               PROVE  \/ Promise!Next
                      \/ ui'.pressed = ui.pressed /\ Fired' = Fired
    BY DEF hostVars, Fired
  <2>1. CASE HostLoad \/ Import \/ HostClose
    BY <2>1, LoadStep, CloseDone DEF Steady, Fired
  <2>2. CASE Interact
    <3>1. Fired' = Fired /\ (ui'.pressed = ui.pressed \/ ui'.pressed = 0)
      BY <2>2, InteractDone DEF Steady, Forgets, Fired
    <3> QED
      BY <3>1 DEF Promise!Next, Promise!Press
  <2>3. CASE Clear \/ Reset
    <3>1. Fired' = 0 /\ ui'.pressed = ui.pressed
      BY <2>3, ClearDone DEF Clears, Fired
    <3> QED
      BY <3>1 DEF Promise!Next, Promise!Read
  <2>4. CASE FrameStep
    <3>1. ui'.pressed \in Nat
      BY <2>4, FrameDone DEF ClientInv, IsKernel
    <3>2. CASE ui'.events = <<>>
      <4>1. Fired' = 0
        BY <3>2 DEF Fired
      <4> QED
        BY <3>1, <4>1 DEF Promise!Next, Promise!Press
    <3>3. CASE /\ ui.pressed # 0 /\ ui'.pressed = 0
               /\ ui'.events = <<ui.pressed>>
      <4>1. ui'.events # <<>> /\ ui'.events[Len(ui'.events)] = ui.pressed
        BY <3>3
      <4>2. Fired' = ui.pressed
        BY <4>1 DEF Fired
      <4> QED
        BY <3>3, <4>2 DEF Promise!Next, Promise!Activate
    <3> QED
      BY <2>4, <3>2, <3>3, FrameDone
  <2> QED
    BY <2>1, <2>2, <2>3, <2>4, Zenon DEF HostNext
<1> QED
  BY <1>1, <1>2, ClientInit, ClientStep, PTL DEF HostSpec, ActivatesOnce, Promise!Spec

---------------------------------------------------------------------------
(* What the benchmark loads.                                                 *)

\* The row of a finished program, by its shape and its place.
RowAt(shape, n, k, r) ==
    \/ /\ shape = "CHAIN"
       /\ \E c \in 0 .. n, f \in 0 .. n :
             Row(r, 1000 + k, "BOX", "PASSIVE", f, c, 2 * k, 2)
    \/ /\ shape = "FLAT" /\ k = 0
       /\ Row(r, 1, "FRAGMENT", "PASSIVE", 0, n - 1, 0, 0)
    \/ /\ shape = "FLAT" /\ k # 0
       /\ \E c \in 0 .. n : k = c + 1 /\ Row(r, 2000 + c, "BOX", "PASSIVE", 0, 0, 2 * c, 2)
    \/ /\ shape = "BALANCED"
       /\ \E c, f \in Int : Row(r, 3000 + k, "BOX", "PASSIVE", f, c, 2 * k, 2)
    \/ /\ shape = "INTERACTIVE" /\ k = 0
       /\ Row(r, 1, "FRAGMENT", "PASSIVE", 0, PairCount(n), 0, 0)
    \/ \E d \in 0 .. PairCount(n) - 1 :
          /\ shape = "INTERACTIVE" /\ k = 1 + 2 * d
          /\ Row(r, WrapperId + d, WrapperKind(d), WrapperRole(d), PairCount(n) + d, 1, 0, 0)
    \/ \E d \in 0 .. PairCount(n) - 1 :
          /\ shape = "INTERACTIVE" /\ k = 2 + 2 * d
          /\ Row(r, LeafId + d, "BOX", "PASSIVE", 0, 0, 7 * d, 7)

\* Every row of a finished program is as the loop wrote it.
LEMMA CompleteRows ==
    ASSUME NEW b, Complete(b), NEW k \in 0 .. b.n_node - 1
    PROVE  RowAt(b.shape, b.n_node, k, b.nodes[k])
<1> DEFINE n == b.n_node
<1>1. Shaped(b) /\ Finished(b) /\ n \in Nat \ {0} /\ b.i \in Nat /\ b.i <= Rounds(b.shape, n)
  BY DEF Complete, Building, Shaped
<1>2. CASE b.shape = "CHAIN"
  <2>1. b.i = n /\ ChainInv(b)
    BY <1>1, <1>2 DEF Complete, Building, Finished, Rounds
  <2>2. Row(b.nodes[k], 1000 + k, "BOX", "PASSIVE", k, 1, 2 * k, 2)
        \/ Row(b.nodes[k], 1000 + k, "BOX", "PASSIVE", 0, 0, 2 * k, 2)
    BY <1>1, <2>1 DEF ChainInv
  <2>3. k \in 0 .. n /\ 1 \in 0 .. n /\ 0 \in 0 .. n
    BY <1>1
  <2> QED
    BY <1>2, <2>2, <2>3 DEF RowAt
<1>3. CASE b.shape = "FLAT"
  <2>1. b.i = n - 1 /\ FlatInv(b)
    BY <1>1, <1>3 DEF Complete, Building, Finished, Rounds
  <2>2. CASE k = 0
    BY <1>3, <2>1, <2>2 DEF FlatInv, RowAt
  <2>3. CASE k # 0
    <3> DEFINE c == k - 1
    <3>1. c \in 0 .. b.i - 1 /\ c \in 0 .. n /\ k = c + 1
      BY <1>1, <2>1, <2>3
    <3> HIDE DEF c
    <3>2. Row(b.nodes[c + 1], 2000 + c, "BOX", "PASSIVE", 0, 0, 2 * c, 2)
      BY <2>1, <3>1 DEF FlatInv
    <3> QED
      BY <1>3, <2>3, <3>1, <3>2 DEF RowAt
  <2> QED
    BY <2>2, <2>3
<1>4. CASE b.shape = "BALANCED"
  <2>1. b.i = n /\ BalancedInv(b)
    BY <1>1, <1>4 DEF Complete, Building, Finished, Rounds
  <2> DEFINE f == Before(k, n)
             c == Before(k + 1, n) - Before(k, n)
  <2>2. Row(b.nodes[k], 3000 + k, "BOX", "PASSIVE", f, c, 2 * k, 2)
    BY <1>1, <2>1 DEF BalancedInv
  <2>3. f \in Int /\ c \in Int
    BY <1>1 DEF Before
  <2> HIDE DEF f, c
  <2> QED
    BY <1>4, <2>2, <2>3 DEF RowAt
<1>5. CASE b.shape = "INTERACTIVE"
  <2> DEFINE P == PairCount(n)
  <2>1. b.i = P /\ InteractiveInv(b) /\ n = 1 + 2 * P /\ P \in Nat
    <3>1. Shaped(b) /\ Finished(b) /\ InteractiveInv(b)
      BY <1>5 DEF Complete, Building
    <3>2. b.i <= P /\ b.i >= P /\ n = 1 + 2 * P
      BY <1>5, <3>1 DEF Shaped, Finished, Rounds
    <3>3. P \in Nat
      BY <1>1 DEF PairCount
    <3>4. b.i \in Nat
      BY <3>1 DEF Shaped
    <3> HIDE DEF P
    <3> QED
      BY <3>1, <3>2, <3>3, <3>4
  <2>2. CASE k = 0
    BY <1>5, <2>1, <2>2 DEF InteractiveInv, RowAt
  <2>3. CASE k # 0
    <3>1. PICK d \in 0 .. P - 1 : k = 1 + 2 * d \/ k = 2 + 2 * d
      <4>1. k \in 0 .. 2 * P
        BY <1>1, <2>1
      <4> HIDE DEF P
      <4> QED
        BY <2>1, <2>3, <4>1, PairCases
    <3>2. /\ Row(b.nodes[1 + 2 * d], WrapperId + d, WrapperKind(d), WrapperRole(d), P + d, 1, 0, 0)
          /\ Row(b.nodes[2 + 2 * d], LeafId + d, "BOX", "PASSIVE", 0, 0, 7 * d, 7)
      BY <2>1 DEF InteractiveInv
    <3> QED
      BY <1>5, <3>1, <3>2 DEF RowAt
  <2> QED
    BY <2>2, <2>3
<1> QED
  BY <1>1, <1>2, <1>3, <1>4, <1>5 DEF Shaped

\* Every row has an identity, is shown, and can be lowered.
LEMMA RowFacts ==
    ASSUME NEW b, Complete(b), NEW k \in 0 .. b.n_node - 1
    PROVE  /\ b.nodes[k].id \in Nat /\ b.nodes[k].drawn
           /\ b.nodes[k].kind # "EMPTY"
<1>1. b.n_node \in Nat /\ WrapperId \in Nat /\ LeafId \in Nat
  BY BuilderAssumption DEF Complete, Building, Shaped
<1>2. \A d \in Nat : WrapperKind(d) # "EMPTY"
  BY WrapperIsOne DEF Leaves
<1>3. PairCount(b.n_node) \in Int
  BY <1>1 DEF PairCount
<1>4. RowAt(b.shape, b.n_node, k, b.nodes[k])
  BY CompleteRows
<1> QED
  BY <1>1, <1>2, <1>3, <1>4 DEF RowAt, Row

\* Programs of one shape and one size draw alike.
LEMMA SameRows ==
    ASSUME NEW b, Complete(b), NEW c, Complete(c),
           c.shape = b.shape, c.n_node = b.n_node, NEW k \in 0 .. b.n_node - 1
    PROVE  OpsOf(b.nodes[k]) = OpsOf(c.nodes[k])
<1> DEFINE r == b.nodes[k]
           q == c.nodes[k]
           n == b.n_node
           P == PairCount(n)
<1>1. RowAt(b.shape, n, k, r) /\ RowAt(b.shape, n, k, q)
  BY CompleteRows
<1>2. n \in Nat /\ P \in Int
  BY DEF Complete, Building, Shaped, PairCount
<1> HIDE DEF r, q, n, P
<1>3. r.kind = q.kind /\ r.role = q.role
  <2>1. CASE b.shape # "INTERACTIVE"
    BY <1>1, <2>1 DEF RowAt, Row
  <2>2. CASE b.shape = "INTERACTIVE" /\ k = 0
    BY <1>1, <1>2, <2>2 DEF RowAt, Row, P
  <2>3. CASE b.shape = "INTERACTIVE" /\ k # 0
    <3>1. PICK d \in 0 .. P - 1 :
            \/ k = 1 + 2 * d /\ r.kind = WrapperKind(d) /\ r.role = WrapperRole(d)
            \/ k = 2 + 2 * d /\ r.kind = "BOX" /\ r.role = "PASSIVE"
      BY <1>1, <2>3, Zenon DEF RowAt, Row, P
    <3>2. PICK e \in 0 .. P - 1 :
            \/ k = 1 + 2 * e /\ q.kind = WrapperKind(e) /\ q.role = WrapperRole(e)
            \/ k = 2 + 2 * e /\ q.kind = "BOX" /\ q.role = "PASSIVE"
      BY <1>1, <2>3, Zenon DEF RowAt, Row, P
    <3>3. e = d /\ (k = 1 + 2 * d <=> k # 2 + 2 * d)
      BY <1>2, <3>1, <3>2
    <3> QED
      BY <3>1, <3>2, <3>3
  <2> QED
    BY <2>1, <2>2, <2>3
<1> QED
  BY <1>3 DEF OpsOf, r, q

\* The lengths of a finished program's arrays.
LEMMA FinishedSizes ==
    ASSUME NEW b, Complete(b)
    PROVE  LET p == Finish(b)
           IN  /\ IsProgram(p) /\ p.nodes = b.nodes
               /\ p.n_node = b.n_node /\ p.n_node \in Nat \ {0}
               /\ p.n_child = b.n_node - 1
               /\ p.n_token = TokenCap(b.shape, b.n_node)
<1> DEFINE p == Finish(b)
           n == b.n_node
<1>1. Shaped(b) /\ n \in Nat \ {0}
  BY DEF Complete, Building, Shaped
<1>2. ChildCount(b) = n - 1
  <2>1. CASE b.shape = "BALANCED"
    <3>1. b.i = n /\ b.child_write = Before(n, n)
      BY <1>1, <2>1 DEF Complete, Building, Finished, Rounds, Shaped, BalancedInv
    <3> QED
      BY <1>1, <2>1, <3>1 DEF Before, ChildCount
  <2> QED
    BY <2>1 DEF ChildCount
<1>3. /\ p.n_node = n /\ p.n_child = n - 1 /\ p.nodes = b.nodes
      /\ p.n_token = TokenCap(b.shape, n)
  BY <1>1, <1>2, Finishing
<1>4. TokenCap(b.shape, n) \in Nat
  <2>1. Rounds(b.shape, n) \in Nat
    BY <1>1 DEF Shaped, Rounds, PairCount
  <2> QED
    BY <2>1 DEF TokenCap, TokensPerNode
<1> HIDE DEF p
<1>5. \A i \in 0 .. n - 1 : p.nodes[i].id \in Nat
  BY <1>3, RowFacts
<1> QED
  BY <1>1, <1>3, <1>4, <1>5 DEF IsProgram, p

\* view.n is the same for programs whose rows draw alike.
LEMMA SameTotal ==
    ASSUME NEW p, NEW q, p.n_node \in Nat, q.n_node = p.n_node,
           \A i \in 0 .. p.n_node - 1 : OpsOf(p.nodes[i]) = OpsOf(q.nodes[i])
    PROVE  ViewCount(p) = ViewCount(q)
<1> DEFINE n == p.n_node
           f == CHOOSE f : Counting(p, n, f)
           g == CHOOSE g : Counting(q, n, g)
           S == {i \in Nat : i <= n => f[i] = g[i]}
<1>1. Counting(p, n, f) /\ Counting(q, n, g)
  BY CountingExists, Zenon
<1>2. ViewCount(p) = f[n]
  BY Zenon DEF ViewCount, Counting
<1>3. ViewCount(q) = g[n]
  <2>1. ViewCount(q) = (CHOOSE h : Counting(q, q.n_node, h))[q.n_node]
    BY Zenon DEF ViewCount, Counting
  <2> QED
    BY <2>1, Zenon
<1> HIDE DEF f, g
<1>4. \A i \in 0 .. n : f[i] = IF i = 0 THEN 0 ELSE f[i - 1] + OpsOf(p.nodes[i - 1])
  BY <1>1 DEF Counting
<1>5. \A i \in 0 .. n : g[i] = IF i = 0 THEN 0 ELSE g[i - 1] + OpsOf(q.nodes[i - 1])
  BY <1>1 DEF Counting
<1>6. 0 \in S
  BY <1>4, <1>5
<1>7. ASSUME NEW i \in Nat, i \in S PROVE i + 1 \in S
  <2>1. CASE i + 1 <= n
    <3>1. i + 1 \in 0 .. n /\ (i + 1) - 1 = i /\ i \in 0 .. n - 1 /\ f[i] = g[i]
      BY <1>7, <2>1
    <3> QED
      BY <1>4, <1>5, <3>1
  <2> QED
    BY <2>1
<1> HIDE DEF S
<1>8. \A i \in Nat : i \in S
  BY <1>6, <1>7, EveryNatural
<1> QED
  BY <1>2, <1>3, <1>8 DEF S

\* So they emit as many view operations.
LEMMA SameView ==
    ASSUME NEW b, Complete(b), NEW c, Complete(c), c.shape = b.shape, c.n_node = b.n_node
    PROVE  ViewCount(Finish(b)) = ViewCount(Finish(c))
<1>1. /\ Finish(b).nodes = b.nodes /\ Finish(b).n_node = b.n_node /\ b.n_node \in Nat
      /\ Finish(c).nodes = c.nodes /\ Finish(c).n_node = c.n_node
  BY FinishedSizes
<1> QED
  BY <1>1, SameRows, SameTotal

\* The pointer rests on the last node of an interactive program: a leaf.
TopLeaf(n) == LeafId + PairCount(n) - 1

LEMMA HoverIsTopLeaf ==
    ASSUME NEW b, Complete(b), b.shape = "INTERACTIVE"
    PROVE  HoverOf(Finish(b)) = TopLeaf(b.n_node)
<1> DEFINE p == Finish(b)
           n == b.n_node
           seen == {i \in 0 .. p.n_node - 1 : p.nodes[i].drawn}
           top == CHOOSE i \in seen : \A j \in seen : j <= i
           P == PairCount(n)
<1>1. p.nodes = b.nodes /\ p.n_node = n /\ n \in Nat \ {0} /\ n >= 3 /\ n = 1 + 2 * P /\ P \in Nat
  <2>1. n \in Nat \ {0} /\ n >= 3 /\ n = 1 + 2 * P
    BY DEF Complete, Building, Shaped
  <2>2. P \in Nat
    BY <2>1 DEF PairCount
  <2>3. p.nodes = b.nodes /\ p.n_node = n
    BY FinishedSizes, Zenon
  <2> HIDE DEF P
  <2> QED
    BY <2>1, <2>2, <2>3
<1>2. HoverOf(p) = IF seen = {} THEN 0 ELSE p.nodes[top].id
  BY DEF HoverOf
<1>3. seen = 0 .. n - 1
  BY <1>1, RowFacts
<1> HIDE DEF seen, p
<1>4. n - 1 \in seen /\ \A j \in seen : j <= n - 1
  BY <1>1, <1>3
<1>5. top \in seen /\ \A j \in seen : j <= top
  BY <1>4
<1> HIDE DEF top
<1>6. top = n - 1
  BY <1>1, <1>3, <1>4, <1>5
<1>7. b.nodes[n - 1].id = LeafId + P - 1
  <2>1. RowAt("INTERACTIVE", n, n - 1, b.nodes[n - 1])
    BY <1>1, <1>3, <1>4, CompleteRows
  <2>2. LeafId \in Nat
    BY BuilderAssumption
  <2> DEFINE r == b.nodes[n - 1]
  <2> HIDE DEF r
  <2>3. PICK d \in 0 .. P - 1 : \/ n - 1 = 1 + 2 * d
                                \/ n - 1 = 2 + 2 * d /\ r.id = LeafId + d
    <3>1. n - 1 # 0
      BY <1>1
    <3> QED
      BY <2>1, <3>1, Zenon DEF RowAt, Row, r
  <2>4. d = P - 1 /\ r.id = LeafId + d
    BY <1>1, <2>3
  <2> QED
    BY <1>1, <2>2, <2>4 DEF r
<1> QED
  BY <1>1, <1>2, <1>4, <1>6, <1>7 DEF TopLeaf, p

---------------------------------------------------------------------------
(* Calls that write inside their buffers.                                    *)

\* An outcome of a call on a sound kernel.
Safe(k, o) ==
    /\ o.status = "OOM" => AllocMayFail
    /\ ~o.kernel.wild
    /\ o.status = "OK" => ~o.kernel.torn
    /\ \A b \in Buffers : o.kernel.cap[b] >= k.cap[b]

\* The callers' idiom reserves n elements of a buffer that is empty or has them.
Room(k, b, n) == k.cap[b] >= n \/ (k.cap[b] = 0 /\ k.len[b] = 0)

\* A part of a call that changes nothing.
LEMMA AnswerSafe ==
    ASSUME NEW k, Sound(k), NEW o \in Answer(k, "OK")
    PROVE  Safe(k, o)
<1>1. o.kernel = k /\ o.status = "OK" /\ \A b \in Buffers : k.cap[b] \in Nat
  BY AnswerFields DEF Sound, IsKernel
<1> QED
  BY <1>1 DEF Safe, Sound

\* grow_* finds the room it is asked for, or memory is short.
LEMMA GrownSafe ==
    ASSUME NEW k, Sound(k), NEW b \in Buffers, NEW n \in Nat, NEW o \in Grow(k, b, n)
    PROVE  Safe(k, o) /\ (o.status = "OK" => o.kernel.cap[b] - k.len[b] >= n)
<1> DEFINE doubled == 2 * k.cap[b]
           want == k.len[b] + n
           more == IF doubled < want THEN want ELSE doubled
           c == [k.cap EXCEPT ![b] = more]
           w == k.wild \/ (b = "scene" /\ k.torn)
           grown == [[k EXCEPT !.cap = c] EXCEPT !.wild = w]
           t == k.cap[b] > 0
           torn == [k EXCEPT !.torn = t]
<1>1. k.len[b] \in Nat /\ k.cap[b] \in Nat /\ DOMAIN k = Fields /\ k.cap \in [Buffers -> Nat]
  BY DEF Sound, IsKernel
<1>2. /\ c[b] = more /\ more >= k.cap[b] /\ more - k.len[b] >= n
      /\ \A d \in Buffers : c[d] \in Nat /\ k.cap[d] \in Nat /\ c[d] >= k.cap[d]
  BY <1>1
<1>3. \/ o \in Answer(k, "OK") /\ k.cap[b] - k.len[b] >= n
      \/ o \in Answer(grown, "OK")
      \/ AllocMayFail /\ (o \in Answer(k, "OOM") \/ o \in Answer(torn, "OOM"))
  BY DEF Grow
<1> HIDE DEF c, t, more
<1>4. grown.cap = c /\ ~grown.wild /\ ~grown.torn
  BY <1>1 DEF Fields, Sound
<1>5. torn.cap = k.cap /\ ~torn.wild
  BY <1>1 DEF Fields, Sound
<1> HIDE DEF grown, torn
<1>6. \/ o.kernel = k /\ o.status = "OK" /\ k.cap[b] - k.len[b] >= n
      \/ o.kernel = grown /\ o.status = "OK"
      \/ AllocMayFail /\ o.status = "OOM" /\ (o.kernel = k \/ o.kernel = torn)
  BY <1>3 DEF Answer
<1>7. \A d \in Buffers : k.cap[d] >= k.cap[d]
  BY <1>2
<1> QED
  BY <1>2, <1>4, <1>5, <1>6, <1>7 DEF Safe, Sound

\* The callers' idiom asks for enough when the buffer is empty or has it already.
LEMMA EnsuredSafe ==
    ASSUME NEW k, Sound(k), NEW b \in Buffers, NEW n \in Nat, NEW o \in Ensure(k, b, n)
    PROVE  Safe(k, o) /\ (o.status = "OK" /\ Room(k, b, n) => o.kernel.cap[b] >= n)
<1>1. k.cap[b] \in Nat /\ k.len[b] \in Nat
  BY DEF Sound, IsKernel
<1>2. CASE k.cap[b] < n
  <2>1. n - k.cap[b] \in Nat /\ o \in Grow(k, b, n - k.cap[b])
    BY <1>1, <1>2 DEF Ensure
  <2>2. Safe(k, o) /\ (o.status = "OK" => o.kernel.cap[b] - k.len[b] >= n - k.cap[b])
    BY <2>1, GrownSafe
  <2>3. IsKernel(o.kernel)
    BY <2>1, Grown DEF Sound, Filled
  <2>4. o.kernel.cap[b] \in Nat
    BY <2>3 DEF IsKernel
  <2> QED
    BY <1>1, <1>2, <2>2, <2>4 DEF Room
<1>3. CASE ~(k.cap[b] < n)
  <2>1. o \in Answer(k, "OK")
    BY <1>3 DEF Ensure
  <2> QED
    BY <1>1, <1>3, <2>1, AnswerSafe, AnswerFields
<1> QED
  BY <1>2, <1>3

\* One part of a call after another.
LEMMA SafeThen ==
    ASSUME NEW k, Sound(k), NEW g, IsKernel(g.kernel), Safe(k, g), g.status = "OK",
           NEW o, IsKernel(o.kernel), Safe(g.kernel, o)
    PROVE  Safe(k, o)
<1>1. \A b \in Buffers : k.cap[b] \in Nat /\ g.kernel.cap[b] \in Nat /\ o.kernel.cap[b] \in Nat
  BY DEF Sound, IsKernel
<1> QED
  BY <1>1 DEF Safe

\* One element more.
LEMMA Append1Safe ==
    ASSUME NEW k, Sound(k), NEW b \in Buffers, NEW o \in Append1(k, b)
    PROVE  Safe(k, o)
<1> DEFINE room == IF k.len[b] >= k.cap[b] THEN Grow(k, b, 1) ELSE Answer(k, "OK")
           Longer(g) == [g EXCEPT !.len[b] = @ + 1]
<1>1. PICK g \in room : IF g.status = "OK" /\ ~g.kernel.wild
                        THEN o \in Answer(Longer(g.kernel), "OK") ELSE o = g
  BY Zenon DEF Append1, Then
<1>2. Safe(k, g) /\ IsKernel(g.kernel)
  BY GrownSafe, AnswerSafe, Grown, Unchanged DEF Sound, Filled
<1> HIDE DEF room
<1>3. CASE g.status = "OK" /\ ~g.kernel.wild
  <2> DEFINE h == g.kernel
             l == [h.len EXCEPT ![b] = h.len[b] + 1]
             r == [h EXCEPT !.len = l]
  <2>1. o.kernel = r /\ o.status = "OK"
    BY <1>1, <1>3, AnswerFields
  <2> HIDE DEF l
  <2>2. r.cap = h.cap /\ r.wild = h.wild /\ r.torn = h.torn
    BY <1>2 DEF IsKernel, Fields
  <2> QED
    BY <1>2, <1>3, <2>1, <2>2 DEF Safe
<1>4. CASE ~(g.status = "OK" /\ ~g.kernel.wild)
  BY <1>1, <1>2, <1>4
<1> QED
  BY <1>3, <1>4

\* Many elements more.
LEMMA AppendedSafe ==
    ASSUME NEW k, Sound(k), NEW b \in Buffers, NEW m \in Nat, NEW o \in AppendMany(k, b, m)
    PROVE  Safe(k, o)
<1> DEFINE f == CHOOSE f : Appends(k, b, m, f)
           S == {j \in Nat : j <= m => \A q \in f[j] : IsKernel(q.kernel) /\ Safe(k, q)}
<1>1. Appends(k, b, m, f)
  BY AppendsExist, Zenon
<1>2. AppendMany(k, b, m) = f[m]
  BY Zenon DEF AppendMany, Appends, NextAppends
<1> HIDE DEF f
<1>3. \A j \in 0..m : f[j] = IF j = 0 THEN Answer(k, "OK") ELSE NextAppends(f[j - 1], b)
  BY <1>1 DEF Appends
<1>4. 0 \in S
  <2>1. f[0] = Answer(k, "OK")
    BY <1>3
  <2> QED
    BY <2>1, AnswerSafe, AnswerFields DEF Sound
<1>5. ASSUME NEW j \in Nat, j \in S PROVE j + 1 \in S
  <2>1. SUFFICES ASSUME j + 1 <= m, NEW q \in f[j + 1] PROVE IsKernel(q.kernel) /\ Safe(k, q)
    OBVIOUS
  <2>2. j + 1 \in 0..m /\ (j + 1) - 1 = j /\ j <= m /\ j + 1 # 0
    BY <2>1
  <2>3. f[j + 1] = NextAppends(f[j], b)
    BY <1>3, <2>2
  <2>4. PICK g \in f[j] : IF g.status = "OK" /\ ~g.kernel.wild
                          THEN q \in Append1(g.kernel, b) ELSE q = g
    BY <2>1, <2>3, Zenon DEF NextAppends, Then
  <2>5. IsKernel(g.kernel) /\ Safe(k, g)
    BY <1>5, <2>2, <2>4
  <2>6. CASE g.status = "OK" /\ ~g.kernel.wild
    <3>1. Sound(g.kernel)
      BY <2>5, <2>6 DEF Safe, Sound
    <3>2. Safe(g.kernel, q) /\ IsKernel(q.kernel)
      BY <2>4, <2>5, <2>6, <3>1, Append1Safe, Appended1 DEF Filled
    <3> QED
      BY <2>5, <2>6, <3>2, SafeThen
  <2>7. CASE ~(g.status = "OK" /\ ~g.kernel.wild)
    BY <2>4, <2>5, <2>7
  <2> QED
    BY <2>6, <2>7
<1> HIDE DEF S
<1>6. \A j \in Nat : j \in S
  BY <1>4, <1>5, EveryNatural
<1> QED
  BY <1>2, <1>6 DEF S

\* ui_solve_scene.
LEMMA SolvedSafe ==
    ASSUME NEW k, Sound(k), NEW o \in SolveScene(k)
    PROVE  Safe(k, o)
<1>1. k.len["scene"] \in Nat /\ "solve" \in Buffers /\ "scene" \in Buffers /\ IsKernel(k)
  BY DEF Sound, IsKernel, Buffers
<1>2. PICK a \in Ensure(k, "solve", k.len["scene"]) :
        o \in IF a.status = "OK" /\ ~a.kernel.wild
              THEN AppendMany(a.kernel, "solve", a.kernel.len["scene"]) ELSE {a}
  BY Zenon DEF SolveScene, Then
<1>3. Filled(k, a, "solve", 0) /\ Safe(k, a)
  BY <1>1, Ensured, EnsuredSafe
<1>4. IsKernel(a.kernel) /\ a.kernel.len["scene"] = k.len["scene"]
  BY <1>1, <1>3 DEF Filled, Only
<1>5. CASE a.status = "OK" /\ ~a.kernel.wild
  <2>1. o \in AppendMany(a.kernel, "solve", k.len["scene"]) /\ Sound(a.kernel)
    BY <1>2, <1>3, <1>4, <1>5 DEF Sound, Safe
  <2>2. Safe(a.kernel, o) /\ IsKernel(o.kernel)
    BY <1>1, <1>4, <2>1, Appended, AppendedSafe DEF Filled
  <2> QED
    BY <1>3, <1>4, <1>5, <2>2, SafeThen
<1>6. CASE ~(a.status = "OK" /\ ~a.kernel.wild)
  BY <1>2, <1>3, <1>6
<1> QED
  BY <1>5, <1>6

---------------------------------------------------------------------------
(* A frame over a program that can be lowered.                               *)

\* A loaded program of which every node can be lowered, and room for its scene.
Framable(k) ==
    LET p == k.auth
    IN  /\ p.n_node # 0 /\ k.len["slot"] # 0
        /\ \A i \in 0 .. p.n_node - 1 : p.nodes[i].kind # "EMPTY"
        /\ Room(k, "scene", p.n_node) /\ Room(k, "schild", p.n_child)

\* ui_lower_scene.
LEMMA LoweredSafe ==
    ASSUME NEW k, Sound(k), Framable(k), NEW o \in LowerScene(k, 1)
    PROVE  /\ Safe(k, o) /\ o.status \in {"OK", "OOM"}
           /\ o.status = "OK" => /\ o.kernel.cap["scene"] >= k.auth.n_node
                                 /\ o.kernel.cap["schild"] >= k.auth.n_child
<1> DEFINE p == k.auth
           empties == {i \in 0 .. p.n_node - 1 : p.nodes[i].kind = "EMPTY"}
           lowered == IF empties = {} THEN p.n_node ELSE FirstOf(empties)
           c(g) == Copy(g, "schild", p.n_child)
           s(g) == [c(g) EXCEPT !.wild = @ \/ c(g).torn \/ lowered > c(g).cap["scene"]]
           Lower(g) == IF empties # {} THEN Answer(s(g), "UNSUPPORTED_NODE")
                       ELSE Answer([s(g) EXCEPT !.len["scene"] = p.n_node], "OK")
<1>1. empties = {} /\ lowered = p.n_node
  BY DEF Framable
<1>2. /\ p.n_node \in Nat /\ p.n_child \in Nat /\ IsKernel(k)
      /\ {"scene", "schild"} \subseteq Buffers
  BY DEF Sound, IsKernel, IsProgram, Buffers
<1>3. PICK a \in Ensure(k, "scene", p.n_node) :
          \E b \in IF a.status = "OK" /\ ~a.kernel.wild
                   THEN Ensure(a.kernel, "schild", p.n_child) ELSE {a} :
             o \in IF b.status = "OK" /\ ~b.kernel.wild THEN Lower(b.kernel) ELSE {b}
  <2>1. ~(1 = 0 \/ k.len["slot"] = 0 \/ p.n_node = 0)
    BY DEF Framable
  <2> HIDE DEF empties, lowered
  <2> QED
    BY <2>1, Zenon DEF LowerScene, Then, empties, lowered
<1>4. PICK b \in IF a.status = "OK" /\ ~a.kernel.wild
                 THEN Ensure(a.kernel, "schild", p.n_child) ELSE {a} :
             o \in IF b.status = "OK" /\ ~b.kernel.wild THEN Lower(b.kernel) ELSE {b}
  BY <1>3
<1> HIDE DEF Lower, empties, lowered
<1>5. /\ Filled(k, a, "scene", 0) /\ Safe(k, a)
      /\ a.status = "OK" => a.kernel.cap["scene"] >= p.n_node
  BY <1>2, <1>3, Ensured, EnsuredSafe DEF Framable
<1>6. CASE a.status # "OK"
  BY <1>3, <1>4, <1>5, <1>6 DEF Filled
<1>7. CASE a.status = "OK"
  <2> DEFINE h == a.kernel
  <2>1. b \in Ensure(h, "schild", p.n_child) /\ Sound(h)
    BY <1>4, <1>5, <1>7 DEF Safe, Sound, Filled
  <2>2. Filled(h, b, "schild", 0) /\ Safe(h, b) /\ IsKernel(h)
    BY <1>2, <2>1, Ensured, EnsuredSafe DEF Sound
  <2>3. Room(h, "schild", p.n_child)
    BY <1>2, <1>5 DEF Framable, Room, Filled, Only
  <2>4. b.status = "OK" => b.kernel.cap["schild"] >= p.n_child
    BY <1>2, <2>1, <2>3, EnsuredSafe
  <2>5. b.kernel.cap["scene"] = h.cap["scene"]
    BY <1>2, <2>2 DEF Filled, Only
  <2>6. Safe(k, b) /\ IsKernel(b.kernel) /\ b.status \in {"OK", "OOM"}
    BY <1>5, <1>7, <2>2, SafeThen DEF Filled
  <2>7. CASE b.status # "OK"
    BY <1>4, <2>6, <2>7
  <2>8. CASE b.status = "OK"
    <3> DEFINE g == b.kernel
               w == c(g).wild \/ c(g).torn \/ lowered > c(g).cap["scene"]
               z == WithLength(s(g), "scene", p.n_node)
    <3>1. o \in Answer(z, "OK")
      <4>1. o \in Lower(g)
        BY <1>4, <2>6, <2>8 DEF Safe
      <4> HIDE DEF s
      <4> QED
        BY <1>1, <4>1, Zenon DEF Lower, WithLength
    <3>2. IsKernel(g) /\ ~g.wild /\ ~g.torn /\ g.cap["schild"] >= p.n_child /\ g.cap["scene"] >= p.n_node
      BY <1>5, <1>7, <2>4, <2>5, <2>6, <2>8 DEF Safe
    <3>3. /\ \A x \in Buffers : g.cap[x] >= k.cap[x]
          /\ g.cap["scene"] \in Nat /\ g.cap["schild"] \in Nat
      BY <1>2, <2>6 DEF Safe, IsKernel
    <3> HIDE DEF g
    <3>4. c(g).cap = g.cap /\ ~c(g).wild /\ ~c(g).torn /\ IsKernel(c(g))
      <4>1. IsKernel(c(g))
        BY <1>2, <3>2, Copied
      <4>2. ~(p.n_child > g.cap["schild"])
        BY <1>2, <3>2, <3>3
      <4> DEFINE v == g.wild \/ p.n_child > g.cap["schild"]
                 l == [g.len EXCEPT !["schild"] = p.n_child]
      <4>3. c(g) = [g EXCEPT !.len = l, !.wild = v]
        BY DEF Copy
      <4> HIDE DEF l, c
      <4>4. c(g).cap = g.cap /\ c(g).wild = v /\ c(g).torn = g.torn
        BY <3>2, <4>3 DEF IsKernel, Fields
      <4> QED
        BY <3>2, <4>1, <4>2, <4>4
    <3>5. ~w
      BY <1>1, <1>2, <3>2, <3>3, <3>4
    <3>6. s(g) = [c(g) EXCEPT !.wild = w]
      OBVIOUS
    <3> HIDE DEF c, w
    <3>7. s(g).cap = g.cap /\ ~s(g).wild /\ ~s(g).torn /\ DOMAIN s(g) = Fields
      BY <3>4, <3>5, <3>6 DEF IsKernel, Fields
    <3> HIDE DEF s
    <3>8. z.cap = g.cap /\ ~z.wild /\ ~z.torn
      BY <3>7 DEF WithLength, Fields
    <3>9. o.kernel = z /\ o.status = "OK"
      BY <3>1, AnswerFields
    <3> HIDE DEF z
    <3> QED
      BY <3>2, <3>3, <3>8, <3>9 DEF Safe
  <2> QED
    BY <2>7, <2>8
<1> QED
  BY <1>6, <1>7

\* The press and the events after one raw input of the benchmark's.
Pressed(k, hover, raw) ==
    CASE raw = "POINTER_PRESSED" -> hover
      [] raw = "POINTER_RELEASED" -> 0
      [] OTHER -> k.pressed

Activates(k, hover, raw) == raw = "POINTER_RELEASED" /\ k.pressed # 0 /\ k.pressed = hover

PointerRaws == {"NONE", "POINTER_MOVED", "POINTER_PRESSED", "POINTER_RELEASED"}

\* ui_interact_step, to the letter.
LEMMA InteractExact ==
    ASSUME NEW k, Sound(k), NEW hover \in Nat, NEW raw \in PointerRaws,
           NEW o \in InteractStep(k, hover, raw)
    PROVE  /\ Safe(k, o) /\ o.status \in {"OK", "OOM"}
           /\ o.status = "OK" =>
                 /\ o.kernel.pressed = Pressed(k, hover, raw)
                 /\ o.kernel.events = IF Activates(k, hover, raw)
                                      THEN Append(k.events, k.pressed) ELSE k.events
<1> DEFINE released == Released(k)
           e == Append(released.events, k.pressed)
           activated == [released EXCEPT !.events = e]
           Done(g) == [activated EXCEPT !.len = g.len, !.cap = g.cap]
           firing == Then(Append1(k, "event"), LAMBDA g : Answer(Done(g), "OK"))
           moved == [k EXCEPT !.hover = hover]
           c == IF hover # 0 /\ k.capture = 0 THEN hover ELSE k.capture
           pressed == [k EXCEPT !.pressed = hover, !.capture = c]
<1>1. DOMAIN k = Fields /\ ~k.torn /\ ~k.wild /\ \A b \in Buffers : k.cap[b] \in Nat
  BY DEF Sound, IsKernel
<1>2. /\ DOMAIN released = Fields /\ released.pressed = 0
      /\ \A f \in Fields \ {"pressed", "capture"} : released[f] = k[f]
  BY <1>1 DEF Released, Fields
<1>3. /\ moved.pressed = k.pressed
      /\ \A f \in Fields \ {"hover"} : moved[f] = k[f]
  BY <1>1 DEF Fields
<1>4. /\ pressed.pressed = hover
      /\ \A f \in Fields \ {"pressed", "capture"} : pressed[f] = k[f]
  <2> HIDE DEF c
  <2> QED
    BY <1>1 DEF Fields
<1> HIDE DEF released, moved, pressed
<1>5. ASSUME NEW g, o \in Answer(g, "OK"), ~Activates(k, hover, raw),
             \A f \in {"events", "torn", "wild", "cap"} : g[f] = k[f],
             g.pressed = Pressed(k, hover, raw)
      PROVE  /\ Safe(k, o) /\ o.status = "OK" /\ o.kernel.pressed = Pressed(k, hover, raw)
             /\ o.kernel.events = k.events
  <2>1. o.kernel = g /\ o.status = "OK"
    BY <1>5, AnswerFields
  <2>2. g.events = k.events /\ ~g.torn /\ ~g.wild /\ g.cap = k.cap
    BY <1>1, <1>5
  <2> QED
    BY <1>1, <1>5, <2>1, <2>2 DEF Safe
<1>6. CASE raw = "NONE"
  <2>1. o \in Answer(k, "OK") /\ ~Activates(k, hover, raw) /\ k.pressed = Pressed(k, hover, raw)
    BY <1>6 DEF InteractStep, Activates, Pressed
  <2> QED
    BY <1>5, <2>1
<1>7. CASE raw = "POINTER_MOVED"
  <2>1. o \in Answer(moved, "OK") /\ ~Activates(k, hover, raw) /\ k.pressed = Pressed(k, hover, raw)
    BY <1>7 DEF InteractStep, Activates, Pressed, moved
  <2> QED
    BY <1>3, <1>5, <2>1 DEF Fields
<1>8. CASE raw = "POINTER_PRESSED"
  <2>1. o \in Answer(pressed, "OK") /\ ~Activates(k, hover, raw) /\ hover = Pressed(k, hover, raw)
    BY <1>8 DEF InteractStep, Activates, Pressed, pressed
  <2> QED
    BY <1>4, <1>5, <2>1 DEF Fields
<1>9. CASE raw = "POINTER_RELEASED" /\ ~Activates(k, hover, raw)
  <2>1. o \in Answer(released, "OK") /\ 0 = Pressed(k, hover, raw)
    BY <1>9 DEF InteractStep, Activates, Pressed, released
  <2> QED
    BY <1>2, <1>5, <1>9, <2>1 DEF Fields
<1>10. CASE Activates(k, hover, raw)
  <2>1. o \in firing /\ Pressed(k, hover, raw) = 0
    <3>1. raw = "POINTER_RELEASED" /\ k.pressed # 0 /\ k.pressed = hover
      BY <1>10 DEF Activates
    <3>2. raw # "POINTER_MOVED" /\ raw # "POINTER_PRESSED"
      BY <3>1
    <3>3. InteractStep(k, hover, raw) = firing
      BY <3>1, <3>2, Zenon DEF InteractStep, released
    <3> QED
      BY <3>1, <3>2, <3>3 DEF Pressed
  <2>2. PICK g \in Append1(k, "event") :
          IF g.status = "OK" /\ ~g.kernel.wild THEN o \in Answer(Done(g.kernel), "OK") ELSE o = g
    BY <2>1, Zenon DEF Then
  <2>3. Safe(k, g) /\ Filled(k, g, "event", 1)
    BY Append1Safe, Appended1 DEF Buffers, Sound
  <2>4. CASE g.status # "OK"
    BY <2>2, <2>3, <2>4 DEF Filled
  <2>5. CASE g.status = "OK"
    <3> DEFINE h == g.kernel
               d == Done(h)
    <3>1. o.kernel = d /\ o.status = "OK"
      BY <2>2, <2>3, <2>5, AnswerFields DEF Safe
    <3>2. e = Append(k.events, k.pressed)
      BY <1>2 DEF Fields
    <3> HIDE DEF e
    <3>3. d.events = e /\ d.cap = h.cap /\ d.pressed = 0 /\ d.torn = k.torn /\ d.wild = k.wild
      BY <1>2 DEF Fields
    <3> HIDE DEF d
    <3> QED
      BY <1>1, <1>10, <2>1, <2>3, <3>1, <3>2, <3>3 DEF Safe
  <2> QED
    BY <2>4, <2>5
<1> QED
  BY <1>6, <1>7, <1>8, <1>9, <1>10 DEF PointerRaws

\* A frame of the benchmark: it ends well, or memory is short.
FrameRan(k, o, raw) ==
    LET g == o.kernel
        hover == HoverOf(k.auth)
    IN  /\ Sound(g) /\ g.auth = k.auth
        /\ g.len["view"] = ViewCount(k.auth)
        /\ g.len["event"] = IF Activates(k, hover, raw) THEN 1 ELSE 0
        /\ g.pressed = Pressed(k, hover, raw)
        /\ g.cap["scene"] >= k.auth.n_node /\ g.cap["schild"] >= k.auth.n_child
        /\ \A b \in ProgramBuffers : g.len[b] = k.len[b] /\ g.cap[b] = k.cap[b]

\* The phases one after the other.
LEMMA FrameSafe ==
    ASSUME NEW k, Sound(k), Framable(k), NEW raw \in PointerRaws, NEW o \in Frame(k, 1, raw)
    PROVE  /\ o.status = "OK" \/ (o.status = "OOM" /\ AllocMayFail)
           /\ ~o.kernel.wild /\ IsKernel(o.kernel)
           /\ o.status = "OK" => FrameRan(k, o, raw)
<1> DEFINE r == ResetFrame(k)
           Goes(x) == x.status = "OK" /\ ~x.kernel.wild
           hover == HoverOf(k.auth)
           n == k.auth.n_node
           m == k.auth.n_child
<1>1. PICK a \in LowerScene(r, 1) :
        \E b \in IF Goes(a) THEN SolveScene(a.kernel) ELSE {a} :
          \E c \in IF Goes(b) THEN RenderOps(b.kernel) ELSE {b} :
             o \in IF Goes(c) THEN InteractStep(c.kernel, HoverOf(c.kernel.auth), raw) ELSE {c}
  BY Zenon DEF Frame, Then
<1>2. PICK b \in IF Goes(a) THEN SolveScene(a.kernel) ELSE {a} :
        \E c \in IF Goes(b) THEN RenderOps(b.kernel) ELSE {b} :
           o \in IF Goes(c) THEN InteractStep(c.kernel, HoverOf(c.kernel.auth), raw) ELSE {c}
  BY <1>1, Zenon
<1>3. PICK c \in IF Goes(b) THEN RenderOps(b.kernel) ELSE {b} :
        o \in IF Goes(c) THEN InteractStep(c.kernel, HoverOf(c.kernel.auth), raw) ELSE {c}
  BY <1>2, Zenon
<1>4. /\ IsKernel(r) /\ r.auth = k.auth /\ r.pressed = k.pressed /\ r.events = <<>>
      /\ r.cap = k.cap /\ ~r.torn /\ ~r.wild
      /\ \A x \in FrameBuffers : r.len[x] = 0
      /\ \A x \in ProgramBuffers : r.len[x] = k.len[x]
  <2>1. /\ r.cap = k.cap /\ r.torn = k.torn /\ r.wild = k.wild
        /\ r.len = [x \in Buffers |-> IF x \in FrameBuffers THEN 0 ELSE k.len[x]]
    BY DEF ResetFrame, Sound, IsKernel, Fields
  <2>2. \A x \in ProgramBuffers : x \in Buffers /\ x \notin FrameBuffers
    BY DEF ProgramBuffers, Buffers, FrameBuffers
  <2> HIDE DEF r
  <2>3. \A x \in ProgramBuffers : r.len[x] = k.len[x]
    BY <2>1, <2>2
  <2> QED
    BY <2>1, <2>3, FrameStarts DEF Sound, r
<1> HIDE DEF r
<1>5. /\ Framable(r) /\ Sound(r) /\ IsKernel(k) /\ IsProgram(k.auth) /\ hover \in Nat
      /\ ViewCount(k.auth) \in Nat /\ n \in Nat /\ m \in Nat
  <2>1. /\ r.len["scene"] = 0 /\ r.len["schild"] = 0 /\ r.len["slot"] = k.len["slot"]
        /\ r.cap = k.cap /\ r.auth = k.auth
    BY <1>4 DEF FrameBuffers, ProgramBuffers
  <2>2. Framable(r)
    BY <2>1 DEF Framable, Room
  <2>3. IsProgram(k.auth) /\ IsKernel(k)
    BY DEF Sound, IsKernel
  <2> QED
    BY <1>4, <2>2, <2>3, HoverTyped, ViewCountTyped DEF Sound, IsProgram
<1> HIDE DEF hover
<1>6. FrameEnds(k, o)
  BY <1>5, FrameRuns
<1>7. /\ {"solve", "view", "event", "scene", "schild"} \subseteq Buffers
      /\ \A x \in ProgramBuffers : x \in Buffers /\ x \notin FrameBuffers
      /\ FrameBuffers = {"solve", "view", "event", "scene", "schild"}
  BY DEF FrameBuffers, Buffers, ProgramBuffers
\* What holds of every outcome on the way.
<1> DEFINE Way(x) == /\ IsKernel(x.kernel) /\ Kept(r, x.kernel) /\ Only(r, x.kernel, FrameBuffers)
                     /\ Safe(r, x) /\ x.status \in {"OK", "OOM"}
                     /\ x.status = "OK" => x.kernel.cap["scene"] >= n /\ x.kernel.cap["schild"] >= m
<1>8. Way(a)
  <2>1. Touched(r, a, {"scene", "schild"})
    BY <1>1, <1>4, Lowered
  <2>2. /\ Safe(r, a) /\ a.status \in {"OK", "OOM"}
        /\ a.status = "OK" => a.kernel.cap["scene"] >= n /\ a.kernel.cap["schild"] >= m
    BY <1>1, <1>4, <1>5, LoweredSafe
  <2> QED
    BY <1>7, <2>1, <2>2 DEF Touched, Only
<1>9. ASSUME NEW x, Way(x), Goes(x), NEW y, NEW d \in {"solve", "view"}, NEW z \in Nat,
             Filled(x.kernel, y, d, z), Safe(x.kernel, y)
      PROVE  Way(y)
  <2>1. IsKernel(y.kernel) /\ y.status \in {"OK", "OOM"} /\ Kept(r, y.kernel)
    BY <1>9 DEF Filled, Kept
  <2>2. Only(r, y.kernel, FrameBuffers)
    BY <1>7, <1>9 DEF Filled, Only
  <2>3. Safe(r, y)
    BY <1>5, <1>9, <2>1, SafeThen
  <2>4. y.kernel.cap["scene"] = x.kernel.cap["scene"] /\ y.kernel.cap["schild"] = x.kernel.cap["schild"]
    BY <1>7, <1>9 DEF Filled, Only
  <2> QED
    BY <1>9, <2>1, <2>2, <2>3, <2>4
<1>10. Way(b)
  <2>1. CASE Goes(a)
    <3>1. b \in SolveScene(a.kernel) /\ Sound(a.kernel) /\ IsKernel(a.kernel)
      BY <1>2, <1>8, <2>1 DEF Safe, Sound
    <3>2. Filled(a.kernel, b, "solve", a.kernel.len["scene"]) /\ a.kernel.len["scene"] \in Nat
      BY <1>7, <3>1, Solved DEF IsKernel
    <3>3. Safe(a.kernel, b)
      BY <3>1, SolvedSafe
    <3> HIDE DEF Way
    <3> QED
      BY <1>8, <1>9, <2>1, <3>2, <3>3
  <2>2. CASE ~Goes(a)
    BY <1>2, <1>8, <2>2
  <2> QED
    BY <2>1, <2>2
<1>11. Way(c)
  <2>1. CASE Goes(b)
    <3>1. c \in RenderOps(b.kernel) /\ b.kernel.auth = k.auth /\ Sound(b.kernel) /\ IsKernel(b.kernel)
      BY <1>3, <1>4, <1>10, <2>1 DEF Kept, Safe, Sound
    <3>2. Filled(b.kernel, c, "view", ViewCount(k.auth)) /\ Safe(b.kernel, c)
      BY <1>5, <1>7, <3>1, Appended, AppendedSafe DEF RenderOps
    <3> HIDE DEF Way
    <3> QED
      BY <1>5, <1>9, <1>10, <2>1, <3>2
  <2>2. CASE ~Goes(b)
    BY <1>3, <1>10, <2>2
  <2> QED
    BY <2>1, <2>2
<1>12. CASE ~Goes(c)
  BY <1>3, <1>11, <1>12 DEF Safe
<1>13. CASE Goes(c)
  <2> DEFINE g == c.kernel
  <2>1. /\ Sound(g) /\ g.auth = k.auth /\ g.events = <<>> /\ g.pressed = k.pressed
        /\ g.cap["scene"] >= n /\ g.cap["schild"] >= m /\ Only(r, g, FrameBuffers)
    BY <1>4, <1>11, <1>13 DEF Kept, Safe, Sound
  <2>2. o \in InteractStep(g, hover, raw)
    BY <1>3, <1>13, <2>1 DEF hover
  <2> HIDE DEF g
  <2>3. /\ Safe(g, o) /\ o.status \in {"OK", "OOM"}
        /\ o.status = "OK" =>
              /\ o.kernel.pressed = Pressed(g, hover, raw)
              /\ o.kernel.events = IF Activates(g, hover, raw)
                                   THEN Append(g.events, g.pressed) ELSE g.events
    BY <1>5, <2>1, <2>2, InteractExact
  <2>4. Only(g, o.kernel, {"event"}) /\ IsKernel(o.kernel)
    <3>1. IsKernel(g)
      BY <2>1 DEF Sound
    <3>2. IsKernel(o.kernel) /\ (Quiet(g, o, hover) \/ Fires(g, o, hover) \/ Refused(g, o, hover))
      BY <1>5, <2>2, <3>1, Interacted
    <3> QED
      BY <3>2 DEF Quiet, Fires, Refused, Only
  <2>5. CASE o.status # "OK"
    BY <2>3, <2>4, <2>5 DEF Safe
  <2>6. CASE o.status = "OK"
    <3>1. /\ Pressed(g, hover, raw) = Pressed(k, hover, raw)
          /\ Activates(g, hover, raw) = Activates(k, hover, raw)
      BY <2>1 DEF Pressed, Activates
    <3>2. Len(o.kernel.events) = IF Activates(k, hover, raw) THEN 1 ELSE 0
      <4>1. CASE Activates(k, hover, raw)
        <5>1. o.kernel.events = <<k.pressed>>
          BY <2>1, <2>3, <2>6, <3>1, <4>1
        <5> QED
          BY <4>1, <5>1
      <4>2. CASE ~Activates(k, hover, raw)
        BY <2>1, <2>3, <2>6, <3>1, <4>2
      <4> QED
        BY <4>1, <4>2
    <3>3. \A x \in Buffers \ FrameBuffers : o.kernel.len[x] = r.len[x] /\ o.kernel.cap[x] = r.cap[x]
      BY <1>7, <2>1, <2>4 DEF Only
    <3>4. o.kernel.cap["scene"] = g.cap["scene"] /\ o.kernel.cap["schild"] = g.cap["schild"]
      BY <1>7, <2>4 DEF Only
    <3>5. \A x \in ProgramBuffers : o.kernel.len[x] = k.len[x] /\ o.kernel.cap[x] = k.cap[x]
      BY <1>4, <1>7, <3>3
    <3>6. Sound(o.kernel)
      BY <2>3, <2>4, <2>6 DEF Safe, Sound
    <3>7. /\ o.kernel.auth = k.auth /\ o.kernel.len["view"] = ViewCount(k.auth)
          /\ o.kernel.len["event"] = Len(o.kernel.events)
      BY <1>6, <2>6, <3>6 DEF FrameEnds, Sound
    <3> QED
      BY <2>1, <2>3, <2>6, <3>1, <3>2, <3>4, <3>5, <3>6, <3>7 DEF FrameRan, hover, Sound
  <2> QED
    BY <2>5, <2>6
<1> QED
  BY <1>12, <1>13

---------------------------------------------------------------------------
(* Loading a program that the validator accepts.                             *)

\* Lengths that the buffers need for a program.
Needed(p) == [b \in Buffers |-> CASE b \in {"child", "schild"} -> p.n_child
                                  [] b = "token" -> p.n_token
                                  [] OTHER -> p.n_node]

\* One of the stages of an import: room for the buffers of B.
Staged(k, p, o, B) ==
    /\ Undisturbed(k, o) /\ Only(k, o.kernel, B) /\ Safe(k, o) /\ o.status \in {"OK", "OOM"}
    /\ o.status = "OK" => \A b \in B : o.kernel.cap[b] >= Needed(p)[b]

\* Room for one buffer more.
LEMMA NextStage ==
    ASSUME NEW k, Sound(k), NEW p, IsProgram(p), NEW B \in SUBSET ProgramBuffers,
           NEW g, Staged(k, p, g, B), NEW b \in ProgramBuffers \ B, Room(k, b, Needed(p)[b]),
           NEW o \in IF g.status = "OK" /\ ~g.kernel.wild
                     THEN Ensure(g.kernel, b, Needed(p)[b]) ELSE {g}
    PROVE  Staged(k, p, o, B \cup {b})
<1> DEFINE n == Needed(p)[b]
<1>1. n \in Nat /\ b \in Buffers /\ B \subseteq Buffers
  BY DEF Needed, IsProgram, ProgramBuffers, Buffers
<1> HIDE DEF n
<1>2. CASE g.status # "OK"
  BY <1>2 DEF Staged, Only
<1>3. CASE g.status = "OK"
  <2>1. o \in Ensure(g.kernel, b, n) /\ Sound(g.kernel) /\ IsKernel(g.kernel)
    BY <1>3 DEF Staged, Safe, Sound, Undisturbed, n
  <2>2. Filled(g.kernel, o, b, 0) /\ Safe(g.kernel, o)
    BY <1>1, <2>1, Ensured, EnsuredSafe
  <2>3. Room(g.kernel, b, n)
    BY <1>1 DEF Staged, Only, Room, n
  <2>4. o.status = "OK" => o.kernel.cap[b] >= n
    BY <1>1, <2>1, <2>3, EnsuredSafe
  <2>5. \A c \in B : o.kernel.cap[c] = g.kernel.cap[c]
    BY <1>1, <2>2 DEF Filled, Only
  <2>6. Only(k, o.kernel, B \cup {b})
    BY <2>2 DEF Filled, Only, Staged
  <2>7. Safe(k, o)
    BY <1>3, <2>1, <2>2, SafeThen DEF Staged, Filled
  <2>8. Undisturbed(k, o)
    BY <2>2 DEF Staged, Undisturbed, Filled, Kept, Only
  <2> QED
    BY <1>3, <2>2, <2>4, <2>5, <2>6, <2>7, <2>8 DEF Staged, Filled, n
<1> QED
  BY <1>2, <1>3

\* What a load leaves that ends well.
LoadDone(k, p, o) ==
    LET g == o.kernel
    IN  /\ Sound(g) /\ g.auth = p /\ g.len["slot"] = p.n_node
        /\ \A b \in ProgramBuffers : g.cap[b] >= Needed(p)[b]

\* A copy into a buffer that has the room.
LEMMA CopiedSafe ==
    ASSUME NEW k, Sound(k), NEW b \in Buffers, NEW n \in Nat, k.cap[b] >= n
    PROVE  /\ Sound(Copy(k, b, n)) /\ Copy(k, b, n).cap = k.cap
           /\ Copy(k, b, n).auth = k.auth
<1> DEFINE l == [k.len EXCEPT ![b] = n]
           w == k.wild \/ n > k.cap[b]
           c == Copy(k, b, n)
<1>1. c = [k EXCEPT !.len = l, !.wild = w]
  BY DEF Copy
<1>2. DOMAIN k = Fields /\ k.cap[b] \in Nat
  BY DEF Sound, IsKernel
<1>3. IsKernel(c)
  BY Copied DEF Sound
<1>4. ~w
  BY <1>2 DEF Sound
<1> HIDE DEF l, w, c
<1>5. c.cap = k.cap /\ c.torn = k.torn /\ c.wild = w /\ c.auth = k.auth
  BY <1>1, <1>2 DEF Fields
<1> QED
  BY <1>3, <1>4, <1>5 DEF Sound, c

\* ui_import_auth.
LEMMA ImportSafe ==
    ASSUME NEW k, Sound(k), NEW p, IsProgram(p), p.n_node # 0, p.nodes[0].kind # "EMPTY",
           Duplicates(p) = {}, \A b \in ProgramBuffers : Room(k, b, Needed(p)[b]),
           NEW o \in ImportAuth(k, p)
    PROVE  /\ o.status = "OK" \/ (o.status = "OOM" /\ AllocMayFail)
           /\ ~o.kernel.wild
           /\ o.status = "OK" => LoadDone(k, p, o)
<1> DEFINE Goes(x) == x.status = "OK" /\ ~x.kernel.wild
           Authored(g) == [g EXCEPT !.auth = p]
           Rows(g) == Copy(Copy(Copy(Authored(g), "node", p.n_node), "child", p.n_child),
                           "token", p.n_token)
           Onward(x, S) == IF Goes(x) THEN S ELSE {x}
           nodes == Ensure(k, "node", p.n_node)
           children == Then(nodes, LAMBDA g : Ensure(g, "child", p.n_child))
           tokens == Then(children, LAMBDA g : Ensure(g, "token", p.n_token))
           slots == Then(tokens, LAMBDA g : Ensure(g, "slot", p.n_node))
           copied == Then(slots, LAMBDA g : Answer(Rows(g), "OK"))
<1>1. o \in Then(copied, LAMBDA g : StoreSlots(g, p))
  <2>1. ~(p.n_node = 0 \/ (p.n_node > 0 /\ p.nodes[0].kind = "EMPTY"))
    OBVIOUS
  <2> QED
    BY <2>1, Zenon DEF ImportAuth
<1>2. PICK e \in copied : o \in Onward(e, StoreSlots(e.kernel, p))
  <2> HIDE DEF copied
  <2> QED
    BY <1>1, Zenon DEF Then
<1>3. PICK d \in slots : e \in Onward(d, Answer(Rows(d.kernel), "OK"))
  <2> HIDE DEF slots
  <2> QED
    BY <1>2, Zenon DEF Then
<1>4. PICK c \in tokens : d \in Onward(c, Ensure(c.kernel, "slot", p.n_node))
  <2> HIDE DEF tokens
  <2> QED
    BY <1>3, Zenon DEF Then
<1>5. PICK b \in children : c \in Onward(b, Ensure(b.kernel, "token", p.n_token))
  <2> HIDE DEF children
  <2> QED
    BY <1>4, Zenon DEF Then
<1>6. PICK a \in nodes : b \in Onward(a, Ensure(a.kernel, "child", p.n_child))
  <2> HIDE DEF nodes
  <2> QED
    BY <1>5, Zenon DEF Then
<1> HIDE DEF Rows
<1>7. /\ p.n_node \in Nat /\ p.n_child \in Nat /\ p.n_token \in Nat
      /\ Needed(p)["node"] = p.n_node /\ Needed(p)["child"] = p.n_child
      /\ Needed(p)["token"] = p.n_token /\ Needed(p)["slot"] = p.n_node
  BY DEF IsProgram, Needed, Buffers
<1>8. Staged(k, p, a, {"node"})
  <2> DEFINE s == [kernel |-> k, status |-> "OK"]
  <2>1. \A x \in Buffers : k.cap[x] \in Nat
    BY DEF Sound, IsKernel
  <2>2. Staged(k, p, s, {}) /\ s.status = "OK" /\ ~s.kernel.wild /\ s.kernel = k
    BY <2>1 DEF Staged, Undisturbed, Only, Safe, Sound
  <2> HIDE DEF s
  <2>3. "node" \in ProgramBuffers \ {} /\ {} \in SUBSET ProgramBuffers /\ {} \cup {"node"} = {"node"}
    BY DEF ProgramBuffers
  <2>4. a \in IF s.status = "OK" /\ ~s.kernel.wild
              THEN Ensure(s.kernel, "node", Needed(p)["node"]) ELSE {s}
    BY <1>6, <1>7, <2>2
  <2>5. Staged(k, p, a, {} \cup {"node"})
    BY <2>2, <2>3, <2>4, NextStage
  <2> QED
    BY <2>3, <2>5
<1>9. Staged(k, p, b, {"node", "child"})
  <2>1. /\ "child" \in ProgramBuffers \ {"node"} /\ {"node"} \in SUBSET ProgramBuffers
        /\ {"node"} \cup {"child"} = {"node", "child"}
    BY DEF ProgramBuffers
  <2>2. Staged(k, p, b, {"node"} \cup {"child"})
    BY <1>6, <1>7, <1>8, <2>1, NextStage
  <2> QED
    BY <2>1, <2>2
<1>10. Staged(k, p, c, {"node", "child", "token"})
  <2>1. /\ "token" \in ProgramBuffers \ {"node", "child"} /\ {"node", "child"} \in SUBSET ProgramBuffers
        /\ {"node", "child"} \cup {"token"} = {"node", "child", "token"}
    BY DEF ProgramBuffers
  <2>2. Staged(k, p, c, {"node", "child"} \cup {"token"})
    BY <1>5, <1>7, <1>9, <2>1, NextStage
  <2> QED
    BY <2>1, <2>2
<1>11. Staged(k, p, d, ProgramBuffers)
  <2>1. /\ "slot" \in ProgramBuffers \ {"node", "child", "token"}
        /\ {"node", "child", "token"} \in SUBSET ProgramBuffers
        /\ {"node", "child", "token"} \cup {"slot"} = ProgramBuffers
    BY DEF ProgramBuffers
  <2>2. Staged(k, p, d, {"node", "child", "token"} \cup {"slot"})
    BY <1>4, <1>7, <1>10, <2>1, NextStage
  <2> QED
    BY <2>1, <2>2
<1>12. CASE d.status # "OK"
  BY <1>2, <1>3, <1>11, <1>12 DEF Staged, Safe
<1>13. CASE d.status = "OK"
  <2> DEFINE h == d.kernel
             l == Authored(h)
             u == Copy(l, "node", p.n_node)
             v == Copy(u, "child", p.n_child)
             w == Copy(v, "token", p.n_token)
  <2>1. Sound(h) /\ \A x \in ProgramBuffers : h.cap[x] >= Needed(p)[x]
    BY <1>11, <1>13 DEF Staged, Safe, Sound, Undisturbed
  <2>2. e.kernel = w /\ e.status = "OK"
    BY <1>3, <1>13, <2>1, AnswerFields DEF Rows, Sound
  <2> HIDE DEF h
  <2>3. /\ DOMAIN l = Fields /\ l.auth = p /\ l.len = h.len /\ l.cap = h.cap
        /\ l.events = h.events /\ l.pressed = h.pressed /\ l.hover = h.hover
        /\ l.torn = h.torn /\ l.wild = h.wild
    BY <2>1 DEF Sound, IsKernel, Fields
  <2> HIDE DEF l
  <2>4. Sound(l)
    BY <2>1, <2>3 DEF Sound, IsKernel
  <2>5. /\ {"node", "child", "token", "slot"} \subseteq Buffers
        /\ ProgramBuffers = {"node", "child", "token", "slot"}
    BY DEF Buffers, ProgramBuffers
  <2>6. /\ l.cap["node"] >= p.n_node /\ l.cap["child"] >= p.n_child /\ l.cap["token"] >= p.n_token
        /\ l.cap["slot"] >= p.n_node /\ l.cap["slot"] \in Nat
    BY <1>7, <2>1, <2>3, <2>5 DEF Sound, IsKernel
  <2>7. Sound(u) /\ u.cap = l.cap /\ u.auth = p
    BY <1>7, <2>3, <2>4, <2>5, <2>6, CopiedSafe
  <2> HIDE DEF u
  <2>8. Sound(v) /\ v.cap = l.cap /\ v.auth = p
    BY <1>7, <2>5, <2>6, <2>7, CopiedSafe
  <2> HIDE DEF v
  <2>9. Sound(w) /\ w.cap = l.cap /\ w.auth = p
    BY <1>7, <2>5, <2>6, <2>8, CopiedSafe
  <2> HIDE DEF w
  <2>10. o \in StoreSlots(w, p)
    BY <1>2, <2>2, <2>9 DEF Sound
  <2>11. o.kernel = WithLength(w, "slot", p.n_node) /\ o.status = "OK"
    <3>1. ~(w.cap["slot"] < p.n_node)
      BY <1>7, <2>6, <2>9
    <3>2. o \in Answer(WithLength(w, "slot", p.n_node), "OK")
      BY <2>10, <3>1, Zenon DEF StoreSlots, WithLength
    <3> QED
      BY <3>2, AnswerFields
  <2>12. /\ IsKernel(o.kernel) /\ Kept(w, o.kernel) /\ o.kernel.len["slot"] = p.n_node
         /\ o.kernel.wild = w.wild
    <3> DEFINE n == p.n_node
               z == WithLength(w, "slot", n)
    <3>1. IsKernel(w) /\ "slot" \in Buffers /\ n \in Nat
      BY <1>7, <2>5, <2>9 DEF Sound
    <3>2. o.kernel = z
      BY <2>11
    <3> HIDE DEF n
    <3>3. IsKernel(z) /\ Kept(w, z) /\ z.len["slot"] = n /\ z.wild = w.wild
      BY <3>1, SetLength, Zenon
    <3> HIDE DEF z
    <3> QED
      BY <3>2, <3>3 DEF n
  <2>13. o.kernel.cap = w.cap /\ o.kernel.torn = w.torn
    BY <2>9, <2>11 DEF WithLength, Sound, IsKernel, Fields
  <2>14. \A x \in ProgramBuffers : o.kernel.cap[x] >= Needed(p)[x]
    BY <2>1, <2>3, <2>9, <2>13
  <2> QED
    BY <2>9, <2>11, <2>12, <2>13, <2>14 DEF LoadDone, Sound, Kept
<1> QED
  BY <1>12, <1>13

\* mlui_load_program.
LEMMA LoadSafe ==
    ASSUME NEW k, Sound(k), NEW p, IsProgram(p), p.n_node # 0, p.nodes[0].kind # "EMPTY",
           p.root_index = 0, ValidateProgram(p) = "OK", \A b \in ProgramBuffers : Room(k, b, Needed(p)[b]),
           NEW o \in LoadProgram(k, p)
    PROVE  /\ o.status = "OK" \/ (o.status = "OOM" /\ AllocMayFail)
           /\ ~o.kernel.wild /\ IsKernel(o.kernel)
           /\ \A b \in {"scene", "schild"} :
                 o.kernel.len[b] = k.len[b] /\ o.kernel.cap[b] = k.cap[b]
           /\ o.kernel.pressed = k.pressed
           /\ o.status = "OK" => LoadDone(k, p, o)
<1>1. o \in ImportAuth(k, p)
  BY DEF LoadProgram
<1>2. Duplicates(p) = {}
  <2>1. ASSUME Duplicates(p) # {} PROVE FALSE
    <3> DEFINE bad == BadNodes(p)
               again == Duplicates(p)
               first == NodeStatus(p, FirstOf(bad))
    <3>1. bad # {} => FirstOf(bad) \in bad
      <4>1. bad \in SUBSET Nat
        BY DEF BadNodes, IsProgram
      <4> QED
        BY <4>1, LeastNatural DEF FirstOf
    <3>2. bad # {} => first # "OK"
      BY <3>1 DEF BadNodes
    <3> HIDE DEF bad, again, first
    <3>3. ValidateProgram(p) =
            CASE ~p.header -> "INVALID_HEADER"
              [] p.header /\ p.root_index >= p.n_node -> "INVALID_RANGE"
              [] p.header /\ p.root_index < p.n_node /\ bad # {} -> first
              [] p.header /\ p.root_index < p.n_node /\ bad = {} /\ again # {} -> "DUPLICATE_ID"
              [] OTHER -> "OK"
      BY Zenon DEF ValidateProgram, bad, again, first
    <3>4. p.n_node > 0 /\ p.n_node \in Nat
      BY DEF IsProgram
    <3> QED
      BY <2>1, <3>2, <3>3, <3>4 DEF again
  <2> QED
    BY <2>1
<1>3. Undisturbed(k, o)
  BY <1>1, Imported DEF Sound
<1>4. {"scene", "schild"} \subseteq Buffers \ ProgramBuffers
  BY DEF Buffers, ProgramBuffers
<1> QED
  BY <1>1, <1>2, <1>3, <1>4, ImportSafe DEF Undisturbed, Only

---------------------------------------------------------------------------
(* The benchmark's invariant.                                                *)

\* The program of a case: its size, and what its buffers must hold.
CaseCap == NodeCap(bc.shape, args.node_count)

OfCase(b) == b.shape = bc.shape /\ b.n_node = CaseCap

CaseNeed == [b \in Buffers |-> CASE b \in {"child", "schild"} -> CaseCap - 1
                                 [] b = "token" -> TokenCap(bc.shape, CaseCap)
                                 [] OTHER -> CaseCap]

InSample == at \notin {"case", "sample", "exit"}

\* A round of a rebuild sample whose frame has run.
InRound == at = "free" /\ owned.kernels = 1

\* Frames counted by the loop that runs.
Frames == IF InRound THEN count.i + 1 ELSE count.i

Limit == IF count.measured THEN args.loops ELSE args.warmup

\* Nothing is held twice, and nothing is held that the place does not need.
Holdings ==
    at # "exit" =>
        /\ owned.arrays = IF at = "case" THEN 0 ELSE 1
        /\ at \in {"validate", "load", "next", "frame", "close"} => owned.kernels = 1
        /\ at \in {"case", "sample", "init"} => owned.kernels = 0
        /\ Loaded /\ at \in {"make", "build", "free"} => owned.kernels = 0
        /\ owned.programs = IF at \in {"build", "validate", "load", "frame", "free"}
                               \/ (Loaded /\ at \in {"init", "next", "close"})
                            THEN 1 ELSE 0
        /\ at = "case" \/ count.case <= 6

\* What has been built is the program of the case.
Built ==
    /\ at \in {"build", "validate", "load", "frame", "free"} => OfCase(build)
    /\ at \in {"validate", "load", "frame", "free"} => Finished(build)
    /\ \/ Loaded /\ at \in {"init", "next", "close"}
       \/ ~Loaded /\ at \in {"next", "close"} /\ count.i > 0
       \/ at = "sample" /\ count.sample > 0
       => OfCase(build) /\ Finished(build)
    /\ at = "case" /\ count.case = 7 =>
          build.shape = "INTERACTIVE" /\ build.n_node = NodeCap("INTERACTIVE", args.node_count)

\* A buffer of the kernel is empty, or has held this program already.
Rooms ==
    /\ owned.kernels = 1 /\ at # "exit" =>
          \A b \in ProgramBuffers \cup {"scene", "schild"} : Room(kernel, b, CaseNeed[b])
    /\ at = "frame" \/ (Loaded /\ at = "next") =>
          kernel.auth = Finish(build) /\ kernel.len["slot"] = CaseCap

\* How far the loops are.
Bounds ==
    /\ \/ at = "frame"
       \/ ~Loaded /\ owned.kernels = 1 /\ at \in {"make", "build", "validate", "load", "free"}
       => count.i < Limit
    /\ at = "next" => count.i <= Limit
    /\ at = "init" \/ (Loaded /\ at \in {"make", "build", "validate", "load"}) =>
          ~count.measured /\ count.i = 0
    /\ \/ at = "close"
       \/ ~Loaded /\ owned.kernels = 0 /\ at \in {"make", "build", "free"}
       \/ Loaded /\ at = "free"
       => count.measured /\ count.i = args.loops

\* The totals are those of the frames counted.
Totals ==
    InSample =>
        /\ ~count.measured => count.ops = 0 /\ count.events = 0
        /\ count.measured =>
              /\ count.events = IF bc.raw_mode = "RAW_CLICK" THEN Frames \div 2 ELSE 0
              /\ Frames = 0 => count.ops = 0
              /\ \A b : Complete(b) /\ OfCase(b) => count.ops = Frames * ViewCount(Finish(b))

\* Between the frames of a click its leaf is pressed.
Press ==
    InSample /\ owned.kernels = 1 /\ bc.raw_mode = "RAW_CLICK" /\ Frames % 2 = 1
    => kernel.pressed = TopLeaf(CaseCap)

\* The identities of a program that has been validated do not collide.
IdsOf(shape) == shape = "INTERACTIVE" => PairCount(NodeCap(shape, args.node_count)) <= LeafId - WrapperId

Works == Loaded \/ args.loops + args.warmup > 0

Vetted ==
    \/ Works /\ at = "sample" /\ count.sample > 0
    \/ at \in {"load", "frame"}
    \/ Loaded /\ at \in {"next", "close", "free"}
    \/ ~Loaded /\ InSample /\ (InRound \/ count.i > 0 \/ (count.measured /\ args.warmup > 0))

Identified ==
    /\ Vetted => IdsOf(bc.shape)
    /\ Works /\ at = "case" /\ count.case = 7 => IdsOf("INTERACTIVE")

\* Why the benchmark stopped.
Exits ==
    at = "exit" =>
        CASE code = 0 -> /\ count.case > Len(Cases)
                         /\ \A r \in DOMAIN owned : owned[r] = 0
                         /\ Works => IdsFit(build)
          [] code = 3 -> status = "DUPLICATE_ID" /\ ~IdsFit(build)
          [] code \in {4, 5, 6} -> AllocMayFail /\ status = "OOM"
          [] OTHER -> AllocMayFail /\ code \in {2, 111}

Places == {"case", "sample", "make", "build", "init", "validate", "load", "next",
           "frame", "close", "free", "exit"}

BenchTypes ==
    /\ args \in Arguments /\ at \in Places
    /\ count \in [case : 1 .. 7, sample : Nat, measured : BOOLEAN, i : Nat, ops : Nat, events : Nat]
    /\ owned \in [programs : {0, 1}, kernels : {0, 1}, arrays : {0, 1}]
    /\ BuildInv
    /\ IsKernel(kernel) /\ ~kernel.wild /\ (at # "exit" => ~kernel.torn)

BenchInv ==
    /\ BenchTypes /\ Holdings /\ Built /\ Rooms /\ Bounds /\ Totals /\ Press
    /\ Identified /\ Exits

\* A finished program draws some number of operations.
LEMMA DrawnTyped ==
    ASSUME NEW b, Complete(b)
    PROVE  ViewCount(Finish(b)) \in Nat
BY FinishedSizes, ViewCountTyped

\* What the builders leave as it is.
LEMMA StepKeeps ==
    ASSUME NEW b, Building(b)
    PROVE  BuildStep(b).shape = b.shape /\ BuildStep(b).n_node = b.n_node
<1>1. DOMAIN b = Keys
  BY DEF Building, Shaped
<1>2. /\ ChainStep(b).shape = b.shape /\ ChainStep(b).n_node = b.n_node
      /\ FlatStep(b).shape = b.shape /\ FlatStep(b).n_node = b.n_node
  BY <1>1 DEF ChainStep, FlatStep, Keys
<1>3. /\ BalancedStep(b).shape = b.shape /\ BalancedStep(b).n_node = b.n_node
      /\ InteractiveStep(b).shape = b.shape /\ InteractiveStep(b).n_node = b.n_node
  BY <1>1 DEF BalancedStep, InteractiveStep, Keys
<1> QED
  BY <1>2, <1>3 DEF BuildStep

\* There are six cases.
LEMMA CaseCount == Len(Cases) = 6
BY DEF Cases, Case

\* The six cases.
LEMMA CaseKinds ==
    ASSUME count.case \in 1 .. 6
    PROVE  /\ bc.shape \in {"CHAIN", "FLAT", "BALANCED", "INTERACTIVE"}
           /\ bc.raw_mode \in {"RAW_NONE", "RAW_MOVE", "RAW_CLICK"}
           /\ bc.raw_mode = "RAW_CLICK" => bc.shape = "INTERACTIVE"
           /\ count.case = 6 => bc.shape = "INTERACTIVE"
<1>1. \/ count.case = 1 \/ count.case = 2 \/ count.case = 3
      \/ count.case = 4 \/ count.case = 5 \/ count.case = 6
  OBVIOUS
<1> QED
  BY <1>1 DEF bc, Cases, Case

\* What the command line says.
LEMMA ArgumentKinds ==
    ASSUME BenchTypes
    PROVE  /\ args.node_count \in Sizes /\ args.node_count \in Nat
           /\ args.loops \in Nat /\ args.warmup \in Nat /\ args.samples \in Nat \ {0}
BY ArgumentsAssumption, BuilderAssumption DEF BenchTypes

\* A step within a case.
LEMMA SameCase ==
    ASSUME args' = args, count'.case = count.case
    PROVE  /\ bc' = bc /\ CaseCap' = CaseCap /\ CaseNeed' = CaseNeed
           /\ Loaded' = Loaded /\ Works' = Works /\ \A s : IdsOf(s)' = IdsOf(s)
<1>1. bc' = bc
  BY DEF bc
<1>2. CaseCap' = CaseCap
  BY <1>1 DEF CaseCap
<1>3. CaseNeed' = CaseNeed
  BY <1>1, <1>2 DEF CaseNeed
<1> QED
  BY <1>1, <1>2, <1>3 DEF Loaded, Works, IdsOf

\* What make_program starts from.
LEMMA MadeOfCase ==
    ASSUME BenchTypes, count.case <= 6, build' = StartBuild(bc.shape, args.node_count)
    PROVE  Building(build') /\ OfCase(build')
<1>1. 7 * (args.node_count + 3) < U32 /\ args.node_count \in Nat
  BY ArgumentKinds, SizesFit
<1>2. bc.shape \in {"CHAIN", "FLAT", "BALANCED", "INTERACTIVE"}
  BY CaseKinds DEF BenchTypes
<1> QED
  BY <1>1, <1>2, StartInv DEF OfCase, CaseCap

\* The collision of identities, said of the case.
LEMMA IdsMatch ==
    ASSUME NEW b, OfCase(b)
    PROVE  IdsFit(b) <=> IdsOf(bc.shape)
BY DEF IdsFit, IdsOf, OfCase, CaseCap, Rounds

\* What a case needs is what its programs need.
LEMMA NeedOfCase ==
    ASSUME NEW b, Complete(b), OfCase(b)
    PROVE  Needed(Finish(b)) = CaseNeed
<1> DEFINE p == Finish(b)
<1>1. p.n_node = CaseCap /\ p.n_child = CaseCap - 1 /\ p.n_token = TokenCap(bc.shape, CaseCap)
  BY FinishedSizes DEF OfCase
<1> HIDE DEF p
<1> QED
  BY <1>1 DEF Needed, CaseNeed, p

\* The load of a sample.
LEMMA LoadOutcome ==
    ASSUME BenchInv, at = "load", NEW o \in LoadProgram(kernel, Finish(build))
    PROVE  LET k == o.kernel
           IN  /\ o.status = "OK" \/ (o.status = "OOM" /\ AllocMayFail)
               /\ ~k.wild /\ IsKernel(k) /\ k.pressed = kernel.pressed
               /\ o.status = "OK" =>
                     /\ ~k.torn /\ k.auth = Finish(build) /\ k.len["slot"] = CaseCap
                     /\ \A b \in ProgramBuffers \cup {"scene", "schild"} : Room(k, b, CaseNeed[b])
<1> DEFINE p == Finish(build)
<1>1. Complete(build) /\ OfCase(build) /\ Sound(kernel) /\ IdsOf(bc.shape) /\ owned.kernels = 1
  BY DEF BenchInv, BenchTypes, BuildInv, Complete, Built, Identified, Vetted, Sound, Holdings
<1>2. \A b \in ProgramBuffers \cup {"scene", "schild"} : Room(kernel, b, CaseNeed[b])
  BY <1>1 DEF BenchInv, Rooms
<1>3. /\ IsProgram(p) /\ p.n_node = CaseCap /\ p.n_node \in Nat \ {0} /\ p.nodes = build.nodes
      /\ build.n_node = CaseCap
  BY <1>1, FinishedSizes DEF OfCase
<1>4. p.nodes[0].kind # "EMPTY"
  <2>1. 0 \in 0 .. build.n_node - 1
    BY <1>3
  <2> QED
    BY <1>1, <1>3, <2>1, RowFacts
<1>5. p.root_index = 0
  BY DEF Finish, MakeProgram
<1>6. ValidateProgram(p) = "OK"
  BY <1>1, IdsMatch, CompleteIsTree
<1>7. Needed(p) = CaseNeed
  BY <1>1, NeedOfCase
<1> HIDE DEF p
<1>8. /\ o.status = "OK" \/ (o.status = "OOM" /\ AllocMayFail)
      /\ ~o.kernel.wild /\ IsKernel(o.kernel)
      /\ \A b \in {"scene", "schild"} :
            o.kernel.len[b] = kernel.len[b] /\ o.kernel.cap[b] = kernel.cap[b]
      /\ o.kernel.pressed = kernel.pressed
      /\ o.status = "OK" => LoadDone(kernel, p, o)
  <2>1. o \in LoadProgram(kernel, p)
    BY DEF p
  <2>2. \A b \in ProgramBuffers : Room(kernel, b, Needed(p)[b])
    BY <1>2, <1>7
  <2> QED
    BY <1>1, <1>3, <1>4, <1>5, <1>6, <2>1, <2>2, LoadSafe
<1>9. ASSUME o.status = "OK"
      PROVE  /\ ~o.kernel.torn /\ o.kernel.auth = p /\ o.kernel.len["slot"] = CaseCap
             /\ \A b \in ProgramBuffers \cup {"scene", "schild"} : Room(o.kernel, b, CaseNeed[b])
  BY <1>2, <1>3, <1>7, <1>8, <1>9 DEF LoadDone, Sound, Room
<1> QED
  BY <1>8, <1>9 DEF p

\* The frame of a sample.
Clicks == bc.raw_mode = "RAW_CLICK"

LEMMA FrameOutcome ==
    ASSUME BenchInv, at = "frame", NEW o \in Frame(kernel, 1, RawInput(count.i))
    PROVE  LET k == o.kernel
           IN  /\ o.status = "OK" \/ (o.status = "OOM" /\ AllocMayFail)
               /\ ~k.wild /\ IsKernel(k)
               /\ o.status = "OK" =>
                     /\ ~k.torn /\ k.auth = Finish(build) /\ k.len["slot"] = CaseCap
                     /\ \A b \in ProgramBuffers \cup {"scene", "schild"} : Room(k, b, CaseNeed[b])
                     /\ k.len["view"] = ViewCount(Finish(build))
                     /\ k.len["event"] = IF Clicks /\ count.i % 2 = 1 THEN 1 ELSE 0
                     /\ Clicks /\ count.i % 2 = 0 => k.pressed = TopLeaf(CaseCap)
<1> DEFINE p == Finish(build)
           raw == RawInput(count.i)
           hover == HoverOf(kernel.auth)
           k == o.kernel
<1>1. /\ Complete(build) /\ OfCase(build) /\ Sound(kernel) /\ kernel.auth = p
      /\ kernel.len["slot"] = CaseCap /\ owned.kernels = 1 /\ count.i \in Nat
      /\ count.case \in 1 .. 6
  BY DEF BenchInv, BenchTypes, BuildInv, Complete, Built, Rooms, Sound, Holdings
<1>2. \A b \in ProgramBuffers \cup {"scene", "schild"} : Room(kernel, b, CaseNeed[b])
  BY <1>1 DEF BenchInv, Rooms
<1>3. /\ IsProgram(p) /\ p.n_node = CaseCap /\ p.n_node \in Nat \ {0} /\ p.nodes = build.nodes
      /\ p.n_child = CaseCap - 1 /\ build.n_node = CaseCap /\ build.shape = bc.shape
  BY <1>1, FinishedSizes DEF OfCase
<1>4. CaseNeed["scene"] = p.n_node /\ CaseNeed["schild"] = p.n_child
  BY <1>3 DEF CaseNeed, Buffers
<1>5. Framable(kernel)
  <2>1. \A i \in 0 .. p.n_node - 1 : p.nodes[i].kind # "EMPTY"
    BY <1>1, <1>3, RowFacts
  <2> HIDE DEF p
  <2> QED
    BY <1>1, <1>2, <1>3, <1>4, <2>1 DEF Framable
<1>6. Clicks => hover = TopLeaf(CaseCap) /\ hover # 0
  <2>1. ASSUME Clicks PROVE hover = TopLeaf(CaseCap)
    BY <1>1, <1>3, <2>1, CaseKinds, HoverIsTopLeaf DEF Clicks
  <2>2. ASSUME Clicks PROVE TopLeaf(CaseCap) # 0
    <3>1. build.shape = "INTERACTIVE"
      BY <1>1, <1>3, <2>2, CaseKinds DEF Clicks
    <3>2. CaseCap >= 3 /\ CaseCap \in Nat
      BY <1>1, <1>3, <3>1 DEF Complete, Building, Shaped
    <3> HIDE DEF p
    <3> QED
      BY <3>2, BuilderAssumption DEF TopLeaf, PairCount
  <2> QED
    BY <2>1, <2>2
<1>7. /\ raw \in PointerRaws
      /\ Clicks /\ count.i % 2 = 0 => raw = "POINTER_PRESSED"
      /\ Clicks /\ count.i % 2 = 1 => raw = "POINTER_RELEASED"
      /\ ~Clicks => raw \in {"NONE", "POINTER_MOVED"}
  <2>1. count.i % 2 = 0 \/ count.i % 2 = 1
    BY <1>1
  <2> QED
    BY <1>1, <2>1, CaseKinds DEF RawInput, PointerRaws, Clicks
<1>8. Clicks /\ count.i % 2 = 1 => kernel.pressed = TopLeaf(CaseCap)
  BY <1>1 DEF BenchInv, Press, InSample, Frames, InRound, Clicks
<1> HIDE DEF p, raw, k
<1>9. /\ o.status = "OK" \/ (o.status = "OOM" /\ AllocMayFail)
      /\ ~k.wild /\ IsKernel(k)
      /\ o.status = "OK" => FrameRan(kernel, o, raw)
  BY <1>1, <1>5, <1>7, FrameSafe DEF raw, k
<1>10. ASSUME o.status = "OK"
       PROVE  /\ ~k.torn /\ k.auth = p /\ k.len["slot"] = CaseCap
              /\ \A b \in ProgramBuffers \cup {"scene", "schild"} : Room(k, b, CaseNeed[b])
              /\ k.len["view"] = ViewCount(p)
              /\ k.len["event"] = IF Clicks /\ count.i % 2 = 1 THEN 1 ELSE 0
              /\ Clicks /\ count.i % 2 = 0 => k.pressed = TopLeaf(CaseCap)
  <2>1. /\ Sound(k) /\ k.auth = p /\ k.len["view"] = ViewCount(p)
        /\ k.len["event"] = IF Activates(kernel, hover, raw) THEN 1 ELSE 0
        /\ k.pressed = Pressed(kernel, hover, raw)
        /\ k.cap["scene"] >= p.n_node /\ k.cap["schild"] >= p.n_child
        /\ \A b \in ProgramBuffers : k.len[b] = kernel.len[b] /\ k.cap[b] = kernel.cap[b]
    BY <1>1, <1>9, <1>10 DEF FrameRan, k
  <2> HIDE DEF hover
  <2>2. Activates(kernel, hover, raw) <=> Clicks /\ count.i % 2 = 1
    BY <1>1, <1>6, <1>7, <1>8 DEF Activates
  <2>3. Clicks /\ count.i % 2 = 0 => k.pressed = TopLeaf(CaseCap)
    BY <1>6, <1>7, <2>1 DEF Pressed
  <2>4. k.len["slot"] = CaseCap
    BY <1>1, <2>1 DEF ProgramBuffers
  <2>5. \A b \in ProgramBuffers \cup {"scene", "schild"} : Room(k, b, CaseNeed[b])
    BY <1>2, <1>4, <2>1 DEF Room
  <2> QED
    BY <2>1, <2>2, <2>3, <2>4, <2>5 DEF Sound
<1> QED
  BY <1>9, <1>10 DEF p, k

\* run_case allocates its arrays.
LEMMA CaseStarts ==
    ASSUME BenchInv, StartCase
    PROVE  BenchInv'
<1> USE DEF BenchInv, StartCase, OutOfMemory, Exit
<1>1. /\ args' = args /\ count'.case = count.case
      /\ args.loops \in Nat /\ args.warmup \in Nat /\ args.samples \in Nat \ {0}
  BY ArgumentKinds DEF BenchTypes
<1>2. /\ bc' = bc /\ CaseCap' = CaseCap /\ CaseNeed' = CaseNeed
      /\ Loaded' = Loaded /\ Works' = Works /\ \A s : IdsOf(s)' = IdsOf(s)
  BY <1>1, SameCase
<1>3. count.case <= 6
  BY CaseCount
<1>4. BenchTypes'
  BY <1>1, <1>2, <1>3 DEF BenchTypes, Places, BuildInv, Holdings
<1>5. Holdings'
  BY <1>1, <1>2, <1>3 DEF BenchTypes, Holdings
<1>6. Built'
  BY <1>1, <1>2, <1>3 DEF BenchTypes, Built, OfCase
<1>7. Rooms'
  BY <1>1, <1>2, <1>3 DEF BenchTypes, Rooms
<1>8. Bounds'
  BY <1>1, <1>2, <1>3 DEF BenchTypes, Bounds, Limit
<1>9. Totals'
  BY <1>1, <1>2, <1>3 DEF BenchTypes, Totals, InSample, Frames, InRound, OfCase
<1>10. Press'
  BY <1>1, <1>2, <1>3 DEF BenchTypes, Press, InSample, Frames, InRound
<1>11. Identified'
  BY <1>1, <1>2, <1>3 DEF BenchTypes, Identified, Vetted, InSample, InRound
<1>12. Exits'
  BY <1>1, <1>2, <1>3 DEF BenchTypes, Exits
<1> QED
  BY <1>4, <1>5, <1>6, <1>7, <1>8, <1>9, <1>10, <1>11, <1>12

\* main returns after the last case.
LEMMA MainEnds ==
    ASSUME BenchInv, MainReturns
    PROVE  BenchInv'
<1> USE DEF BenchInv, MainReturns, Exit
<1>1. /\ args' = args /\ count'.case = count.case
      /\ args.loops \in Nat /\ args.warmup \in Nat /\ args.samples \in Nat \ {0}
  BY ArgumentKinds DEF BenchTypes
<1>2. /\ bc' = bc /\ CaseCap' = CaseCap /\ CaseNeed' = CaseNeed
      /\ Loaded' = Loaded /\ Works' = Works /\ \A s : IdsOf(s)' = IdsOf(s)
  BY <1>1, SameCase
<1>3. BenchTypes'
  BY <1>1, <1>2 DEF BenchTypes, Places, BuildInv
<1>4. Holdings'
  BY <1>1, <1>2 DEF BenchTypes, Holdings
<1>5. Built'
  BY <1>1, <1>2 DEF BenchTypes, Built, OfCase
<1>6. Rooms'
  BY <1>1, <1>2 DEF BenchTypes, Rooms
<1>7. Bounds'
  BY <1>1, <1>2 DEF BenchTypes, Bounds, Limit
<1>8. Totals'
  BY <1>1, <1>2 DEF BenchTypes, Totals, InSample, Frames, InRound, OfCase
<1>9. Press'
  BY <1>1, <1>2 DEF BenchTypes, Press, InSample, Frames, InRound
<1>10. Identified'
  BY <1>1, <1>2 DEF BenchTypes, Identified, Vetted, InSample, InRound
<1>11. Exits'
  <2>1. count.case = 7 /\ count'.case > Len(Cases) /\ code' = 0
    BY <1>1, CaseCount DEF BenchTypes
  <2>2. \A r \in DOMAIN owned' : owned'[r] = 0
    <3>1. owned' = owned /\ DOMAIN owned = {"programs", "kernels", "arrays"}
      BY DEF BenchTypes
    <3>2. owned.programs = 0 /\ owned.kernels = 0 /\ owned.arrays = 0
      BY DEF Holdings
    <3> QED
      BY <3>1, <3>2
  <2>3. Works' => IdsFit(build')
    BY <1>1, <1>2, <2>1 DEF Built, Identified, IdsOf, IdsFit, Rounds
  <2> QED
    BY <2>1, <2>2, <2>3 DEF Exits
<1> QED
  BY <1>3, <1>4, <1>5, <1>6, <1>7, <1>8, <1>9, <1>10, <1>11

\* A case ends when its samples have been taken.
LEMMA CaseEnds ==
    ASSUME BenchInv, FinishCase
    PROVE  BenchInv'
<1> USE DEF BenchInv, FinishCase
<1>1. /\ args' = args /\ Loaded' = Loaded /\ Works' = Works /\ args.samples \in Nat \ {0}
      /\ \A s : IdsOf(s)' = IdsOf(s)
  BY ArgumentKinds DEF BenchTypes, Loaded, Works, IdsOf
<1>2. /\ count.case \in 1 .. 6 /\ count.sample > 0 /\ count'.case = count.case + 1
      /\ count'.case = 7 => bc.shape = "INTERACTIVE"
  BY <1>1, CaseKinds DEF BenchTypes, Holdings
<1>3. BenchTypes'
  BY <1>1, <1>2 DEF BenchTypes, Places, BuildInv, Holdings
<1>4. Holdings'
  BY <1>1, <1>2 DEF BenchTypes, Holdings
<1>5. Built'
  BY <1>1, <1>2 DEF BenchTypes, Built, OfCase, CaseCap
<1>6. Rooms'
  BY <1>1, <1>2 DEF BenchTypes, Rooms, Holdings
<1>7. Bounds'
  BY <1>1, <1>2 DEF BenchTypes, Bounds, Limit
<1>8. Totals'
  BY <1>1, <1>2 DEF BenchTypes, Totals, InSample, Frames, InRound, OfCase
<1>9. Press'
  BY <1>1, <1>2 DEF BenchTypes, Press, InSample, Frames, InRound
<1>10. Identified'
  BY <1>1, <1>2 DEF BenchTypes, Identified, Vetted, InSample, InRound
<1>11. Exits'
  BY <1>1, <1>2 DEF BenchTypes, Exits
<1> QED
  BY <1>3, <1>4, <1>5, <1>6, <1>7, <1>8, <1>9, <1>10, <1>11

\* A sample clears its counters.
LEMMA SampleStarts ==
    ASSUME BenchInv, StartSample
    PROVE  BenchInv'
<1> USE DEF BenchInv, StartSample
<1>1. /\ args' = args /\ count'.case = count.case
      /\ args.loops \in Nat /\ args.warmup \in Nat /\ args.samples \in Nat \ {0}
  BY ArgumentKinds DEF BenchTypes
<1>2. /\ bc' = bc /\ CaseCap' = CaseCap /\ CaseNeed' = CaseNeed
      /\ Loaded' = Loaded /\ Works' = Works /\ \A s : IdsOf(s)' = IdsOf(s)
  BY <1>1, SameCase
<1>3. BenchTypes'
  BY <1>1, <1>2 DEF BenchTypes, Places, BuildInv
<1>4. Holdings'
  BY <1>1, <1>2 DEF BenchTypes, Holdings
<1>5. Built'
  BY <1>1, <1>2 DEF BenchTypes, Built, OfCase
<1>6. Rooms'
  BY <1>1, <1>2 DEF BenchTypes, Rooms
<1>7. Bounds'
  BY <1>1, <1>2 DEF BenchTypes, Bounds, Limit
<1>8. Totals'
  BY <1>1, <1>2 DEF BenchTypes, Totals, InSample, Frames, InRound, OfCase
<1>9. Press'
  BY <1>1, <1>2 DEF BenchTypes, Press, InSample, Frames, InRound
<1>10. Identified'
  BY <1>1, <1>2 DEF BenchTypes, Identified, Vetted, InSample, InRound
<1>11. Exits'
  BY <1>1, <1>2 DEF BenchTypes, Exits
<1> QED
  BY <1>3, <1>4, <1>5, <1>6, <1>7, <1>8, <1>9, <1>10, <1>11

\* make_program begins.
LEMMA ProgramMade ==
    ASSUME BenchInv, Make
    PROVE  BenchInv'
<1> USE DEF BenchInv, Make, OutOfMemory, Exit
<1>1. /\ args' = args /\ count'.case = count.case
      /\ args.loops \in Nat /\ args.warmup \in Nat /\ args.samples \in Nat \ {0}
  BY ArgumentKinds DEF BenchTypes
<1>2. /\ bc' = bc /\ CaseCap' = CaseCap /\ CaseNeed' = CaseNeed
      /\ Loaded' = Loaded /\ Works' = Works /\ \A s : IdsOf(s)' = IdsOf(s)
  BY <1>1, SameCase
<1>3. count.case <= 6 /\ (at' = "build" => Building(build') /\ OfCase(build'))
  BY MadeOfCase DEF Holdings
<1>4. BenchTypes'
  BY <1>1, <1>2, <1>3 DEF BenchTypes, Places, BuildInv, Holdings
<1>5. Holdings'
  BY <1>1, <1>2, <1>3 DEF BenchTypes, Holdings
<1>6. Built'
  BY <1>1, <1>2, <1>3 DEF BenchTypes, Built, OfCase
<1>7. Rooms'
  BY <1>1, <1>2, <1>3 DEF BenchTypes, Rooms
<1>8. Bounds'
  BY <1>1, <1>2, <1>3 DEF BenchTypes, Bounds, Limit
<1>9. Totals'
  BY <1>1, <1>2, <1>3 DEF BenchTypes, Totals, InSample, Frames, InRound, OfCase
<1>10. Press'
  BY <1>1, <1>2, <1>3 DEF BenchTypes, Press, InSample, Frames, InRound
<1>11. Identified'
  BY <1>1, <1>2, <1>3 DEF BenchTypes, Identified, Vetted, InSample, InRound
<1>12. Exits'
  BY <1>1, <1>2, <1>3 DEF BenchTypes, Exits
<1> QED
  BY <1>4, <1>5, <1>6, <1>7, <1>8, <1>9, <1>10, <1>11, <1>12

\* One round of a builder.
LEMMA RoundBuilt ==
    ASSUME BenchInv, Build
    PROVE  BenchInv'
<1> USE DEF BenchInv, Build
<1>1. /\ args' = args /\ count'.case = count.case
      /\ args.loops \in Nat /\ args.warmup \in Nat /\ args.samples \in Nat \ {0}
  BY ArgumentKinds DEF BenchTypes
<1>2. /\ bc' = bc /\ CaseCap' = CaseCap /\ CaseNeed' = CaseNeed
      /\ Loaded' = Loaded /\ Works' = Works /\ \A s : IdsOf(s)' = IdsOf(s)
  BY <1>1, SameCase
<1>3. Building(build') /\ OfCase(build')
  <2>1. BuildInv /\ BuildNext
    BY DEF BenchTypes
  <2>2. BuildInv'
    BY <2>1, BuildStepInv
  <2>3. build'.shape = build.shape /\ build'.n_node = build.n_node
    BY <2>1, StepKeeps DEF BuildInv, BuildNext
  <2> QED
    BY <1>2, <2>2, <2>3 DEF BuildInv, Built, OfCase
<1>4. BenchTypes'
  BY <1>1, <1>2, <1>3 DEF BenchTypes, Places, BuildInv
<1>5. Holdings'
  BY <1>1, <1>2, <1>3 DEF BenchTypes, Holdings
<1>6. Built'
  BY <1>1, <1>2, <1>3 DEF BenchTypes, Built, OfCase
<1>7. Rooms'
  BY <1>1, <1>2, <1>3 DEF BenchTypes, Rooms
<1>8. Bounds'
  BY <1>1, <1>2, <1>3 DEF BenchTypes, Bounds, Limit
<1>9. Totals'
  BY <1>1, <1>2, <1>3 DEF BenchTypes, Totals, InSample, Frames, InRound, OfCase
<1>10. Press'
  BY <1>1, <1>2, <1>3 DEF BenchTypes, Press, InSample, Frames, InRound
<1>11. Identified'
  BY <1>1, <1>2, <1>3 DEF BenchTypes, Identified, Vetted, InSample, InRound
<1>12. Exits'
  BY <1>1, <1>2, <1>3 DEF BenchTypes, Exits
<1> QED
  BY <1>4, <1>5, <1>6, <1>7, <1>8, <1>9, <1>10, <1>11, <1>12

\* make_program ends.
LEMMA ProgramFinished ==
    ASSUME BenchInv, FinishProgram
    PROVE  BenchInv'
<1> USE DEF BenchInv, FinishProgram
<1>1. /\ args' = args /\ count'.case = count.case
      /\ args.loops \in Nat /\ args.warmup \in Nat /\ args.samples \in Nat \ {0}
  BY ArgumentKinds DEF BenchTypes
<1>2. /\ bc' = bc /\ CaseCap' = CaseCap /\ CaseNeed' = CaseNeed
      /\ Loaded' = Loaded /\ Works' = Works /\ \A s : IdsOf(s)' = IdsOf(s)
  BY <1>1, SameCase
<1>3. BenchTypes'
  BY <1>1, <1>2 DEF BenchTypes, Places, BuildInv
<1>4. Holdings'
  BY <1>1, <1>2 DEF BenchTypes, Holdings
<1>5. Built'
  BY <1>1, <1>2 DEF BenchTypes, Built, OfCase
<1>6. Rooms'
  BY <1>1, <1>2 DEF BenchTypes, Rooms
<1>7. Bounds'
  BY <1>1, <1>2 DEF BenchTypes, Bounds, Limit, Holdings
<1>8. Totals'
  BY <1>1, <1>2 DEF BenchTypes, Totals, InSample, Frames, InRound, OfCase
<1>9. Press'
  BY <1>1, <1>2 DEF BenchTypes, Press, InSample, Frames, InRound
<1>10. Identified'
  BY <1>1, <1>2 DEF BenchTypes, Identified, Vetted, InSample, InRound
<1>11. Exits'
  BY <1>1, <1>2 DEF BenchTypes, Exits
<1> QED
  BY <1>3, <1>4, <1>5, <1>6, <1>7, <1>8, <1>9, <1>10, <1>11

\* mlui_kernel_init.
LEMMA KernelMade ==
    ASSUME BenchInv, InitKernel
    PROVE  BenchInv'
<1> USE DEF BenchInv, InitKernel, OutOfMemory, Exit
<1>1. /\ args' = args /\ count'.case = count.case
      /\ args.loops \in Nat /\ args.warmup \in Nat /\ args.samples \in Nat \ {0}
  BY ArgumentKinds DEF BenchTypes
<1>2. /\ bc' = bc /\ CaseCap' = CaseCap /\ CaseNeed' = CaseNeed
      /\ Loaded' = Loaded /\ Works' = Works /\ \A s : IdsOf(s)' = IdsOf(s)
  BY <1>1, SameCase
<1>3. /\ IsKernel(NewKernel) /\ ~NewKernel.torn /\ ~NewKernel.wild
      /\ \A b \in ProgramBuffers \cup {"scene", "schild"} : Room(NewKernel, b, CaseNeed[b])
  BY FreshKernel DEF Sound, Room, ProgramBuffers, Buffers
<1>4. ~count.measured /\ count.i = 0 /\ count.case <= 6 /\ (Loaded => OfCase(build) /\ Finished(build))
  BY DEF Bounds, Holdings, Built
<1>5. BenchTypes'
  BY <1>1, <1>2, <1>3, <1>4 DEF BenchTypes, Places, BuildInv, Holdings
<1>6. Holdings'
  BY <1>1, <1>2, <1>3, <1>4 DEF BenchTypes, Holdings
<1>7. Built'
  BY <1>1, <1>2, <1>3, <1>4 DEF BenchTypes, Built, OfCase
<1>8. Rooms'
  BY <1>1, <1>2, <1>3, <1>4 DEF BenchTypes, Rooms
<1>9. Bounds'
  BY <1>1, <1>2, <1>3, <1>4 DEF BenchTypes, Bounds, Limit
<1>10. Totals'
  BY <1>1, <1>2, <1>3, <1>4 DEF BenchTypes, Totals, InSample, Frames, InRound, OfCase
<1>11. Press'
  BY <1>1, <1>2, <1>3, <1>4 DEF BenchTypes, Press, InSample, Frames, InRound
<1>12. Identified'
  BY <1>1, <1>2, <1>3, <1>4 DEF BenchTypes, Identified, Vetted, InSample, InRound
<1>13. Exits'
  BY <1>1, <1>2, <1>3, <1>4 DEF BenchTypes, Exits
<1> QED
  BY <1>5, <1>6, <1>7, <1>8, <1>9, <1>10, <1>11, <1>12, <1>13

\* mlui_program_validate.
LEMMA ProgramValidated ==
    ASSUME BenchInv, Validate
    PROVE  BenchInv'
<1> USE DEF BenchInv, Validate, Exit
<1>1. /\ args' = args /\ count'.case = count.case
      /\ args.loops \in Nat /\ args.warmup \in Nat /\ args.samples \in Nat \ {0}
  BY ArgumentKinds DEF BenchTypes
<1>2. /\ bc' = bc /\ CaseCap' = CaseCap /\ CaseNeed' = CaseNeed
      /\ Loaded' = Loaded /\ Works' = Works /\ \A s : IdsOf(s)' = IdsOf(s)
  BY <1>1, SameCase
<1>3. /\ OfCase(build) /\ Finished(build)
      /\ status' \in {"OK", "DUPLICATE_ID"} /\ (status' = "OK" <=> IdsFit(build))
  BY CompleteIsTree DEF Built, BenchTypes, BuildInv, Complete
<1>4. IdsFit(build) <=> IdsOf(bc.shape)
  BY <1>3, IdsMatch
<1>5. BenchTypes'
  BY <1>1, <1>2, <1>3, <1>4 DEF BenchTypes, Places, BuildInv
<1>6. Holdings'
  BY <1>1, <1>2, <1>3, <1>4 DEF BenchTypes, Holdings
<1>7. Built'
  BY <1>1, <1>2, <1>3, <1>4 DEF BenchTypes, Built, OfCase
<1>8. Rooms'
  BY <1>1, <1>2, <1>3, <1>4 DEF BenchTypes, Rooms
<1>9. Bounds'
  BY <1>1, <1>2, <1>3, <1>4 DEF BenchTypes, Bounds, Limit
<1>10. Totals'
  BY <1>1, <1>2, <1>3, <1>4 DEF BenchTypes, Totals, InSample, Frames, InRound, OfCase
<1>11. Press'
  BY <1>1, <1>2, <1>3, <1>4 DEF BenchTypes, Press, InSample, Frames, InRound
<1>12. Identified'
  BY <1>1, <1>2, <1>3, <1>4 DEF BenchTypes, Identified, Vetted, InSample, InRound
<1>13. Exits'
  BY <1>1, <1>2, <1>3, <1>4 DEF BenchTypes, Exits
<1> QED
  BY <1>5, <1>6, <1>7, <1>8, <1>9, <1>10, <1>11, <1>12, <1>13

\* mlui_load_program.
LEMMA ProgramLoaded ==
    ASSUME BenchInv, Load
    PROVE  BenchInv'
<1> USE DEF BenchInv, Load, Exit
<1>1. /\ args' = args /\ count'.case = count.case
      /\ args.loops \in Nat /\ args.warmup \in Nat /\ args.samples \in Nat \ {0}
  BY ArgumentKinds DEF BenchTypes
<1>2. /\ bc' = bc /\ CaseCap' = CaseCap /\ CaseNeed' = CaseNeed
      /\ Loaded' = Loaded /\ Works' = Works /\ \A s : IdsOf(s)' = IdsOf(s)
  BY <1>1, SameCase
<1>3. PICK o \in LoadProgram(kernel, Finish(build)) :
        /\ kernel' = o.kernel /\ status' = o.status
        /\ IF o.status = "OK"
           THEN /\ at' = IF Loaded THEN "next" ELSE "frame"
                /\ UNCHANGED <<build, args, count, owned, code>>
           ELSE at' = "exit" /\ code' = 4 /\ UNCHANGED <<build, args, count, owned>>
  OBVIOUS
<1>4. /\ o.status = "OK" \/ (o.status = "OOM" /\ AllocMayFail)
      /\ ~kernel'.wild /\ IsKernel(kernel') /\ kernel'.pressed = kernel.pressed
      /\ o.status = "OK" =>
            /\ ~kernel'.torn /\ kernel'.auth = Finish(build) /\ kernel'.len["slot"] = CaseCap
            /\ \A b \in ProgramBuffers \cup {"scene", "schild"} : Room(kernel', b, CaseNeed[b])
  BY <1>3, LoadOutcome
<1>5. BenchTypes'
  BY <1>1, <1>2, <1>3, <1>4 DEF BenchTypes, Places, BuildInv
<1>6. Holdings'
  BY <1>1, <1>2, <1>3, <1>4 DEF BenchTypes, Holdings
<1>7. Built'
  BY <1>1, <1>2, <1>3, <1>4 DEF BenchTypes, Built, OfCase
<1>8. Rooms'
  BY <1>1, <1>2, <1>3, <1>4 DEF BenchTypes, Rooms
<1>9. Bounds'
  BY <1>1, <1>2, <1>3, <1>4 DEF BenchTypes, Bounds, Limit, Holdings
<1>10. Totals'
  BY <1>1, <1>2, <1>3, <1>4 DEF BenchTypes, Totals, InSample, Frames, InRound, OfCase
<1>11. Press'
  BY <1>1, <1>2, <1>3, <1>4 DEF BenchTypes, Press, InSample, Frames, InRound
<1>12. Identified'
  BY <1>1, <1>2, <1>3, <1>4 DEF BenchTypes, Identified, Vetted, InSample, InRound
<1>13. Exits'
  BY <1>1, <1>2, <1>3, <1>4 DEF BenchTypes, Exits
<1> QED
  BY <1>5, <1>6, <1>7, <1>8, <1>9, <1>10, <1>11, <1>12, <1>13

\* The loops go on.
LEMMA RoundStarts ==
    ASSUME BenchInv, NextRound
    PROVE  BenchInv'
<1> USE DEF BenchInv, NextRound
<1>1. /\ args' = args /\ count'.case = count.case
      /\ args.loops \in Nat /\ args.warmup \in Nat /\ args.samples \in Nat \ {0}
  BY ArgumentKinds DEF BenchTypes
<1>2. /\ bc' = bc /\ CaseCap' = CaseCap /\ CaseNeed' = CaseNeed
      /\ Loaded' = Loaded /\ Works' = Works /\ \A s : IdsOf(s)' = IdsOf(s)
  BY <1>1, SameCase
<1>3. BenchTypes'
  BY <1>1, <1>2 DEF BenchTypes, Places, BuildInv
<1>4. Holdings'
  BY <1>1, <1>2 DEF BenchTypes, Holdings
<1>5. Built'
  BY <1>1, <1>2 DEF BenchTypes, Built, OfCase
<1>6. Rooms'
  BY <1>1, <1>2 DEF BenchTypes, Rooms
<1>7. Bounds'
  BY <1>1, <1>2 DEF BenchTypes, Bounds, Limit, Holdings
<1>8. Totals'
  BY <1>1, <1>2 DEF BenchTypes, Totals, InSample, Frames, InRound, OfCase
<1>9. Press'
  BY <1>1, <1>2 DEF BenchTypes, Press, InSample, Frames, InRound
<1>10. Identified'
  BY <1>1, <1>2 DEF BenchTypes, Identified, Vetted, InSample, InRound
<1>11. Exits'
  BY <1>1, <1>2 DEF BenchTypes, Exits
<1> QED
  BY <1>3, <1>4, <1>5, <1>6, <1>7, <1>8, <1>9, <1>10, <1>11

\* The measured loop begins.
LEMMA WarmupEnds ==
    ASSUME BenchInv, Measure
    PROVE  BenchInv'
<1> USE DEF BenchInv, Measure
<1>1. /\ args' = args /\ count'.case = count.case
      /\ args.loops \in Nat /\ args.warmup \in Nat /\ args.samples \in Nat \ {0}
  BY ArgumentKinds DEF BenchTypes
<1>2. /\ bc' = bc /\ CaseCap' = CaseCap /\ CaseNeed' = CaseNeed
      /\ Loaded' = Loaded /\ Works' = Works /\ \A s : IdsOf(s)' = IdsOf(s)
  BY <1>1, SameCase
<1>3. BenchTypes'
  BY <1>1, <1>2 DEF BenchTypes, Places, BuildInv
<1>4. Holdings'
  BY <1>1, <1>2 DEF BenchTypes, Holdings
<1>5. Built'
  BY <1>1, <1>2 DEF BenchTypes, Built, OfCase
<1>6. Rooms'
  BY <1>1, <1>2 DEF BenchTypes, Rooms
<1>7. Bounds'
  BY <1>1, <1>2 DEF BenchTypes, Bounds, Limit
<1>8. Totals'
  BY <1>1, <1>2, DrawnTyped DEF BenchTypes, Totals, InSample, Frames, InRound, OfCase
<1>9. Press'
  BY <1>1, <1>2 DEF BenchTypes, Press, InSample, Frames, InRound
<1>10. Identified'
  BY <1>1, <1>2 DEF BenchTypes, Identified, Vetted, InSample, InRound
<1>11. Exits'
  BY <1>1, <1>2 DEF BenchTypes, Exits
<1> QED
  BY <1>3, <1>4, <1>5, <1>6, <1>7, <1>8, <1>9, <1>10, <1>11

\* The measured loop ends.
LEMMA LoopsEnd ==
    ASSUME BenchInv, EndLoops
    PROVE  BenchInv'
<1> USE DEF BenchInv, EndLoops
<1>1. /\ args' = args /\ count'.case = count.case
      /\ args.loops \in Nat /\ args.warmup \in Nat /\ args.samples \in Nat \ {0}
  BY ArgumentKinds DEF BenchTypes
<1>2. /\ bc' = bc /\ CaseCap' = CaseCap /\ CaseNeed' = CaseNeed
      /\ Loaded' = Loaded /\ Works' = Works /\ \A s : IdsOf(s)' = IdsOf(s)
  BY <1>1, SameCase
<1>3. BenchTypes'
  BY <1>1, <1>2 DEF BenchTypes, Places, BuildInv
<1>4. Holdings'
  BY <1>1, <1>2 DEF BenchTypes, Holdings
<1>5. Built'
  BY <1>1, <1>2 DEF BenchTypes, Built, OfCase
<1>6. Rooms'
  BY <1>1, <1>2 DEF BenchTypes, Rooms
<1>7. Bounds'
  BY <1>1, <1>2 DEF BenchTypes, Bounds, Limit
<1>8. Totals'
  BY <1>1, <1>2 DEF BenchTypes, Totals, InSample, Frames, InRound, OfCase
<1>9. Press'
  BY <1>1, <1>2 DEF BenchTypes, Press, InSample, Frames, InRound
<1>10. Identified'
  BY <1>1, <1>2 DEF BenchTypes, Identified, Vetted, InSample, InRound
<1>11. Exits'
  BY <1>1, <1>2 DEF BenchTypes, Exits
<1> QED
  BY <1>3, <1>4, <1>5, <1>6, <1>7, <1>8, <1>9, <1>10, <1>11

\* mlui_frame.
LEMMA FrameRun ==
    ASSUME BenchInv, RunFrame
    PROVE  BenchInv'
<1> USE DEF BenchInv, RunFrame, Exit
<1>1. /\ args' = args /\ count'.case = count.case
      /\ args.loops \in Nat /\ args.warmup \in Nat /\ args.samples \in Nat \ {0}
  BY ArgumentKinds DEF BenchTypes
<1>2. /\ bc' = bc /\ CaseCap' = CaseCap /\ CaseNeed' = CaseNeed
      /\ Loaded' = Loaded /\ Works' = Works /\ \A s : IdsOf(s)' = IdsOf(s)
  BY <1>1, SameCase
<1>3. PICK o \in Frame(kernel, 1, RawInput(count.i)) :
        /\ kernel' = o.kernel /\ status' = o.status
        /\ IF o.status # "OK"
           THEN /\ at' = "exit" /\ code' = (IF count.measured THEN 6 ELSE 5)
                /\ UNCHANGED <<build, args, count, owned>>
           ELSE /\ at' = IF Loaded THEN "next" ELSE "free"
                /\ count' = [count EXCEPT
                      !.i = IF Loaded THEN @ + 1 ELSE @,
                      !.ops = IF count.measured THEN @ + o.kernel.len["view"] ELSE @,
                      !.events = IF count.measured THEN @ + o.kernel.len["event"] ELSE @]
                /\ UNCHANGED <<build, args, owned, code>>
  OBVIOUS
<1>4. /\ o.status = "OK" \/ (o.status = "OOM" /\ AllocMayFail)
      /\ ~kernel'.wild /\ IsKernel(kernel')
      /\ o.status = "OK" =>
            /\ ~kernel'.torn /\ kernel'.auth = Finish(build) /\ kernel'.len["slot"] = CaseCap
            /\ \A b \in ProgramBuffers \cup {"scene", "schild"} : Room(kernel', b, CaseNeed[b])
            /\ kernel'.len["view"] = ViewCount(Finish(build))
            /\ kernel'.len["event"] = IF Clicks /\ count.i % 2 = 1 THEN 1 ELSE 0
            /\ Clicks /\ count.i % 2 = 0 => kernel'.pressed = TopLeaf(CaseCap)
  BY <1>3, FrameOutcome
<1>5. /\ Complete(build) /\ OfCase(build) /\ ViewCount(Finish(build)) \in Nat /\ owned.kernels = 1
      /\ count.i < Limit
  <2>1. Complete(build) /\ OfCase(build)
    BY DEF BenchTypes, BuildInv, Built, Complete
  <2> QED
    BY <2>1, DrawnTyped DEF Holdings, Bounds
<1> DEFINE i == IF Loaded THEN count.i + 1 ELSE count.i
           ops == IF count.measured THEN count.ops + ViewCount(Finish(build)) ELSE count.ops
           fired == IF Clicks /\ count.i % 2 = 1 THEN 1 ELSE 0
           events == IF count.measured THEN count.events + fired ELSE count.events
<1>6. i \in Nat /\ ops \in Nat /\ events \in Nat /\ count.measured \in BOOLEAN
  BY <1>5 DEF BenchTypes
<1>7. /\ count' \in [case : 1 .. 7, sample : Nat, measured : BOOLEAN, i : Nat, ops : Nat, events : Nat]
      /\ count'.sample = count.sample /\ count'.measured = count.measured
      /\ o.status = "OK" => count'.i = i /\ count'.ops = ops /\ count'.events = events
  <2>1. CASE o.status # "OK"
    BY <1>3, <2>1 DEF BenchTypes
  <2>2. CASE o.status = "OK"
    <3>1. count' = [count EXCEPT !.i = i, !.ops = ops, !.events = events]
      BY <1>3, <1>4, <2>2
    <3> HIDE DEF i, ops, events
    <3> QED
      BY <1>6, <3>1 DEF BenchTypes
  <2> QED
    BY <2>1, <2>2
<1>8. at = "frame" /\ (o.status # "OK" <=> at' = "exit")
      /\ (o.status = "OK" => at' = IF Loaded THEN "next" ELSE "free")
      /\ owned' = owned /\ build' = build
  BY <1>3
<1> HIDE DEF RunFrame, Exit
<1>9. BenchTypes'
  BY <1>1, <1>2, <1>3, <1>4, <1>5, <1>6, <1>7, <1>8 DEF BenchTypes, Places, BuildInv
<1>10. Holdings'
  BY <1>1, <1>2, <1>3, <1>4, <1>5, <1>6, <1>7, <1>8 DEF BenchTypes, Holdings
<1>11. Built'
  BY <1>1, <1>2, <1>3, <1>4, <1>5, <1>6, <1>7, <1>8 DEF BenchTypes, Built, OfCase
<1>12. Rooms'
  BY <1>1, <1>2, <1>3, <1>4, <1>5, <1>6, <1>7, <1>8 DEF BenchTypes, Rooms
<1>13. Bounds'
  BY <1>1, <1>2, <1>3, <1>4, <1>5, <1>6, <1>7, <1>8 DEF BenchTypes, Bounds, Limit
<1>14. Totals'
  <2>1. SUFFICES ASSUME o.status = "OK" PROVE Totals'
    BY <1>8 DEF Totals, InSample
  <2>2. Frames = count.i /\ Frames' = count.i + 1 /\ InSample /\ InSample'
    BY <1>2, <1>5, <1>7, <1>8, <2>1 DEF Frames, InRound, InSample
  <2>3. CASE ~count.measured
    BY <1>7, <2>1, <2>2, <2>3 DEF Totals
  <2>4. CASE count.measured
    <3>1. events = IF bc.raw_mode = "RAW_CLICK" THEN (count.i + 1) \div 2 ELSE 0
      <4>1. count.events = IF bc.raw_mode = "RAW_CLICK" THEN count.i \div 2 ELSE 0
        BY <2>2, <2>4 DEF Totals
      <4>2. (count.i + 1) \div 2 = (count.i \div 2) + (IF count.i % 2 = 1 THEN 1 ELSE 0)
        BY <1>5 DEF BenchTypes
      <4> QED
        BY <2>4, <4>1, <4>2 DEF Clicks
    <3>2. ASSUME NEW b, Complete(b), OfCase(b) PROVE ops = (count.i + 1) * ViewCount(Finish(b))
      <4> DEFINE v == ViewCount(Finish(build))
      <4>1. v = ViewCount(Finish(b)) /\ v \in Nat /\ count.i \in Nat
        BY <1>5, <3>2, SameView DEF OfCase, BenchTypes
      <4>2. count.ops = count.i * v
        BY <1>5, <2>2, <2>4 DEF Totals
      <4> HIDE DEF v
      <4>3. (count.i + 1) * v = count.i * v + v
        BY <4>1
      <4>4. ops = count.i * v + v
        BY <2>4, <4>2 DEF v
      <4> QED
        BY <4>1, <4>3, <4>4
    <3>3. ASSUME NEW b, OfCase(b)' PROVE OfCase(b)
      BY <1>2, <3>3 DEF OfCase
    <3>4. Frames' # 0
      BY <1>5, <2>2 DEF BenchTypes
    <3> HIDE DEF ops, events, i
    <3> QED
      BY <1>2, <1>7, <2>1, <2>2, <2>4, <3>1, <3>2, <3>3, <3>4 DEF Totals
  <2> QED
    BY <2>3, <2>4 DEF BenchTypes
<1>15. Press'
  <2>1. SUFFICES ASSUME o.status = "OK" PROVE Press'
    BY <1>8 DEF Press, InSample
  <2>2. Frames' = count.i + 1 /\ count.i \in Nat
    BY <1>2, <1>5, <1>7, <1>8, <2>1 DEF Frames, InRound, BenchTypes
  <2>3. Frames' % 2 = 1 => count.i % 2 = 0
    BY <2>2
  <2> QED
    BY <1>2, <1>4, <2>1, <2>3 DEF Press, Clicks
<1>16. Identified'
  BY <1>1, <1>2, <1>3, <1>4, <1>5, <1>6, <1>7, <1>8 DEF BenchTypes, Identified, Vetted, InSample, InRound
<1>17. Exits'
  BY <1>1, <1>2, <1>3, <1>4, <1>5, <1>6, <1>7, <1>8 DEF BenchTypes, Exits
<1> QED
  BY <1>9, <1>10, <1>11, <1>12, <1>13, <1>14, <1>15, <1>16, <1>17

\* mlui_kernel_close.
LEMMA KernelClosed ==
    ASSUME BenchInv, Close
    PROVE  BenchInv'
<1> USE DEF BenchInv, Close
<1>1. /\ args' = args /\ count'.case = count.case
      /\ args.loops \in Nat /\ args.warmup \in Nat /\ args.samples \in Nat \ {0}
  BY ArgumentKinds DEF BenchTypes
<1>2. /\ bc' = bc /\ CaseCap' = CaseCap /\ CaseNeed' = CaseNeed
      /\ Loaded' = Loaded /\ Works' = Works /\ \A s : IdsOf(s)' = IdsOf(s)
  BY <1>1, SameCase
<1>3. IsKernel(kernel') /\ ~kernel'.wild /\ ~kernel'.torn
  <2> DEFINE w == kernel.wild \/ ~ClosesCleanly(kernel)
  <2>1. ~w /\ IsKernel(kernel) /\ kernel' = [kernel EXCEPT !.wild = w] /\ ~kernel.torn
    BY DEF BenchTypes, ClosesCleanly
  <2> HIDE DEF w
  <2>2. IsKernel(kernel') /\ kernel'.wild = w
    BY <2>1, SetWild
  <2>3. kernel'.torn = kernel.torn
    BY <2>1 DEF IsKernel, Fields
  <2> QED
    BY <2>1, <2>2, <2>3
<1>4. owned.kernels = 1 /\ owned'.kernels = 0
  BY DEF Holdings, BenchTypes
<1>5. BenchTypes'
  BY <1>1, <1>2, <1>3, <1>4 DEF BenchTypes, Places, BuildInv
<1>6. Holdings'
  BY <1>1, <1>2, <1>3, <1>4 DEF BenchTypes, Holdings
<1>7. Built'
  BY <1>1, <1>2, <1>3, <1>4 DEF BenchTypes, Built, OfCase
<1>8. Rooms'
  BY <1>1, <1>2, <1>3, <1>4 DEF BenchTypes, Rooms
<1>9. Bounds'
  BY <1>1, <1>2, <1>3, <1>4 DEF BenchTypes, Bounds, Limit
<1>10. Totals'
  BY <1>1, <1>2, <1>3, <1>4 DEF BenchTypes, Totals, InSample, Frames, InRound, OfCase
<1>11. Press'
  BY <1>1, <1>2, <1>3, <1>4 DEF BenchTypes, Press, InSample, Frames, InRound
<1>12. Identified'
  BY <1>1, <1>2, <1>3, <1>4 DEF BenchTypes, Identified, Vetted, InSample, InRound
<1>13. Exits'
  BY <1>1, <1>2, <1>3, <1>4 DEF BenchTypes, Exits
<1> QED
  BY <1>5, <1>6, <1>7, <1>8, <1>9, <1>10, <1>11, <1>12, <1>13

\* free_program ends a round or a sample.
LEMMA ProgramFreed ==
    ASSUME BenchInv, FreeProgram
    PROVE  BenchInv'
<1> USE DEF BenchInv, FreeProgram
<1>1. /\ args' = args /\ count'.case = count.case
      /\ args.loops \in Nat /\ args.warmup \in Nat /\ args.samples \in Nat \ {0}
  BY ArgumentKinds DEF BenchTypes
<1>2. /\ bc' = bc /\ CaseCap' = CaseCap /\ CaseNeed' = CaseNeed
      /\ Loaded' = Loaded /\ Works' = Works /\ \A s : IdsOf(s)' = IdsOf(s)
  BY <1>1, SameCase
<1>3. /\ owned'.kernels = owned.kernels /\ owned.programs = 1 /\ (Loaded => owned.kernels = 0)
      /\ count.case <= 6
      /\ owned.kernels = 1 => count.i < Limit
      /\ owned.kernels = 0 => count.measured /\ count.i = args.loops
  BY <1>1 DEF Holdings, BenchTypes, Bounds
<1>4. BenchTypes'
  BY <1>1, <1>2, <1>3 DEF BenchTypes, Places, BuildInv
<1>5. Holdings'
  BY <1>1, <1>2, <1>3 DEF BenchTypes, Holdings
<1>6. Built'
  BY <1>1, <1>2, <1>3 DEF BenchTypes, Built, OfCase
<1>7. Rooms'
  BY <1>1, <1>2, <1>3 DEF BenchTypes, Rooms
<1>8. Bounds'
  BY <1>1, <1>2, <1>3 DEF BenchTypes, Bounds, Limit
<1>9. Totals'
  BY <1>1, <1>2, <1>3 DEF BenchTypes, Totals, InSample, Frames, InRound, OfCase
<1>10. Press'
  BY <1>1, <1>2, <1>3 DEF BenchTypes, Press, InSample, Frames, InRound
<1>11. Identified'
  BY <1>1, <1>2, <1>3 DEF BenchTypes, Identified, Vetted, InSample, InRound, Works
<1>12. Exits'
  BY <1>1, <1>2, <1>3 DEF BenchTypes, Exits
<1> QED
  BY <1>4, <1>5, <1>6, <1>7, <1>8, <1>9, <1>10, <1>11, <1>12

\* An unfinished program has its length too.
LEMMA FinishedNodes ==
    ASSUME NEW b, Building(b)
    PROVE  Finish(b).n_node \in Nat
<1>1. b.n_node \in Nat /\ DOMAIN b.nodes = 0 .. b.n_node - 1
  BY DEF Building, Shaped
<1> QED
  BY <1>1, IntervalSize DEF Finish, MakeProgram

\* The benchmark starts with an empty kernel and a program of one node.
LEMMA BenchStarts == Init => BenchInv
<1> SUFFICES ASSUME Init PROVE BenchInv
  OBVIOUS
<1> USE DEF Init
<1>1. args.node_count \in Sizes /\ args.loops \in Nat /\ args.warmup \in Nat
  BY ArgumentsAssumption
<1>2. Building(build)
  <2>1. 7 * (1 + 3) < U32
    <3>1. args.node_count \in Nat /\ U32 \in Nat
      BY <1>1, U32Assumption, BuilderAssumption
    <3>2. 3000 + args.node_count < U32
      BY <1>1, SizesFit
    <3> QED
      BY <3>1, <3>2
  <2> QED
    BY <2>1, StartInv
<1>3. IsKernel(kernel) /\ ~kernel.wild /\ ~kernel.torn
  BY FreshKernel DEF Sound
<1>4. BenchTypes
  BY <1>2, <1>3 DEF BenchTypes, Places, BuildInv
<1>5. Holdings /\ Built /\ Rooms /\ Bounds /\ Totals /\ Press /\ Identified /\ Exits
  BY DEF Holdings, Built, Rooms, Bounds, Totals, InSample, Press, Identified, Vetted, Exits
<1> QED
  BY <1>4, <1>5 DEF BenchInv

\* Every step of it keeps the invariant.
LEMMA BenchSteps == BenchInv /\ [Next]_vars => BenchInv'
<1>1. ASSUME BenchInv, UNCHANGED vars PROVE BenchInv'
  <2>1. /\ args' = args /\ count' = count /\ build' = build /\ at' = at /\ owned' = owned
        /\ kernel' = kernel /\ status' = status /\ code' = code
    BY <1>1 DEF vars
  <2>2. /\ bc' = bc /\ CaseCap' = CaseCap /\ CaseNeed' = CaseNeed
        /\ Loaded' = Loaded /\ Works' = Works /\ \A s : IdsOf(s)' = IdsOf(s)
    BY <2>1, SameCase
  <2>3. BenchTypes'
    BY <1>1, <2>1 DEF BenchInv, BenchTypes, BuildInv
  <2>4. Holdings' /\ Built' /\ Rooms' /\ Bounds'
    BY <1>1, <2>1, <2>2 DEF BenchInv, Holdings, Built, Rooms, Bounds, Limit, OfCase
  <2>5. Totals' /\ Press'
    BY <1>1, <2>1, <2>2 DEF BenchInv, Totals, Press, InSample, Frames, InRound, OfCase
  <2>6. Identified' /\ Exits'
    BY <1>1, <2>1, <2>2 DEF BenchInv, Identified, Vetted, InSample, InRound, Exits
  <2> QED
    BY <2>3, <2>4, <2>5, <2>6 DEF BenchInv
<1> QED
  BY <1>1, CaseStarts, MainEnds, CaseEnds, SampleStarts, ProgramMade, RoundBuilt, ProgramFinished,
     KernelMade, ProgramValidated, ProgramLoaded, RoundStarts, WarmupEnds, LoopsEnd, FrameRun,
     KernelClosed, ProgramFreed, Zenon DEF Next

\* The invariant holds throughout.
LEMMA BenchInvariant == Spec => []BenchInv
BY BenchStarts, BenchSteps, PTL DEF Spec

\* The averages that the benchmark prints are exact for every command line: each
\* measured frame of a sample adds the same view operations to the total, and each
\* two clicking frames one event, whatever the warmup, the mode and the allocator.
THEOREM AveragesAreExact == Spec => []SampleIsExact
<1>1. ASSUME BenchInv, at = "close"
      PROVE  /\ count.ops = args.loops * ViewCount(Finish(build))
             /\ count.events = IF bc.raw_mode = "RAW_CLICK" THEN args.loops \div 2 ELSE 0
  <2>1. count.measured /\ count.i = args.loops /\ args.loops \in Nat /\ Building(build)
    BY <1>1, ArgumentKinds DEF BenchInv, Bounds, BenchTypes, BuildInv
  <2>2. Frames = args.loops /\ InSample
    BY <1>1, <2>1 DEF Frames, InRound, InSample
  <2>3. /\ count.events = IF bc.raw_mode = "RAW_CLICK" THEN args.loops \div 2 ELSE 0
        /\ args.loops = 0 => count.ops = 0
        /\ \A b : Complete(b) /\ OfCase(b) => count.ops = args.loops * ViewCount(Finish(b))
    BY <1>1, <2>1, <2>2 DEF BenchInv, Totals
  <2>4. CASE args.loops = 0
    <3>1. ViewCount(Finish(build)) \in Nat
      <4>1. Finish(build).n_node \in Nat
        BY <2>1, FinishedNodes
      <4> QED
        BY <4>1, ViewCountTyped
    <3> QED
      BY <2>3, <2>4, <3>1
  <2>5. CASE args.loops # 0
    <3>1. Complete(build) /\ OfCase(build)
      BY <1>1, <2>1, <2>5 DEF BenchInv, Built, Complete
    <3> QED
      BY <2>3, <3>1
  <2> QED
    BY <2>4, <2>5
<1>2. BenchInv => SampleIsExact
  BY <1>1 DEF SampleIsExact
<1> QED
  BY <1>2, BenchInvariant, PTL

\* The exit status of the benchmark says why it stopped, for every command line
\* and every refusal of the allocator: 3 is a collision of identities, 2, 4, 5, 6 and
\* 111 are memory that ran out, and 0 means that all was released, nothing having
\* been written outside a buffer or held twice.
THEOREM ExitCodesAreTrue == Spec => []ExitMeans
<1>1. ASSUME BenchInv PROVE ExitMeans
  <2>1. ~kernel.wild
    BY <1>1 DEF BenchInv, BenchTypes
  <2>2. \A r \in DOMAIN owned : owned[r] \in {0, 1}
    BY <1>1 DEF BenchInv, BenchTypes
  <2>3. at \in {"build", "validate", "load", "free"} => owned.programs = 1
    BY <1>1 DEF BenchInv, Holdings
  <2> QED
    BY <1>1, <2>1, <2>2, <2>3, Zenon DEF BenchInv, Exits, ExitMeans, Works
<1> QED
  BY <1>1, BenchInvariant, PTL

\* Every program that the benchmark finishes is a tree that the validator accepts
\* exactly when its identities do not collide, in whatever order it builds them.
THEOREM BenchLoadsTrees == Spec => []BuildsTrees
<1>1. BenchInv => BuildsTrees
  BY CompleteIsTree DEF BenchInv, BenchTypes, BuildInv, Complete, BuildsTrees
<1> QED
  BY <1>1, BenchInvariant, PTL

==============================================================================
