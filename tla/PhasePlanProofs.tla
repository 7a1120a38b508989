-------------------------- MODULE PhasePlanProofs ---------------------------
(* That the planner's search is where its path says, that it finds every way *)
(* from the root's input to its output once, and that what passed validation *)
(* can be planned: for any packages.                                         *)
EXTENDS PhasePlan, SequenceTheorems, FiniteSetTheorems, TLAPS

\* No id twice.
Distinct(seq) == \A j, k \in 1..Len(seq) : seq[j].id = seq[k].id => j = k

-----------------------------------------------------------------------------
(* phases_by_input                                                           *)

RankIn(S, k) == Cardinality({j \in S : j <= k})

\* The members of a set of positions have the ranks from 1, each its own.
LEMMA Ranks ==
    ASSUME NEW n \in Nat, NEW S \in SUBSET (1..n)
    PROVE  /\ Cardinality(S) \in Nat
           /\ \A k \in S : RankIn(S, k) \in 1..Cardinality(S)
           /\ \A j, k \in S : RankIn(S, j) = RankIn(S, k) => j = k
           /\ \A i \in 1..Cardinality(S) : \E k \in S : RankIn(S, k) = i
<1> DEFINE upto(k) == {j \in S : j <= k}
           rank == [k \in S |-> RankIn(S, k)]
<1>1. IsFiniteSet(S) /\ Cardinality(S) \in Nat
  <2>1. IsFiniteSet(1..n)
    BY FS_Interval
  <2>2. IsFiniteSet(S)
    BY <2>1, FS_Subset
  <2> QED
    BY <2>2, FS_CardinalityType
<1>2. \A k \in S : upto(k) \in SUBSET S /\ k \in upto(k) /\ RankIn(S, k) = Cardinality(upto(k))
  BY DEF RankIn
<1> HIDE DEF upto
<1>3. \A k \in S : IsFiniteSet(upto(k)) /\ Cardinality(upto(k)) \in Nat
                   /\ Cardinality(upto(k)) <= Cardinality(S)
  BY <1>1, <1>2, FS_Subset, FS_CardinalityType
<1>4. \A k \in S : RankIn(S, k) \in 1..Cardinality(S)
  <2> SUFFICES ASSUME NEW k \in S PROVE RankIn(S, k) \in 1..Cardinality(S)
    OBVIOUS
  <2>1. Cardinality(upto(k)) # 0
    BY <1>2, <1>3, FS_EmptySet
  <2> QED
    BY <1>1, <1>2, <1>3, <2>1
<1>5. ASSUME NEW j \in S, NEW k \in S, j < k PROVE RankIn(S, j) # RankIn(S, k)
  <2>1. upto(j) \in SUBSET upto(k) /\ k \notin upto(j)
    <3>1. j \in Nat /\ k \in Nat /\ ~(k <= j)
      BY <1>5
    <3>2. \A i \in S : i \in Nat /\ (i <= j => i <= k)
      BY <1>5, <3>1
    <3> QED
      BY <3>1, <3>2 DEF upto
  <2>2. IsFiniteSet(upto(k)) /\ upto(j) # upto(k)
    BY <1>2, <1>3, <2>1
  <2>3. Cardinality(upto(k)) # Cardinality(upto(j))
    BY <2>1, <2>2, FS_Subset
  <2> QED
    BY <1>2, <2>3
<1>6. \A j, k \in S : RankIn(S, j) = RankIn(S, k) => j = k
  <2> SUFFICES ASSUME NEW j \in S, NEW k \in S, j # k PROVE RankIn(S, j) # RankIn(S, k)
    OBVIOUS
  <2>1. j < k \/ k < j
    OBVIOUS
  <2> QED
    BY <1>5, <2>1
<1>7. rank \in Injection(S, 1..Cardinality(S))
  BY <1>4, <1>6 DEF Injection, IsInjective
<1>8. IsFiniteSet(1..Cardinality(S)) /\ Cardinality(1..Cardinality(S)) = Cardinality(S)
  BY <1>1, FS_Interval
<1>9. rank \in Surjection(S, 1..Cardinality(S))
  <2> HIDE DEF rank
  <2> QED
    BY <1>7, <1>8, FS_Injection
<1>10. \A i \in 1..Cardinality(S) : \E k \in S : RankIn(S, k) = i
  BY <1>9 DEF Surjection
<1> QED
  BY <1>1, <1>4, <1>6, <1>10

\* `list` are the phases of p from a world, each at one place if ids are unique.
PhasesFrom(list, p, world) ==
    /\ list \in Seq(Elements(p.phases))
    /\ \A i \in 1..Len(list) : list[i] \in Elements(p.phases) /\ list[i].input = world
    /\ \A f \in Elements(p.phases) : f.input = world => \E i \in 1..Len(list) : list[i] = f
    /\ Distinct(p.phases) => \A i, j \in 1..Len(list) : list[i] = list[j] => i = j

LEMMA PhasesByInputAre ==
    ASSUME NEW p \in Packages, NEW world
    PROVE  PhasesFrom(PhasesByInput(p, world), p, world)
<1> DEFINE phases == p.phases
           n == Len(phases)
           S == {k \in 1..n : phases[k].input = world}
           pos(i) == CHOOSE k \in S : RankIn(S, k) = i
           list == PhasesByInput(p, world)
<1>1. phases \in Seq(Elements(phases)) /\ n \in Nat
  BY PackagesAssumption
<1>2. list = [i \in 1..Cardinality(S) |-> phases[pos(i)]]
  BY DEF PhasesByInput, RankIn
<1>3. /\ S \in SUBSET (1..n)
      /\ \A k \in S : phases[k] \in Elements(phases) /\ phases[k].input = world
      /\ \A f \in Elements(phases) : f.input = world => \E k \in S : phases[k] = f
  BY DEF Elements
<1>4. Distinct(phases) => \A j, k \in S : phases[j] = phases[k] => j = k
  BY DEF Distinct
<1> HIDE DEF list, S, n, phases
<1>5. /\ Cardinality(S) \in Nat
      /\ \A k \in S : RankIn(S, k) \in 1..Cardinality(S)
      /\ \A j, k \in S : RankIn(S, j) = RankIn(S, k) => j = k
      /\ \A i \in 1..Cardinality(S) : \E k \in S : RankIn(S, k) = i
  BY <1>1, <1>3, Ranks
<1>6. \A i \in 1..Cardinality(S) : pos(i) \in S /\ RankIn(S, pos(i)) = i
  BY <1>5
<1>7. \A k \in S : pos(RankIn(S, k)) = k
  BY <1>5, <1>6
<1> HIDE DEF pos
<1>8. /\ list \in Seq(Elements(phases)) /\ Len(list) = Cardinality(S)
      /\ \A i \in 1..Cardinality(S) : list[i] = phases[pos(i)]
  <2>1. list \in [1..Cardinality(S) -> Elements(phases)]
    BY <1>2, <1>3, <1>6
  <2> QED
    BY <1>2, <1>5, <2>1, SeqDef, LenProperties
<1>9. \A f \in Elements(phases) : f.input = world => \E i \in 1..Len(list) : list[i] = f
  BY <1>3, <1>5, <1>7, <1>8
<1>10. ASSUME NEW i \in 1..Len(list) PROVE list[i] \in Elements(phases) /\ list[i].input = world
  <2>1. pos(i) \in S /\ list[i] = phases[pos(i)]
    BY <1>6, <1>8
  <2> QED
    BY <1>3, <2>1
<1>11. Distinct(phases) => \A i, j \in 1..Len(list) : list[i] = list[j] => i = j
  BY <1>4, <1>6, <1>8
<1> QED
  BY <1>8, <1>9, <1>10, <1>11 DEF PhasesFrom, list, phases

-----------------------------------------------------------------------------
(* Ways, and the part of them that a search has still before it              *)

\* The world from which a walk goes on at its i-th phase.
Start(r, walk, i) == IF i = 1 THEN r.input ELSE walk[i - 1].output

\* A walk from the root's input that ends where it first meets the output.
Way(p, r, w) ==
    /\ w \in Seq(Elements(p.phases))
    /\ IsWalk(w, r.input)
    /\ Start(r, w, Len(w) + 1) = r.output
    /\ \A i \in 1..Len(w) : Start(r, w, i) # r.output

Agrees(w, path, n) == Len(w) >= n /\ \A j \in 1..n : w[j] = path[j]

\* The candidates of the i-th open call, and that w is yet to be met by that
\* call, of which t is the loop index.
Choices(p, r, path, i) == PhasesByInput(p, Start(r, path, i))

AheadAt(p, r, path, t, w, i) ==
    /\ Agrees(w, path, i - 1)
    /\ Len(w) >= i
    /\ \E c \in 1..Len(Choices(p, r, path, i)) : t <= c /\ w[i] = Choices(p, r, path, i)[c]

Ahead(p, r, path, next, w) == \E i \in 1..Len(next) : AheadAt(p, r, path, next[i], w, i)

\* A search that is about to enter a world has all ways on from its path left.
Left(p, r, path, next, entering, w) ==
    Ahead(p, r, path, next, w) \/ (entering /\ Agrees(w, path, Len(path)))

\* What was found is what is not left.
Exact(p, r, path, next, entering, paths) ==
    \A w \in Seq(Elements(p.phases)) :
        Way(p, r, w) => (w \in Elements(paths) <=> ~Left(p, r, path, next, entering, w))

\* The path is made of the candidates that the loops took last.
Taken(p, r, path, next) ==
    \A i \in 1..Len(path) :
        /\ next[i] - 1 \in 1..Len(Choices(p, r, path, i))
        /\ path[i] = Choices(p, r, path, i)[next[i] - 1]

LEMMA SameStart ==
    ASSUME NEW r, NEW s, NEW t, NEW n \in Nat, \A j \in 1..n : s[j] = t[j], NEW i \in 1..n + 1
    PROVE  Start(r, s, i) = Start(r, t, i)
<1>1. i = 1 \/ i - 1 \in 1..n
  OBVIOUS
<1> QED
  BY <1>1 DEF Start

LEMMA SameAhead ==
    ASSUME NEW p, NEW r, NEW s, NEW t, NEW n \in Nat, \A j \in 1..n : s[j] = t[j],
           NEW i \in 1..n + 1, NEW c, NEW w
    PROVE  AheadAt(p, r, s, c, w, i) <=> AheadAt(p, r, t, c, w, i)
<1>1. Choices(p, r, s, i) = Choices(p, r, t, i)
  BY SameStart DEF Choices
<1>2. Agrees(w, s, i - 1) <=> Agrees(w, t, i - 1)
  BY DEF Agrees
<1> QED
  BY <1>1, <1>2 DEF AheadAt

LEMMA ChoicesAre ==
    ASSUME NEW p \in Packages, NEW r, NEW path, NEW i
    PROVE  PhasesFrom(Choices(p, r, path, i), p, Start(r, path, i))
BY PhasesByInputAre DEF Choices

\* DfsFound: of the ways from here only the path itself is one.
LEMMA FoundIsExact ==
    ASSUME NEW p \in Packages, Distinct(p.phases), NEW r,
           NEW path \in Seq(Elements(p.phases)), NEW next \in Seq(Nat \ {0}), Len(next) = Len(path),
           NEW paths \in Seq(Seq(Elements(p.phases))),
           Way(p, r, path), Taken(p, r, path, next),
           Exact(p, r, path, next, TRUE, paths)
    PROVE  /\ Exact(p, r, path, next, FALSE, Append(paths, path))
           /\ path \notin Elements(paths)
<1> DEFINE n == Len(path)
           P == Elements(p.phases)
<1>0. n \in Nat /\ path \in [1..n -> P]
  BY LenProperties
<1>1. ~Ahead(p, r, path, next, path)
  <2> SUFFICES ASSUME NEW i \in 1..n, AheadAt(p, r, path, next[i], path, i) PROVE FALSE
    BY DEF Ahead
  <2> DEFINE list == Choices(p, r, path, i)
  <2>1. PICK c \in 1..Len(list) : next[i] <= c /\ path[i] = list[c]
    BY DEF AheadAt
  <2>2. next[i] - 1 \in 1..Len(list) /\ path[i] = list[next[i] - 1]
    BY DEF Taken
  <2>3. \A a, b \in 1..Len(list) : list[a] = list[b] => a = b
    BY ChoicesAre DEF PhasesFrom
  <2>4. next[i] \in Nat
    BY ElementOfSeq
  <2> HIDE DEF list
  <2>5. c = next[i] - 1
    BY <2>1, <2>2, <2>3
  <2> QED
    BY <2>1, <2>4, <2>5
<1>2. Agrees(path, path, n)
  BY <1>0 DEF Agrees
<1>3. ASSUME NEW w \in Seq(P), Way(p, r, w), Agrees(w, path, n) PROVE w = path
  <2>1. Len(w) \in Nat /\ Len(w) >= n /\ \A j \in 1..n : w[j] = path[j]
    BY <1>3, LenProperties DEF Agrees
  <2>2. CASE Len(w) = n
    BY <2>1, <2>2, SeqEqual
  <2>3. CASE Len(w) > n
    <3>1. n + 1 \in 1..Len(w) /\ n + 1 \in 1..n + 1
      BY <1>0, <2>1, <2>3
    <3>2. Start(r, w, n + 1) = Start(r, path, n + 1)
      BY <1>0, <2>1, <3>1, SameStart
    <3> QED
      BY <1>3, <3>1, <3>2 DEF Way
  <2> QED
    BY <1>0, <2>1, <2>2, <2>3
<1>4. path \notin Elements(paths)
  BY <1>2 DEF Exact, Left
<1>5. ASSUME NEW w PROVE w \in Elements(Append(paths, path)) <=> w \in Elements(paths) \/ w = path
  <2> DEFINE m == Len(paths)
             more == Append(paths, path)
  <2>1. /\ m \in Nat /\ Len(more) = m + 1 /\ more[m + 1] = path
        /\ \A i \in 1..m : more[i] = paths[i]
    OBVIOUS
  <2> HIDE DEF m, more
  <2>2. \A i \in 1..m + 1 : i \in 1..m \/ i = m + 1
    BY <2>1
  <2>3. \A i \in 1..m : i \in 1..m + 1
    BY <2>1
  <2>4. m + 1 \in 1..m + 1
    BY <2>1
  <2> QED
    BY <2>1, <2>2, <2>3, <2>4 DEF Elements, m, more
<1>6. ASSUME NEW w \in Seq(P), Way(p, r, w)
      PROVE  w \in Elements(Append(paths, path)) <=> ~Left(p, r, path, next, FALSE, w)
  <2>1. w \in Elements(paths) <=> ~Left(p, r, path, next, TRUE, w)
    BY <1>6 DEF Exact
  <2>2. CASE w = path
    BY <1>1, <1>5, <2>2 DEF Left
  <2>3. CASE w # path
    <3>1. ~Agrees(w, path, n)
      BY <1>3, <1>6, <2>3
    <3> QED
      BY <1>5, <2>1, <2>3, <3>1 DEF Left
  <2> QED
    BY <2>2, <2>3
<1> QED
  BY <1>4, <1>6 DEF Exact

\* DfsOpen: ways on from the path begin with one of the candidates.
LEMMA OpenIsExact ==
    ASSUME NEW p \in Packages, NEW r,
           NEW path \in Seq(Elements(p.phases)), NEW next \in Seq(Nat \ {0}), Len(next) = Len(path),
           NEW paths, Start(r, path, Len(path) + 1) # r.output,
           Exact(p, r, path, next, TRUE, paths)
    PROVE  Exact(p, r, path, Append(next, 1), FALSE, paths)
<1> DEFINE n == Len(path)
           P == Elements(p.phases)
           new == Append(next, 1)
<1>1. /\ n \in Nat /\ path \in [1..n -> P]
      /\ Len(new) = n + 1 /\ new[n + 1] = 1 /\ \A i \in 1..n : new[i] = next[i]
  BY LenProperties
<1> HIDE DEF new
<1>2. ASSUME NEW w \in Seq(P), Way(p, r, w), Agrees(w, path, n)
      PROVE  AheadAt(p, r, path, 1, w, n + 1)
  <2>1. Len(w) \in Nat /\ Len(w) >= n /\ \A j \in 1..n : w[j] = path[j]
    BY <1>2, LenProperties DEF Agrees
  <2>2. Start(r, w, n + 1) = Start(r, path, n + 1)
    <3>1. n + 1 \in 1..n + 1
      BY <1>1
    <3> QED
      BY <1>1, <2>1, <3>1, SameStart
  <2>3. Len(w) # n
    BY <1>2, <2>2 DEF Way
  <2>4. n + 1 \in 1..Len(w)
    BY <1>1, <2>1, <2>3
  <2>5. w[n + 1] \in P /\ w[n + 1].input = Start(r, w, n + 1)
    BY <1>2, <2>4, ElementOfSeq DEF Way, IsWalk, Start
  <2>6. \E c \in 1..Len(Choices(p, r, path, n + 1)) : Choices(p, r, path, n + 1)[c] = w[n + 1]
    <3>1. PhasesFrom(Choices(p, r, path, n + 1), p, Start(r, path, n + 1))
      BY ChoicesAre
    <3> QED
      BY <2>2, <2>5, <3>1 DEF PhasesFrom
  <2>7. Agrees(w, path, (n + 1) - 1)
    BY <1>1, <1>2
  <2> QED
    BY <1>1, <2>4, <2>6, <2>7 DEF AheadAt
<1>3. ASSUME NEW w, AheadAt(p, r, path, 1, w, n + 1) PROVE Agrees(w, path, n)
  BY <1>1, <1>3 DEF AheadAt
<1>4. ASSUME NEW w \in Seq(P), Way(p, r, w)
      PROVE  Left(p, r, path, next, TRUE, w) <=> Left(p, r, path, new, FALSE, w)
  <2>1. \A i \in 1..n + 1 : i \in 1..n \/ i = n + 1
    BY <1>1
  <2>2. \A i \in 1..n : i \in 1..n + 1
    BY <1>1
  <2>3. n + 1 \in 1..n + 1
    BY <1>1
  <2>4. Ahead(p, r, path, new, w) <=> Ahead(p, r, path, next, w) \/ AheadAt(p, r, path, 1, w, n + 1)
    BY <1>1, <2>1, <2>2, <2>3 DEF Ahead
  <2> QED
    BY <1>2, <1>3, <1>4, <2>4 DEF Left
<1> QED
  BY <1>4 DEF Exact, new

\* The loop over the candidates of the path's end: what is left beyond index c
\* is what is left from it, but for the ways that take candidate c.
LEMMA IndexMoves ==
    ASSUME NEW p, NEW r, NEW path, NEW i \in Nat, NEW c \in 1..Len(Choices(p, r, path, i)), NEW w,
           Len(Choices(p, r, path, i)) \in Nat
    PROVE  AheadAt(p, r, path, c, w, i)
               <=> \/ AheadAt(p, r, path, c + 1, w, i)
                   \/ /\ Agrees(w, path, i - 1)
                      /\ Len(w) >= i
                      /\ w[i] = Choices(p, r, path, i)[c]
<1> DEFINE list == Choices(p, r, path, i)
<1>1. \A d \in 1..Len(list) : c <= d <=> c + 1 <= d \/ d = c
  OBVIOUS
<1> HIDE DEF list
<1> QED
  BY <1>1 DEF AheadAt, list

\* All loops but the innermost are as they were.
LEMMA OuterLoopsStay ==
    ASSUME NEW p, NEW r, NEW s, NEW t, NEW n \in Nat, \A j \in 1..n : s[j] = t[j],
           NEW next, NEW new, Len(next) = n + 1, Len(new) = n + 1,
           \A i \in 1..n : new[i] = next[i], NEW w
    PROVE  /\ Ahead(p, r, s, next, w)
                  <=> \/ \E i \in 1..n : AheadAt(p, r, s, next[i], w, i)
                      \/ AheadAt(p, r, s, next[n + 1], w, n + 1)
           /\ Ahead(p, r, t, new, w)
                  <=> \/ \E i \in 1..n : AheadAt(p, r, s, next[i], w, i)
                      \/ AheadAt(p, r, s, new[n + 1], w, n + 1)
<1>1. \A i \in 1..n + 1 : i \in 1..n \/ i = n + 1
  OBVIOUS
<1>2. \A i \in 1..n : i \in 1..n + 1
  OBVIOUS
<1>3. n + 1 \in 1..n + 1
  OBVIOUS
<1>4. \A i \in 1..n + 1 : AheadAt(p, r, s, new[i], w, i) <=> AheadAt(p, r, t, new[i], w, i)
  BY SameAhead
<1>5. Ahead(p, r, s, next, w)
         <=> \/ \E i \in 1..n : AheadAt(p, r, s, next[i], w, i)
             \/ AheadAt(p, r, s, next[n + 1], w, n + 1)
  BY <1>1, <1>2, <1>3 DEF Ahead
<1>6. Ahead(p, r, t, new, w)
         <=> \/ \E i \in 1..n : AheadAt(p, r, s, next[i], w, i)
             \/ AheadAt(p, r, s, new[n + 1], w, n + 1)
  BY <1>1, <1>2, <1>3, <1>4 DEF Ahead
<1> QED
  BY <1>5, <1>6

\* DfsDescend: the ways that take the candidate are the ways on from it.
LEMMA DescendIsExact ==
    ASSUME NEW p \in Packages, NEW r,
           NEW path \in Seq(Elements(p.phases)), NEW next \in Seq(Nat \ {0}), Len(next) = Len(path) + 1,
           NEW c, next[Len(next)] = c, c \in 1..Len(Choices(p, r, path, Len(path) + 1)),
           NEW new, Len(new) = Len(next), new[Len(next)] = c + 1,
           \A i \in 1..Len(path) : new[i] = next[i],
           NEW longer, Len(longer) = Len(path) + 1,
           longer[Len(path) + 1] = Choices(p, r, path, Len(path) + 1)[c],
           \A i \in 1..Len(path) : longer[i] = path[i],
           NEW paths, Exact(p, r, path, next, FALSE, paths)
    PROVE  Exact(p, r, longer, new, TRUE, paths)
<1> DEFINE n == Len(path)
           list == Choices(p, r, path, n + 1)
<1>1. n \in Nat
  BY LenProperties
<1>2. Len(list) \in Nat
  <2>1. list \in Seq(Elements(p.phases))
    BY ChoicesAre DEF PhasesFrom
  <2> QED
    BY <2>1, LenProperties
<1>3. ASSUME NEW w \in Seq(Elements(p.phases))
      PROVE  Left(p, r, path, next, FALSE, w) <=> Left(p, r, longer, new, TRUE, w)
  <2> DEFINE outer == \E i \in 1..n : AheadAt(p, r, path, next[i], w, i)
             takes == Agrees(w, path, n) /\ Len(w) >= n + 1 /\ w[n + 1] = list[c]
  <2>1. AheadAt(p, r, path, c, w, n + 1) <=> AheadAt(p, r, path, c + 1, w, n + 1) \/ takes
    <3>1. n + 1 \in Nat /\ (n + 1) - 1 = n
      BY <1>1
    <3> HIDE DEF n
    <3> QED
      BY <1>2, <3>1, IndexMoves DEF n
  <2>2. /\ Ahead(p, r, path, next, w) <=> outer \/ AheadAt(p, r, path, c, w, n + 1)
        /\ Ahead(p, r, longer, new, w) <=> outer \/ AheadAt(p, r, path, c + 1, w, n + 1)
    <3>1. /\ Len(next) = n + 1 /\ Len(new) = n + 1 /\ next[n + 1] = c /\ new[n + 1] = c + 1
          /\ \A i \in 1..n : new[i] = next[i] /\ path[i] = longer[i]
      OBVIOUS
    <3> HIDE DEF n
    <3>2. /\ Ahead(p, r, path, next, w)
                <=> \/ \E i \in 1..n : AheadAt(p, r, path, next[i], w, i)
                    \/ AheadAt(p, r, path, next[n + 1], w, n + 1)
          /\ Ahead(p, r, longer, new, w)
                <=> \/ \E i \in 1..n : AheadAt(p, r, path, next[i], w, i)
                    \/ AheadAt(p, r, path, new[n + 1], w, n + 1)
      BY <1>1, <3>1, OuterLoopsStay
    <3> QED
      BY <3>1, <3>2 DEF n
  <2>3. Agrees(w, longer, n + 1) <=> takes
    <3>1. \A i \in 1..n + 1 : i \in 1..n \/ i = n + 1
      BY <1>1
    <3>2. n + 1 \in 1..n + 1 /\ \A i \in 1..n : i \in 1..n + 1
      BY <1>1
    <3>3. Len(w) \in Nat /\ (Len(w) >= n + 1 => Len(w) >= n)
      BY <1>1, LenProperties
    <3> HIDE DEF n, list
    <3> QED
      BY <3>1, <3>2, <3>3 DEF Agrees, n, list
  <2> HIDE DEF outer, takes, n
  <2> QED
    BY <2>1, <2>2, <2>3 DEF Left, n
<1> QED
  BY <1>3 DEF Exact

\* DfsSkip: no way takes a phase twice.
LEMMA SkipIsExact ==
    ASSUME NEW p \in Packages, NEW r,
           NEW path \in Seq(Elements(p.phases)), NEW next \in Seq(Nat \ {0}), Len(next) = Len(path) + 1,
           NEW c, next[Len(next)] = c, c \in 1..Len(Choices(p, r, path, Len(path) + 1)),
           Choices(p, r, path, Len(path) + 1)[c].id \in Ids(path),
           NEW new, Len(new) = Len(next), new[Len(next)] = c + 1,
           \A i \in 1..Len(path) : new[i] = next[i],
           NEW paths, Exact(p, r, path, next, FALSE, paths)
    PROVE  Exact(p, r, path, new, FALSE, paths)
<1> DEFINE n == Len(path)
           list == Choices(p, r, path, n + 1)
<1>1. n \in Nat
  BY LenProperties
<1>2. Len(list) \in Nat
  <2>1. list \in Seq(Elements(p.phases))
    BY ChoicesAre DEF PhasesFrom
  <2> QED
    BY <2>1, LenProperties
<1>3. ASSUME NEW w \in Seq(Elements(p.phases)), Way(p, r, w)
      PROVE  Left(p, r, path, next, FALSE, w) <=> Left(p, r, path, new, FALSE, w)
  <2> DEFINE outer == \E i \in 1..n : AheadAt(p, r, path, next[i], w, i)
             takes == Agrees(w, path, n) /\ Len(w) >= n + 1 /\ w[n + 1] = list[c]
  <2>1. AheadAt(p, r, path, c, w, n + 1) <=> AheadAt(p, r, path, c + 1, w, n + 1) \/ takes
    <3>1. n + 1 \in Nat /\ (n + 1) - 1 = n
      BY <1>1
    <3> HIDE DEF n
    <3> QED
      BY <1>2, <3>1, IndexMoves DEF n
  <2>2. /\ Ahead(p, r, path, next, w) <=> outer \/ AheadAt(p, r, path, c, w, n + 1)
        /\ Ahead(p, r, path, new, w) <=> outer \/ AheadAt(p, r, path, c + 1, w, n + 1)
    <3>1. /\ Len(next) = n + 1 /\ Len(new) = n + 1 /\ next[n + 1] = c /\ new[n + 1] = c + 1
          /\ \A i \in 1..n : new[i] = next[i] /\ path[i] = path[i]
      OBVIOUS
    <3> HIDE DEF n
    <3>2. /\ Ahead(p, r, path, next, w)
                <=> \/ \E i \in 1..n : AheadAt(p, r, path, next[i], w, i)
                    \/ AheadAt(p, r, path, next[n + 1], w, n + 1)
          /\ Ahead(p, r, path, new, w)
                <=> \/ \E i \in 1..n : AheadAt(p, r, path, next[i], w, i)
                    \/ AheadAt(p, r, path, new[n + 1], w, n + 1)
      BY <1>1, <3>1, OuterLoopsStay
    <3> QED
      BY <3>1, <3>2 DEF n
  <2>3. ~takes
    <3> SUFFICES ASSUME takes PROVE FALSE
      OBVIOUS
    <3>1. PICK k \in 1..n : path[k].id = list[c].id
      BY DEF Ids
    <3>2. Len(w) \in Nat /\ k \in 1..Len(w) /\ n + 1 \in 1..Len(w) /\ k # n + 1
      BY <1>1, LenProperties
    <3>3. w[k].id = w[n + 1].id
      BY <3>1 DEF Agrees
    <3> QED
      BY <1>3, <3>2, <3>3 DEF Way, IsWalk
  <2> HIDE DEF outer, takes, n
  <2> QED
    BY <2>1, <2>2, <2>3 DEF Left
<1> QED
  BY <1>3 DEF Exact

\* DfsExhausted: a loop at its end has nothing left.
LEMMA ExhaustedIsExact ==
    ASSUME NEW p \in Packages, NEW r,
           NEW path \in Seq(Elements(p.phases)), NEW next \in Seq(Nat \ {0}), Len(next) = Len(path) + 1,
           next[Len(next)] > Len(Choices(p, r, path, Len(path) + 1)),
           NEW new, Len(new) = Len(path), \A i \in 1..Len(path) : new[i] = next[i],
           NEW paths, Exact(p, r, path, next, FALSE, paths)
    PROVE  Exact(p, r, path, new, FALSE, paths)
<1> DEFINE n == Len(path)
           list == Choices(p, r, path, n + 1)
<1>1. n \in Nat /\ next[n + 1] \in Nat
  BY LenProperties, ElementOfSeq
<1>2. Len(list) \in Nat
  <2>1. list \in Seq(Elements(p.phases))
    BY ChoicesAre DEF PhasesFrom
  <2> QED
    BY <2>1, LenProperties
<1>3. ASSUME NEW w PROVE Ahead(p, r, path, next, w) <=> Ahead(p, r, path, new, w)
  <2>1. \A i \in 1..n + 1 : i \in 1..n \/ i = n + 1
    BY <1>1
  <2>2. \A i \in 1..n : i \in 1..n + 1
    BY <1>1
  <2>3. \A d \in 1..Len(list) : ~(next[n + 1] <= d)
    BY <1>1, <1>2
  <2> HIDE DEF n
  <2>4. ~AheadAt(p, r, path, next[n + 1], w, n + 1)
    BY <2>3 DEF AheadAt
  <2> QED
    BY <2>1, <2>2, <2>4 DEF Ahead, n
<1> QED
  BY <1>3 DEF Exact, Left

\* DfsReturn: the loops look at the path before the phase that is undone.
LEMMA ReturnIsExact ==
    ASSUME NEW p, NEW r,
           NEW path \in Seq(Elements(p.phases)), path # <<>>,
           NEW next, Len(next) = Len(path),
           NEW shorter, \A i \in 1..Len(path) - 1 : shorter[i] = path[i],
           NEW paths, Exact(p, r, path, next, FALSE, paths)
    PROVE  Exact(p, r, shorter, next, FALSE, paths)
<1> DEFINE n == Len(path) - 1
<1>1. n \in Nat /\ n + 1 = Len(path)
  BY EmptySeq
<1>2. ASSUME NEW w, NEW i \in 1..Len(path)
      PROVE  AheadAt(p, r, path, next[i], w, i) <=> AheadAt(p, r, shorter, next[i], w, i)
  <2>1. \A j \in 1..n : path[j] = shorter[j]
    OBVIOUS
  <2>2. i \in 1..n + 1
    BY <1>1
  <2> HIDE DEF n
  <2> QED
    BY <1>1, <2>1, <2>2, SameAhead
<1>3. \A w : Ahead(p, r, path, next, w) <=> Ahead(p, r, shorter, next, w)
  BY <1>2 DEF Ahead
<1> QED
  BY <1>3 DEF Exact, Left

-----------------------------------------------------------------------------
(* Where the search is                                                       *)

SearchOK(p, r, path, seen, next, a) ==
    /\ path \in Seq(Elements(p.phases)) /\ next \in Seq(Nat \ {0})
    /\ Len(next) = Len(path) + (IF a = "loop" THEN 1 ELSE 0)
    /\ seen = Ids(path)
    /\ IsWalk(path, r.input)
    /\ \A i \in 1..Len(path) : Start(r, path, i) # r.output
    /\ a = "loop" => Start(r, path, Len(path) + 1) # r.output
    /\ a = "plan" => path = <<>>

\* What has been found.
FindOK(p, r, path, next, paths, a) ==
    /\ paths \in Seq(Seq(Elements(p.phases)))
    /\ \A k \in 1..Len(paths) : Way(p, r, paths[k])
    /\ \A j, k \in 1..Len(paths) : paths[j] = paths[k] => j = k
    /\ Taken(p, r, path, next)
    /\ Exact(p, r, path, next, a = "enter", paths)

LEMMA Longer ==
    ASSUME NEW T, NEW path \in Seq(T), NEW f \in T
    PROVE  /\ Append(path, f) \in Seq(T) /\ Len(path) \in Nat
           /\ Len(Append(path, f)) = Len(path) + 1
           /\ Append(path, f)[Len(path) + 1] = f
           /\ \A i \in 1..Len(path) : Append(path, f)[i] = path[i]
           /\ Ids(Append(path, f)) = Ids(path) \cup {f.id}
<1> DEFINE n == Len(path)
           longer == Append(path, f)
<1>1. /\ n \in Nat /\ longer \in Seq(T) /\ Len(longer) = n + 1 /\ longer[n + 1] = f
      /\ \A i \in 1..n : longer[i] = path[i]
  OBVIOUS
<1> HIDE DEF longer
<1>2. /\ \A i \in 1..n + 1 : i \in 1..n \/ i = n + 1
      /\ \A i \in 1..n : i \in 1..n + 1
      /\ n + 1 \in 1..n + 1
  BY <1>1
<1> HIDE DEF n
<1>3. Ids(longer) = Ids(path) \cup {f.id}
  BY <1>1, <1>2 DEF Ids, n
<1> QED
  BY <1>1, <1>3 DEF longer, n

LEMMA Shorter ==
    ASSUME NEW T, NEW path \in Seq(T), path # <<>>
    PROVE  /\ Front(path) \in Seq(T)
           /\ Len(path) \in Nat \ {0} /\ Len(Front(path)) = Len(path) - 1
           /\ \A i \in 1..Len(path) - 1 : Front(path)[i] = path[i]
<1> DEFINE n == Len(path) - 1
<1>1. Len(path) \in Nat \ {0} /\ n \in Int /\ n - 1 + 1 = n
  BY EmptySeq
<1>2. \A i \in 1..n : path[i] \in T
  BY <1>1, ElementOfSeq
<1>3. /\ SubSeq(path, 1, n) \in Seq(T)
      /\ Len(SubSeq(path, 1, n)) = IF 1 <= n THEN n - 1 + 1 ELSE 0
      /\ \A i \in 1..n - 1 + 1 : SubSeq(path, 1, n)[i] = path[1 + i - 1]
  <2> HIDE DEF n
  <2> QED
    BY <1>1, <1>2, SubSeqProperties
<1>4. \A i \in 1..n : SubSeq(path, 1, n)[i] = path[i]
  BY <1>1, <1>3
<1>5. Len(SubSeq(path, 1, n)) = n
  BY <1>1, <1>3
<1> QED
  BY <1>1, <1>3, <1>4, <1>5 DEF Front

LEMMA IdsOfFront ==
    ASSUME NEW T, NEW path \in Seq(T), path # <<>>,
           \A j, k \in 1..Len(path) : path[j].id = path[k].id => j = k
    PROVE  Ids(Front(path)) = Ids(path) \ {Last(path).id}
<1> DEFINE n == Len(path)
           shorter == Front(path)
<1>1. /\ n \in Nat \ {0} /\ Len(shorter) = n - 1
      /\ \A i \in 1..n - 1 : shorter[i] = path[i]
  BY Shorter
<1>2. /\ \A i \in 1..n : i \in 1..n - 1 \/ i = n
      /\ \A i \in 1..n - 1 : i \in 1..n /\ i # n
      /\ n \in 1..n
  BY <1>1
<1> HIDE DEF n, shorter
<1>3. \A i \in 1..n - 1 : path[i].id # path[n].id
  BY <1>2 DEF n
<1> QED
  BY <1>1, <1>2, <1>3 DEF Ids, Last, n, shorter

\* The world of the innermost call.
LEMMA WorldIs ==
    ASSUME NEW T, NEW path \in Seq(T), NEW r
    PROVE  (IF path = <<>> THEN r.input ELSE Last(path).output) = Start(r, path, Len(path) + 1)
<1>1. Len(path) \in Nat /\ (path # <<>> => Len(path) # 0) /\ Len(<<>>) = 0
  BY EmptySeq
<1> QED
  BY <1>1 DEF Start, Last

LEMMA FoundIsOK ==
    ASSUME NEW p, NEW r, NEW path, NEW seen, NEW next, SearchOK(p, r, path, seen, next, "enter")
    PROVE  SearchOK(p, r, path, seen, next, "return")
BY DEF SearchOK

LEMMA OpenIsOK ==
    ASSUME NEW p, NEW r, NEW path, NEW seen, NEW next, SearchOK(p, r, path, seen, next, "enter"),
           Start(r, path, Len(path) + 1) # r.output
    PROVE  SearchOK(p, r, path, seen, Append(next, 1), "loop")
<1>1. next \in Seq(Nat \ {0}) /\ Len(next) = Len(path)
  BY LenProperties DEF SearchOK
<1>2. Append(next, 1) \in Seq(Nat \ {0}) /\ Len(Append(next, 1)) = Len(path) + 1
  BY <1>1
<1> QED
  BY <1>2 DEF SearchOK

\* The index of the innermost loop goes on by one.
LEMMA IndexGoesOn ==
    ASSUME NEW next \in Seq(Nat \ {0}), NEW n \in Nat, Len(next) = n + 1
    PROVE  LET new == [next EXCEPT ![Len(next)] = @ + 1] IN
           /\ new \in Seq(Nat \ {0}) /\ Len(new) = Len(next)
           /\ next[Len(next)] \in Nat \ {0} /\ new[Len(next)] = next[Len(next)] + 1
           /\ \A i \in 1..n : new[i] = next[i]
<1> DEFINE c == next[Len(next)] + 1
           new == [next EXCEPT ![Len(next)] = c]
<1>1. Len(next) \in 1..Len(next) /\ next[Len(next)] \in Nat \ {0} /\ c \in Nat \ {0}
  BY ElementOfSeq
<1> HIDE DEF c
<1>2. /\ new \in Seq(Nat \ {0}) /\ Len(new) = Len(next)
      /\ \A j \in 1..Len(next) : new[j] = IF j = Len(next) THEN c ELSE next[j]
  BY <1>1, ExceptSeq
<1>3. \A i \in 1..n : i \in 1..Len(next) /\ i # Len(next)
  OBVIOUS
<1> QED
  BY <1>1, <1>2, <1>3 DEF c

LEMMA DescendIsOK ==
    ASSUME NEW p \in Packages, NEW r, NEW path, NEW seen, NEW next,
           SearchOK(p, r, path, seen, next, "loop"),
           NEW f \in Elements(p.phases), f.input = Start(r, path, Len(path) + 1), f.id \notin seen,
           NEW new \in Seq(Nat \ {0}), Len(new) = Len(next)
    PROVE  SearchOK(p, r, Append(path, f), seen \cup {f.id}, new, "enter")
<1> DEFINE n == Len(path)
           longer == Append(path, f)
<1>1. path \in Seq(Elements(p.phases)) /\ Len(next) = n + 1
  BY DEF SearchOK
<1>2. /\ longer \in Seq(Elements(p.phases)) /\ n \in Nat
      /\ Len(longer) = n + 1 /\ longer[n + 1] = f
      /\ \A i \in 1..n : longer[i] = path[i]
      /\ Ids(longer) = Ids(path) \cup {f.id}
  BY <1>1, Longer
<1> HIDE DEF longer
<1>3. \A i \in 1..n + 1 : Start(r, longer, i) = Start(r, path, i)
  BY <1>2, SameStart
<1>4. \A i \in 1..n + 1 : i \in 1..n \/ i = n + 1
  BY <1>2
<1>5. \A i \in 1..n + 1 : Start(r, longer, i) # r.output
  BY <1>3, <1>4 DEF SearchOK
<1>6. IsWalk(longer, r.input)
  <2>1. \A i \in 1..n + 1 : longer[i].input = Start(r, longer, i)
    <3>1. \A i \in 1..n : path[i].input = Start(r, path, i)
      BY DEF SearchOK, IsWalk, Start
    <3>2. f.input = Start(r, path, n + 1)
      OBVIOUS
    <3> HIDE DEF n
    <3>3. ASSUME NEW i \in 1..n + 1 PROVE longer[i].input = Start(r, longer, i)
      <4>1. CASE i \in 1..n
        BY <1>2, <1>3, <3>1, <4>1
      <4>2. CASE i = n + 1
        BY <1>2, <1>3, <3>2, <4>2
      <4> QED
        BY <1>4, <4>1, <4>2
    <3> QED
      BY <3>3
  <2>2. \A i \in 1..n : path[i].id # f.id
    BY DEF SearchOK, Ids
  <2>3. \A i, j \in 1..n : path[i].id = path[j].id => i = j
    BY DEF SearchOK, IsWalk
  <2>4. \A i, j \in 1..n + 1 : longer[i].id = longer[j].id => i = j
    BY <1>2, <1>4, <2>2, <2>3
  <2> HIDE DEF n
  <2> QED
    BY <1>2, <2>1, <2>4 DEF IsWalk, Start
<1>7. seen \cup {f.id} = Ids(longer)
  BY <1>2 DEF SearchOK
<1> HIDE DEF n
<1> QED
  BY <1>1, <1>2, <1>5, <1>6, <1>7 DEF SearchOK, longer

LEMMA SkipIsOK ==
    ASSUME NEW p, NEW r, NEW path, NEW seen, NEW next,
           SearchOK(p, r, path, seen, next, "loop"), NEW new \in Seq(Nat \ {0}), Len(new) = Len(next)
    PROVE  SearchOK(p, r, path, seen, new, "loop")
BY DEF SearchOK

LEMMA ExhaustedIsOK ==
    ASSUME NEW p, NEW r, NEW path, NEW seen, NEW next,
           SearchOK(p, r, path, seen, next, "loop")
    PROVE  SearchOK(p, r, path, seen, Front(next), "return")
<1>1. next \in Seq(Nat \ {0}) /\ Len(next) = Len(path) + 1 /\ Len(path) \in Nat
  BY LenProperties DEF SearchOK
<1>2. next # <<>>
  BY <1>1
<1>3. Front(next) \in Seq(Nat \ {0}) /\ Len(Front(next)) = Len(path)
  BY <1>1, <1>2, Shorter
<1> QED
  BY <1>3 DEF SearchOK

LEMMA ReturnIsOK ==
    ASSUME NEW p, NEW r, NEW path, NEW seen, NEW next,
           SearchOK(p, r, path, seen, next, "return"), path # <<>>
    PROVE  SearchOK(p, r, Front(path), seen \ {Last(path).id}, next, "loop")
<1> DEFINE n == Len(path) - 1
           shorter == Front(path)
<1>1. path \in Seq(Elements(p.phases)) /\ next \in Seq(Nat \ {0}) /\ Len(next) = Len(path)
  BY LenProperties DEF SearchOK
<1>2. /\ shorter \in Seq(Elements(p.phases)) /\ n \in Nat /\ Len(path) = n + 1 /\ Len(shorter) = n
      /\ \A i \in 1..n : shorter[i] = path[i]
  BY <1>1, Shorter
<1>3. \A i, j \in 1..n + 1 : path[i].id = path[j].id => i = j
  BY <1>2 DEF SearchOK, IsWalk
<1>4. seen \ {Last(path).id} = Ids(shorter)
  BY <1>1, <1>2, <1>3, IdsOfFront DEF SearchOK
<1> HIDE DEF n, shorter
<1>5. \A i \in 1..n + 1 : Start(r, shorter, i) = Start(r, path, i)
  BY <1>2, SameStart
<1>6. \A i \in 1..n : i \in 1..n + 1
  BY <1>2
<1>7. \A i \in 1..n + 1 : Start(r, shorter, i) # r.output
  BY <1>2, <1>5 DEF SearchOK
<1>8. n + 1 \in 1..n + 1
  BY <1>2
<1>9. IsWalk(shorter, r.input)
  <2>1. \A i \in 1..n : path[i].input = Start(r, path, i)
    BY <1>2, <1>6 DEF SearchOK, IsWalk, Start
  <2> QED
    BY <1>2, <1>3, <1>5, <1>6, <2>1 DEF IsWalk, Start
<1> QED
  BY <1>1, <1>2, <1>4, <1>6, <1>7, <1>8, <1>9 DEF SearchOK, shorter

-----------------------------------------------------------------------------
(* What passed validation                                                    *)

LEMMA NoDuplicates ==
    ASSUME NEW seq, Len(seq) \in Nat, Duplicates(seq) = {}
    PROVE  Distinct(seq) /\ Listed(seq) = Elements(seq)
<1>1. \A k \in 1..Len(seq) : \A j \in 1..(k - 1) : seq[j].id # seq[k].id
  BY DEF Duplicates
<1>2. ASSUME NEW j \in 1..Len(seq), NEW k \in 1..Len(seq), j # k PROVE seq[j].id # seq[k].id
  <2>1. j \in 1..(k - 1) \/ k \in 1..(j - 1)
    BY <1>2
  <2> QED
    BY <1>1, <2>1
<1>3. Listed(seq) = Elements(seq)
  BY <1>1 DEF Listed, Elements
<1> QED
  BY <1>2, <1>3 DEF Distinct

LEMMA NoReport == ASSUME NEW code, NEW subjects, Report(code, subjects) = {} PROVE subjects = {}
<1> SUFFICES ASSUME NEW s \in subjects PROVE FALSE
  OBVIOUS
<1>1. <<code, s>> \in Report(code, subjects)
  BY DEF Report
<1> QED
  BY <1>1

\* The machines that fit a phase.
Fits(p, f, m) ==
    /\ m.id = f.machine /\ m.input = f.input /\ m.output = f.output
    /\ m.diagnostics = f.diagnostics

LEMMA ValidMeans ==
    ASSUME NEW p \in Packages, Diagnostics(p) = {}
    PROVE  /\ Distinct(p.phases) /\ Distinct(p.machines)
           /\ \A f \in Elements(p.phases) : \E k \in 1..Len(p.machines) : Fits(p, f, p.machines[k])
<1>1. /\ Report("E_DUPLICATE_MACHINE", Duplicates(p.machines)) = {}
      /\ Report("E_DUPLICATE_PHASE", Duplicates(p.phases)) = {}
      /\ Report("E_UNKNOWN_MACHINE", UnknownMachines(p)) = {}
      /\ Report("E_PHASE_MACHINE_INPUT_MISMATCH", Mismatches(p, "input")) = {}
      /\ Report("E_PHASE_MACHINE_OUTPUT_MISMATCH", Mismatches(p, "output")) = {}
      /\ Report("E_PHASE_MACHINE_DIAGNOSTICS_MISMATCH", Mismatches(p, "diagnostics")) = {}
  BY DEF Diagnostics
<1>2. /\ Duplicates(p.machines) = {} /\ Duplicates(p.phases) = {} /\ UnknownMachines(p) = {}
      /\ Mismatches(p, "input") = {} /\ Mismatches(p, "output") = {}
      /\ Mismatches(p, "diagnostics") = {}
  BY <1>1, NoReport
<1>3. /\ Distinct(p.machines) /\ Listed(p.machines) = Elements(p.machines)
      /\ Distinct(p.phases) /\ Listed(p.phases) = Elements(p.phases)
  <2>1. Len(p.machines) \in Nat /\ Len(p.phases) \in Nat
    BY PackagesAssumption, LenProperties
  <2> QED
    BY <1>2, <2>1, NoDuplicates
<1>4. ASSUME NEW f \in Elements(p.phases)
      PROVE  \E k \in 1..Len(p.machines) : Fits(p, f, p.machines[k])
  <2>1. f \in Listed(p.phases) /\ f.machine \in Ids(p.machines)
    BY <1>2, <1>3 DEF UnknownMachines
  <2>2. PICK k \in 1..Len(p.machines) : p.machines[k].id = f.machine
    BY <2>1 DEF Ids
  <2>3. p.machines[k] \in NamedBy(p, f)
    BY <1>3, <2>2 DEF NamedBy, Elements
  <2>4. f.input = p.machines[k].input
    <3>1. f["input"] = p.machines[k]["input"]
      BY <1>2, <2>1, <2>3 DEF Mismatches
    <3> QED
      BY <3>1
  <2>5. f.output = p.machines[k].output
    <3>1. f["output"] = p.machines[k]["output"]
      BY <1>2, <2>1, <2>3 DEF Mismatches
    <3> QED
      BY <3>1
  <2>6. f.diagnostics = p.machines[k].diagnostics
    <3>1. f["diagnostics"] = p.machines[k]["diagnostics"]
      BY <1>2, <2>1, <2>3 DEF Mismatches
    <3> QED
      BY <3>1
  <2> QED
    BY <2>2, <2>4, <2>5, <2>6 DEF Fits
<1> QED
  BY <1>3, <1>4

\* A phase of a valid package has one machine, and the planner finds it.
LEMMA MachineFits ==
    ASSUME package \in Packages, Diagnostics(package) = {}, NEW f \in Elements(package.phases)
    PROVE  MachineOf(f) # Nil /\ Fits(package, f, MachineOf(f))
<1> DEFINE ms == package.machines
           ks == {k \in 1..Len(ms) : ms[k].id = f.machine}
<1>1. PICK k \in 1..Len(ms) : Fits(package, f, ms[k])
  BY ValidMeans
<1>2. ks = {k}
  <2>1. Distinct(ms)
    BY ValidMeans
  <2> QED
    BY <1>1, <2>1 DEF Distinct, Fits
<1>3. Len(ms) \in Nat /\ k \in Nat
  BY PackagesAssumption, LenProperties
<1>4. MachineOf(f) = ms[CHOOSE i \in {k} : \A j \in {k} : j <= i]
  BY <1>2 DEF MachineOf
<1>5. (CHOOSE i \in {k} : \A j \in {k} : j <= i) = k
  BY <1>3
<1>6. ms[k] # Nil
  BY PackagesAssumption DEF Elements
<1> QED
  BY <1>1, <1>4, <1>5, <1>6

-----------------------------------------------------------------------------
(* The plan                                                                  *)

\* What PlanConnects says of the steps of a plan.
Connects(steps, r) ==
    /\ \A k \in 1..Len(steps) :
           /\ steps[k].machine.input = steps[k].input
           /\ steps[k].machine.output = steps[k].output
           /\ steps[k].machine.diagnostics = steps[k].diagnostics
           /\ steps[k].input = IF k = 1 THEN r.input ELSE steps[k - 1].output
    /\ r.output = IF steps = <<>> THEN r.input ELSE Last(steps).output

LEMMA WayConnects ==
    ASSUME package \in Packages, Diagnostics(package) = {}, NEW w, Way(package, root, w)
    PROVE  Connects([k \in 1..Len(w) |-> Step(w[k])], root)
<1> DEFINE n == Len(w)
           steps == [k \in 1..n |-> Step(w[k])]
<1>1. w \in Seq(Elements(package.phases)) /\ n \in Nat /\ \A k \in 1..n : w[k] \in Elements(package.phases)
  BY LenProperties, ElementOfSeq DEF Way
<1>2. \A k \in 1..n : steps[k] = Step(w[k])
  OBVIOUS
<1>3. steps \in Seq({Step(w[k]) : k \in 1..n}) /\ Len(steps) = n
  <2>1. steps \in [1..n -> {Step(w[k]) : k \in 1..n}]
    OBVIOUS
  <2> HIDE DEF steps
  <2> QED
    BY <1>1, <2>1, SeqDef, LenProperties
<1> HIDE DEF steps, n
<1>4. \A k \in 1..n : /\ steps[k].machine = MachineOf(w[k])
                      /\ steps[k].input = w[k].input
                      /\ steps[k].output = w[k].output
                      /\ steps[k].diagnostics = w[k].diagnostics
  <2> SUFFICES ASSUME NEW k \in 1..n
               PROVE  /\ steps[k].machine = MachineOf(w[k])
                      /\ steps[k].input = w[k].input
                      /\ steps[k].output = w[k].output
                      /\ steps[k].diagnostics = w[k].diagnostics
    OBVIOUS
  <2>1. steps[k] = Step(w[k])
    BY <1>2
  <2> QED
    BY <2>1 DEF Step
<1>5. \A k \in 1..n : /\ steps[k].machine.input = steps[k].input
                      /\ steps[k].machine.output = steps[k].output
                      /\ steps[k].machine.diagnostics = steps[k].diagnostics
  BY <1>1, <1>4, MachineFits DEF Fits
<1>6. \A k \in 1..n : steps[k].input = IF k = 1 THEN root.input ELSE steps[k - 1].output
  <2> SUFFICES ASSUME NEW k \in 1..n
               PROVE  steps[k].input = IF k = 1 THEN root.input ELSE steps[k - 1].output
    OBVIOUS
  <2>1. w[k].input = IF k = 1 THEN root.input ELSE w[k - 1].output
    BY DEF Way, IsWalk, n
  <2>2. k # 1 => k - 1 \in 1..n
    BY <1>1
  <2> QED
    BY <1>4, <2>1, <2>2
<1>7. root.output = IF steps = <<>> THEN root.input ELSE Last(steps).output
  <2>1. root.output = IF n + 1 = 1 THEN root.input ELSE w[(n + 1) - 1].output
    BY DEF Way, Start, n
  <2>2. steps = <<>> <=> n = 0
    BY <1>3, EmptySeq
  <2>3. n # 0 => n \in 1..n /\ (n + 1) - 1 = n
    BY <1>1
  <2> QED
    BY <1>1, <1>3, <1>4, <2>1, <2>2, <2>3 DEF Last
<1> QED
  BY <1>3, <1>5, <1>6, <1>7 DEF Connects, steps, n

-----------------------------------------------------------------------------
(* The invariant                                                             *)

Places == {"validate", "root", "enter", "loop", "return", "plan", "done"}
Searching == {"enter", "loop", "return", "plan"}

\* The search is where its path says; once the package is known to be valid,
\* what was found is what is not left; a plan connects.
PlanInv ==
    /\ package \in Packages /\ at \in Places
    /\ DOMAIN dfs = {"path", "seen", "next", "paths"}
    /\ SearchOK(package, root, dfs.path, dfs.seen, dfs.next, at)
    /\ at \in {"validate", "root"} => dfs = NoSearch
    /\ at # "done" => plan = Nil
    /\ at \notin {"validate", "done"} => Diagnostics(package) = {}
    /\ at \in Searching => FindOK(package, root, dfs.path, dfs.next, dfs.paths, at)
    /\ plan # Nil => Connects(plan, root)

LEMMA NoSearchOK ==
    ASSUME NEW p, NEW r, NEW a, a \notin {"loop", "plan"}
    PROVE  SearchOK(p, r, <<>>, {}, <<>>, a)
<1>1. /\ <<>> \in Seq(Elements(p.phases)) /\ <<>> \in Seq(Nat \ {0})
      /\ Len(<<>>) = 0 /\ 1..0 = {}
  BY EmptySeq
<1> QED
  BY <1>1 DEF SearchOK, IsWalk, Ids

LEMMA NothingFoundYet ==
    ASSUME NEW p, NEW r
    PROVE  FindOK(p, r, <<>>, <<>>, <<>>, "enter")
<1>1. /\ <<>> \in Seq(Seq(Elements(p.phases)))
      /\ Len(<<>>) = 0 /\ 1..0 = {}
  BY EmptySeq
<1>2. \A w \in Seq(Elements(p.phases)) : Agrees(w, <<>>, Len(<<>>))
  BY <1>1, LenProperties DEF Agrees
<1>3. \A w : w \notin Elements(<<>>)
  BY <1>1 DEF Elements
<1>4. Exact(p, r, <<>>, <<>>, TRUE, <<>>)
  BY <1>2, <1>3 DEF Exact, Left
<1> QED
  BY <1>1, <1>4 DEF FindOK, Taken

LEMMA PlanInit == Init => PlanInv
<1> SUFFICES ASSUME Init PROVE PlanInv
  OBVIOUS
<1>1. /\ package \in Packages /\ at = "validate" /\ plan = Nil
      /\ dfs = NoSearch /\ dfs.path = <<>> /\ dfs.seen = {} /\ dfs.next = <<>>
      /\ DOMAIN dfs = {"path", "seen", "next", "paths"}
  BY DEF Init, NoSearch
<1>2. SearchOK(package, root, <<>>, {}, <<>>, "validate")
  BY NoSearchOK
<1> QED
  BY <1>1, <1>2 DEF PlanInv, Places, Searching

LEMMA ValidateKeeps == PlanInv /\ Validate => PlanInv'
<1> SUFFICES ASSUME PlanInv, Validate PROVE PlanInv'
  OBVIOUS
<1>1. /\ at = "validate" /\ dfs = NoSearch /\ dfs' = dfs /\ package' = package /\ root' = root
      /\ plan' = plan
      /\ at' \in {"root", "done"} /\ (at' = "root" => Diagnostics(package) = {})
  BY DEF Validate, PlanInv
<1>2. dfs.path = <<>> /\ dfs.seen = {} /\ dfs.next = <<>>
  BY <1>1 DEF NoSearch
<1>3. SearchOK(package, root, <<>>, {}, <<>>, at')
  BY <1>1, NoSearchOK
<1>4. plan' = Nil
  BY <1>1 DEF PlanInv
<1>5. at' # "done" => Diagnostics(package') = {}
  BY <1>1
<1>6. package' \in Packages
  BY <1>1 DEF PlanInv
<1> QED
  BY <1>1, <1>2, <1>3, <1>4, <1>5, <1>6 DEF PlanInv, Places, Searching

LEMMA SelectRootKeeps == PlanInv /\ SelectRoot => PlanInv'
<1> SUFFICES ASSUME PlanInv, SelectRoot PROVE PlanInv'
  OBVIOUS
<1>1. /\ at = "root" /\ dfs = NoSearch /\ dfs' = dfs /\ package' = package
      /\ plan' = plan /\ plan = Nil /\ package \in Packages /\ Diagnostics(package) = {}
      /\ at' \in {"enter", "done"}
  BY DEF SelectRoot, Refuse, PlanInv
<1>2. dfs.path = <<>> /\ dfs.seen = {} /\ dfs.next = <<>> /\ dfs.paths = <<>>
  BY <1>1 DEF NoSearch
<1>3. SearchOK(package, root', <<>>, {}, <<>>, at')
  BY <1>1, NoSearchOK
<1>4. FindOK(package, root', <<>>, <<>>, <<>>, "enter")
  BY NothingFoundYet
<1>5. DOMAIN dfs = {"path", "seen", "next", "paths"}
  BY DEF PlanInv
<1> QED
  BY <1>1, <1>2, <1>3, <1>4, <1>5 DEF PlanInv, Places, Searching

\* A step of the search: what it has to show.
LEMMA SearchKeeps ==
    ASSUME PlanInv, at \in Searching, NEW next, NEW goto, Search(next, goto), goto \in Searching,
           DOMAIN next = {"path", "seen", "next", "paths"},
           SearchOK(package, root, next.path, next.seen, next.next, goto),
           FindOK(package, root, next.path, next.next, next.paths, goto)
    PROVE  PlanInv'
<1>1. /\ dfs' = next /\ at' = goto /\ package' = package /\ root' = root /\ plan' = plan
  BY DEF Search
<1>2. package \in Packages /\ Diagnostics(package) = {} /\ plan = Nil
  BY DEF PlanInv, Searching
<1> QED
  BY <1>1, <1>2 DEF PlanInv, Places, Searching

\* What every step of the search knows.
LEMMA SearchKnows ==
    ASSUME PlanInv, at \in Searching
    PROVE  /\ package \in Packages /\ Distinct(package.phases)
           /\ DOMAIN dfs = {"path", "seen", "next", "paths"}
           /\ SearchOK(package, root, dfs.path, dfs.seen, dfs.next, at)
           /\ FindOK(package, root, dfs.path, dfs.next, dfs.paths, at)
           /\ dfs.path \in Seq(Elements(package.phases)) /\ Len(dfs.path) \in Nat
           /\ dfs.next \in Seq(Nat \ {0})
           /\ dfs.paths \in Seq(Seq(Elements(package.phases)))
           /\ World = Start(root, dfs.path, Len(dfs.path) + 1)
           /\ Candidates = Choices(package, root, dfs.path, Len(dfs.path) + 1)
<1>1. /\ package \in Packages /\ Diagnostics(package) = {}
      /\ DOMAIN dfs = {"path", "seen", "next", "paths"}
      /\ SearchOK(package, root, dfs.path, dfs.seen, dfs.next, at)
      /\ FindOK(package, root, dfs.path, dfs.next, dfs.paths, at)
  BY DEF PlanInv, Searching
<1>2. dfs.path \in Seq(Elements(package.phases)) /\ dfs.next \in Seq(Nat \ {0})
      /\ dfs.paths \in Seq(Seq(Elements(package.phases)))
  BY <1>1 DEF SearchOK, FindOK
<1>3. World = Start(root, dfs.path, Len(dfs.path) + 1)
  BY <1>2, WorldIs DEF World
<1> QED
  BY <1>1, <1>2, <1>3, ValidMeans, LenProperties DEF Candidates, Choices

LEMMA FoundKeeps == PlanInv /\ DfsFound => PlanInv'
<1> SUFFICES ASSUME PlanInv, DfsFound PROVE PlanInv'
  OBVIOUS
<1> DEFINE path == dfs.path
           P == Elements(package.phases)
           new == [dfs EXCEPT !.paths = Append(@, path)]
<1>1. at = "enter" /\ at \in Searching /\ World = root.output /\ Search(new, "return")
  BY DEF DfsFound, Searching
<1>2. /\ package \in Packages /\ Distinct(package.phases)
      /\ DOMAIN dfs = {"path", "seen", "next", "paths"}
      /\ SearchOK(package, root, dfs.path, dfs.seen, dfs.next, "enter")
      /\ FindOK(package, root, dfs.path, dfs.next, dfs.paths, "enter")
      /\ dfs.path \in Seq(P) /\ dfs.next \in Seq(Nat \ {0}) /\ dfs.paths \in Seq(Seq(P))
      /\ Start(root, dfs.path, Len(dfs.path) + 1) = root.output
  BY <1>1, SearchKnows
<1>3. /\ new.path = dfs.path /\ new.seen = dfs.seen /\ new.next = dfs.next
      /\ new.paths = Append(dfs.paths, dfs.path)
      /\ DOMAIN new = {"path", "seen", "next", "paths"}
  BY <1>2
<1> HIDE DEF new, path, P
<1>4. Way(package, root, dfs.path)
  BY <1>2 DEF SearchOK, Way, P
<1>5. /\ Exact(package, root, dfs.path, dfs.next, FALSE, Append(dfs.paths, dfs.path))
      /\ dfs.path \notin Elements(dfs.paths)
  <2>1. Len(dfs.next) = Len(dfs.path)
    BY <1>2, LenProperties DEF SearchOK
  <2>2. Exact(package, root, dfs.path, dfs.next, TRUE, dfs.paths)
    BY <1>2 DEF FindOK
  <2>3. Taken(package, root, dfs.path, dfs.next)
    BY <1>2 DEF FindOK
  <2> QED
    BY <1>2, <1>4, <2>1, <2>2, <2>3, FoundIsExact DEF P
<1>6. FindOK(package, root, dfs.path, dfs.next, Append(dfs.paths, dfs.path), "return")
  <2> DEFINE m == Len(dfs.paths)
             more == Append(dfs.paths, dfs.path)
  <2>1. /\ m \in Nat /\ more \in Seq(Seq(P)) /\ Len(more) = m + 1 /\ more[m + 1] = dfs.path
        /\ \A i \in 1..m : more[i] = dfs.paths[i]
    BY <1>2
  <2> HIDE DEF more
  <2>2. \A i \in 1..m + 1 : i \in 1..m \/ i = m + 1
    BY <2>1
  <2>3. \A k \in 1..m : Way(package, root, dfs.paths[k])
    BY <1>2 DEF FindOK
  <2>4. \A j, k \in 1..m : dfs.paths[j] = dfs.paths[k] => j = k
    BY <1>2 DEF FindOK
  <2>5. \A k \in 1..m : dfs.paths[k] # dfs.path
    BY <1>5 DEF Elements
  <2> HIDE DEF m
  <2>6. \A k \in 1..Len(more) : Way(package, root, more[k])
    BY <1>4, <2>1, <2>2, <2>3
  <2>7. \A j, k \in 1..Len(more) : more[j] = more[k] => j = k
    BY <2>1, <2>2, <2>4, <2>5
  <2>8. Taken(package, root, dfs.path, dfs.next)
    BY <1>2 DEF FindOK
  <2>9. Exact(package, root, dfs.path, dfs.next, "return" = "enter", more)
    BY <1>5 DEF more
  <2> QED
    BY <2>1, <2>6, <2>7, <2>8, <2>9 DEF FindOK, more, P
<1>7. SearchOK(package, root, dfs.path, dfs.seen, dfs.next, "return")
  BY <1>2, FoundIsOK
<1>8. "return" \in Searching
  BY DEF Searching
<1> QED
  BY <1>1, <1>3, <1>6, <1>7, <1>8, SearchKeeps

LEMMA OpenKeeps == PlanInv /\ DfsOpen => PlanInv'
<1> SUFFICES ASSUME PlanInv, DfsOpen PROVE PlanInv'
  OBVIOUS
<1> DEFINE P == Elements(package.phases)
           new == [dfs EXCEPT !.next = Append(@, FirstIndex)]
           opened == Append(dfs.next, 1)
<1>1. at = "enter" /\ at \in Searching /\ World # root.output /\ Search(new, "loop")
  BY DEF DfsOpen, Searching
<1>2. /\ package \in Packages
      /\ DOMAIN dfs = {"path", "seen", "next", "paths"}
      /\ SearchOK(package, root, dfs.path, dfs.seen, dfs.next, "enter")
      /\ FindOK(package, root, dfs.path, dfs.next, dfs.paths, "enter")
      /\ dfs.path \in Seq(P) /\ dfs.next \in Seq(Nat \ {0}) /\ dfs.paths \in Seq(Seq(P))
      /\ Start(root, dfs.path, Len(dfs.path) + 1) # root.output
  BY <1>1, SearchKnows
<1>3. /\ new.path = dfs.path /\ new.seen = dfs.seen /\ new.next = opened
      /\ new.paths = dfs.paths
      /\ DOMAIN new = {"path", "seen", "next", "paths"}
  BY <1>2 DEF FirstIndex
<1> HIDE DEF new, P
<1>4. Len(dfs.next) = Len(dfs.path) /\ Len(dfs.path) \in Nat
  BY <1>2, LenProperties DEF SearchOK
<1>5. Exact(package, root, dfs.path, opened, FALSE, dfs.paths)
  <2>1. Exact(package, root, dfs.path, dfs.next, TRUE, dfs.paths)
    BY <1>2 DEF FindOK
  <2> QED
    BY <1>2, <1>4, <2>1, OpenIsExact DEF P
<1>6. Taken(package, root, dfs.path, opened)
  <2>1. Taken(package, root, dfs.path, dfs.next)
    BY <1>2 DEF FindOK
  <2>2. \A i \in 1..Len(dfs.path) : opened[i] = dfs.next[i]
    BY <1>2, <1>4
  <2> HIDE DEF opened
  <2> QED
    BY <2>1, <2>2 DEF Taken
<1> HIDE DEF opened
<1>7. FindOK(package, root, dfs.path, opened, dfs.paths, "loop")
  <2>1. Exact(package, root, dfs.path, opened, "loop" = "enter", dfs.paths)
    BY <1>5
  <2> QED
    BY <1>2, <1>6, <2>1 DEF FindOK
<1>8. SearchOK(package, root, dfs.path, dfs.seen, opened, "loop")
  BY <1>2, OpenIsOK DEF opened
<1>9. "loop" \in Searching
  BY DEF Searching
<1> QED
  BY <1>1, <1>3, <1>7, <1>8, <1>9, SearchKeeps

\* What the head of the innermost loop knows.
LEMMA LoopKnows ==
    ASSUME PlanInv, at = "loop", Last(dfs.next) <= Len(Candidates)
    PROVE  /\ Last(dfs.next) \in 1..Len(Candidates) /\ dfs.next[Len(dfs.next)] = Last(dfs.next)
           /\ Len(dfs.next) = Len(dfs.path) + 1
           /\ NextIndex \in Seq(Nat \ {0}) /\ Len(NextIndex) = Len(dfs.next)
           /\ NextIndex[Len(dfs.next)] = Last(dfs.next) + 1
           /\ \A i \in 1..Len(dfs.path) : NextIndex[i] = dfs.next[i]
<1>1. dfs.next \in Seq(Nat \ {0}) /\ Len(dfs.path) \in Nat /\ Len(dfs.next) = Len(dfs.path) + 1
  BY SearchKnows DEF SearchOK, Searching
<1>2. /\ NextIndex \in Seq(Nat \ {0}) /\ Len(NextIndex) = Len(dfs.next)
      /\ dfs.next[Len(dfs.next)] \in Nat \ {0}
      /\ NextIndex[Len(dfs.next)] = dfs.next[Len(dfs.next)] + 1
      /\ \A i \in 1..Len(dfs.path) : NextIndex[i] = dfs.next[i]
  BY <1>1, IndexGoesOn DEF NextIndex
<1>3. Candidates \in Seq(Elements(package.phases))
  <2>1. PhasesFrom(Candidates, package, World)
    BY SearchKnows, PhasesByInputAre DEF Candidates, Searching
  <2> QED
    BY <2>1 DEF PhasesFrom
<1>4. Len(Candidates) \in Nat
  BY <1>3, LenProperties
<1> QED
  BY <1>1, <1>2, <1>4 DEF Last

LEMMA DescendKeeps == PlanInv /\ DfsDescend => PlanInv'
<1> SUFFICES ASSUME PlanInv, DfsDescend PROVE PlanInv'
  OBVIOUS
<1> DEFINE P == Elements(package.phases)
           n == Len(dfs.path)
           c == Last(dfs.next)
           f == Candidate
           new == [dfs EXCEPT !.next = NextIndex, !.seen = @ \cup {f.id}, !.path = Append(@, f)]
           longer == Append(dfs.path, f)
<1>1. /\ at = "loop" /\ at \in Searching /\ Last(dfs.next) <= Len(Candidates)
      /\ f.id \notin dfs.seen /\ Search(new, "enter")
  BY DEF DfsDescend, Searching
<1>2. /\ package \in Packages
      /\ DOMAIN dfs = {"path", "seen", "next", "paths"}
      /\ SearchOK(package, root, dfs.path, dfs.seen, dfs.next, "loop")
      /\ FindOK(package, root, dfs.path, dfs.next, dfs.paths, "loop")
      /\ dfs.path \in Seq(P) /\ n \in Nat /\ dfs.next \in Seq(Nat \ {0})
      /\ World = Start(root, dfs.path, n + 1)
      /\ Candidates = Choices(package, root, dfs.path, n + 1)
  BY <1>1, SearchKnows
<1>3. /\ c \in 1..Len(Candidates) /\ dfs.next[Len(dfs.next)] = c
      /\ Len(dfs.next) = n + 1
      /\ NextIndex \in Seq(Nat \ {0}) /\ Len(NextIndex) = Len(dfs.next)
      /\ NextIndex[Len(dfs.next)] = c + 1
      /\ \A i \in 1..n : NextIndex[i] = dfs.next[i]
  BY <1>1, LoopKnows
<1>4. f = Candidates[c] /\ f \in P /\ f.input = World
  <2>1. PhasesFrom(Candidates, package, World)
    BY <1>2, PhasesByInputAre DEF Candidates
  <2>2. f = Candidates[c]
    BY DEF Candidate
  <2> QED
    BY <1>3, <2>1, <2>2 DEF PhasesFrom
<1>5. /\ new.path = longer /\ new.seen = dfs.seen \cup {f.id} /\ new.next = NextIndex
      /\ new.paths = dfs.paths
      /\ DOMAIN new = {"path", "seen", "next", "paths"}
  BY <1>2
<1> HIDE DEF new, P, c, f
<1>6. SearchOK(package, root, longer, dfs.seen \cup {f.id}, NextIndex, "enter")
  BY <1>1, <1>2, <1>3, <1>4, DescendIsOK DEF P
<1>7. /\ Len(longer) = n + 1 /\ longer[n + 1] = f
      /\ \A i \in 1..n : longer[i] = dfs.path[i]
  BY <1>2, <1>4, Longer
<1> HIDE DEF longer, n
<1>8. Exact(package, root, longer, NextIndex, TRUE, dfs.paths)
  <2>1. Exact(package, root, dfs.path, dfs.next, FALSE, dfs.paths)
    BY <1>2 DEF FindOK
  <2>2. longer[n + 1] = Choices(package, root, dfs.path, n + 1)[c]
        /\ c \in 1..Len(Choices(package, root, dfs.path, n + 1))
    BY <1>2, <1>3, <1>4, <1>7
  <2> QED
    BY <1>2, <1>3, <1>7, <2>1, <2>2, DescendIsExact DEF P, n
<1>9. Taken(package, root, longer, NextIndex)
  <2> SUFFICES ASSUME NEW i \in 1..n + 1
               PROVE  /\ NextIndex[i] - 1 \in 1..Len(Choices(package, root, longer, i))
                      /\ longer[i] = Choices(package, root, longer, i)[NextIndex[i] - 1]
    BY <1>7 DEF Taken
  <2>1. Choices(package, root, longer, i) = Choices(package, root, dfs.path, i)
    BY <1>2, <1>7, SameStart DEF Choices
  <2>2. CASE i \in 1..n
    BY <1>2, <1>3, <1>7, <2>1, <2>2 DEF FindOK, Taken, n
  <2>3. CASE i = n + 1
    <3>1. NextIndex[i] = c + 1 /\ c + 1 - 1 = c
      BY <1>3, <2>3
    <3> QED
      BY <1>2, <1>3, <1>4, <1>7, <2>1, <2>3, <3>1
  <2> QED
    BY <1>2, <2>2, <2>3
<1>10. FindOK(package, root, longer, NextIndex, dfs.paths, "enter")
  <2>1. Exact(package, root, longer, NextIndex, "enter" = "enter", dfs.paths)
    BY <1>8
  <2> QED
    BY <1>2, <1>9, <2>1 DEF FindOK
<1>11. "enter" \in Searching
  BY DEF Searching
<1> QED
  BY <1>1, <1>5, <1>6, <1>10, <1>11, SearchKeeps

LEMMA SkipKeeps == PlanInv /\ DfsSkip => PlanInv'
<1> SUFFICES ASSUME PlanInv, DfsSkip PROVE PlanInv'
  OBVIOUS
<1> DEFINE n == Len(dfs.path)
           c == Last(dfs.next)
           new == [dfs EXCEPT !.next = NextIndex]
<1>1. /\ at = "loop" /\ at \in Searching /\ Last(dfs.next) <= Len(Candidates)
      /\ Candidate.id \in dfs.seen /\ Search(new, "loop")
  BY DEF DfsSkip, Searching
<1>2. /\ package \in Packages
      /\ DOMAIN dfs = {"path", "seen", "next", "paths"}
      /\ SearchOK(package, root, dfs.path, dfs.seen, dfs.next, "loop")
      /\ FindOK(package, root, dfs.path, dfs.next, dfs.paths, "loop")
      /\ dfs.path \in Seq(Elements(package.phases)) /\ n \in Nat /\ dfs.next \in Seq(Nat \ {0})
      /\ Candidates = Choices(package, root, dfs.path, n + 1)
  BY <1>1, SearchKnows
<1>3. /\ c \in 1..Len(Candidates) /\ dfs.next[Len(dfs.next)] = c
      /\ Len(dfs.next) = n + 1
      /\ NextIndex \in Seq(Nat \ {0}) /\ Len(NextIndex) = Len(dfs.next)
      /\ NextIndex[Len(dfs.next)] = c + 1
      /\ \A i \in 1..n : NextIndex[i] = dfs.next[i]
  BY <1>1, LoopKnows
<1>4. /\ new.path = dfs.path /\ new.seen = dfs.seen /\ new.next = NextIndex
      /\ new.paths = dfs.paths
      /\ DOMAIN new = {"path", "seen", "next", "paths"}
  BY <1>2
<1>5. Choices(package, root, dfs.path, n + 1)[c].id \in Ids(dfs.path)
  BY <1>1, <1>2 DEF Candidate, SearchOK
<1> HIDE DEF new, c
<1>6. SearchOK(package, root, dfs.path, dfs.seen, NextIndex, "loop")
  BY <1>2, <1>3, SkipIsOK
<1>7. Exact(package, root, dfs.path, NextIndex, FALSE, dfs.paths)
  <2>1. Exact(package, root, dfs.path, dfs.next, FALSE, dfs.paths)
    BY <1>2 DEF FindOK
  <2>2. c \in 1..Len(Choices(package, root, dfs.path, n + 1))
    BY <1>2, <1>3
  <2> QED
    BY <1>2, <1>3, <1>5, <2>1, <2>2, SkipIsExact
<1>8. Taken(package, root, dfs.path, NextIndex)
  BY <1>2, <1>3 DEF FindOK, Taken
<1>9. FindOK(package, root, dfs.path, NextIndex, dfs.paths, "loop")
  <2>1. Exact(package, root, dfs.path, NextIndex, "loop" = "enter", dfs.paths)
    BY <1>7
  <2> QED
    BY <1>2, <1>8, <2>1 DEF FindOK
<1> QED
  BY <1>1, <1>4, <1>6, <1>9, SearchKeeps

LEMMA ExhaustedKeeps == PlanInv /\ DfsExhausted => PlanInv'
<1> SUFFICES ASSUME PlanInv, DfsExhausted PROVE PlanInv'
  OBVIOUS
<1> DEFINE n == Len(dfs.path)
           new == [dfs EXCEPT !.next = Front(@)]
           outer == Front(dfs.next)
<1>1. /\ at = "loop" /\ at \in Searching /\ Last(dfs.next) > Len(Candidates)
      /\ Search(new, "return")
  BY DEF DfsExhausted, Searching
<1>2. /\ package \in Packages
      /\ DOMAIN dfs = {"path", "seen", "next", "paths"}
      /\ SearchOK(package, root, dfs.path, dfs.seen, dfs.next, "loop")
      /\ FindOK(package, root, dfs.path, dfs.next, dfs.paths, "loop")
      /\ dfs.path \in Seq(Elements(package.phases)) /\ n \in Nat /\ dfs.next \in Seq(Nat \ {0})
      /\ Candidates = Choices(package, root, dfs.path, n + 1)
  BY <1>1, SearchKnows
<1>3. Len(dfs.next) = n + 1
  BY <1>2 DEF SearchOK
<1>4. dfs.next # <<>>
  BY <1>2, <1>3
<1>5. Len(outer) = n /\ \A i \in 1..n : outer[i] = dfs.next[i]
  BY <1>2, <1>3, <1>4, Shorter
<1>6. /\ new.path = dfs.path /\ new.seen = dfs.seen /\ new.next = outer
      /\ new.paths = dfs.paths
      /\ DOMAIN new = {"path", "seen", "next", "paths"}
  BY <1>2
<1>7. dfs.next[Len(dfs.next)] > Len(Choices(package, root, dfs.path, n + 1))
  BY <1>1, <1>2 DEF Last
<1>8. SearchOK(package, root, dfs.path, dfs.seen, outer, "return")
  BY <1>2, ExhaustedIsOK
<1> HIDE DEF new, outer
<1>9. Exact(package, root, dfs.path, outer, FALSE, dfs.paths)
  <2>1. Exact(package, root, dfs.path, dfs.next, FALSE, dfs.paths)
    BY <1>2 DEF FindOK
  <2> QED
    BY <1>2, <1>3, <1>5, <1>7, <2>1, ExhaustedIsExact
<1>10. Taken(package, root, dfs.path, outer)
  BY <1>2, <1>5 DEF FindOK, Taken
<1>11. FindOK(package, root, dfs.path, outer, dfs.paths, "return")
  <2>1. Exact(package, root, dfs.path, outer, "return" = "enter", dfs.paths)
    BY <1>9
  <2> QED
    BY <1>2, <1>10, <2>1 DEF FindOK
<1>12. "return" \in Searching
  BY DEF Searching
<1> QED
  BY <1>1, <1>6, <1>8, <1>11, <1>12, SearchKeeps

LEMMA ReturnKeeps == PlanInv /\ DfsReturn => PlanInv'
<1> SUFFICES ASSUME PlanInv, DfsReturn PROVE PlanInv'
  OBVIOUS
<1>1. at = "return" /\ at \in Searching
  BY DEF DfsReturn, Searching
<1>2. /\ package \in Packages
      /\ DOMAIN dfs = {"path", "seen", "next", "paths"}
      /\ SearchOK(package, root, dfs.path, dfs.seen, dfs.next, "return")
      /\ FindOK(package, root, dfs.path, dfs.next, dfs.paths, "return")
      /\ dfs.path \in Seq(Elements(package.phases)) /\ Len(dfs.path) \in Nat
  BY <1>1, SearchKnows
<1>3. /\ Len(dfs.next) = Len(dfs.path)
      /\ Taken(package, root, dfs.path, dfs.next)
      /\ Exact(package, root, dfs.path, dfs.next, FALSE, dfs.paths)
  <2>1. Exact(package, root, dfs.path, dfs.next, "return" = "enter", dfs.paths)
    BY <1>2 DEF FindOK
  <2>2. ("return" = "enter") = FALSE
    OBVIOUS
  <2>3. Exact(package, root, dfs.path, dfs.next, FALSE, dfs.paths)
    BY <2>1, <2>2
  <2>4. Len(dfs.next) = Len(dfs.path)
    BY <1>2 DEF SearchOK
  <2>5. Taken(package, root, dfs.path, dfs.next)
    BY <1>2 DEF FindOK
  <2> QED
    BY <2>3, <2>4, <2>5
<1>4. CASE dfs.path = <<>> /\ Search(dfs, "plan")
  <2>1. SearchOK(package, root, dfs.path, dfs.seen, dfs.next, "plan")
    BY <1>2, <1>4 DEF SearchOK
  <2>2. FindOK(package, root, dfs.path, dfs.next, dfs.paths, "plan")
    <3>1. Exact(package, root, dfs.path, dfs.next, "plan" = "enter", dfs.paths)
      BY <1>3
    <3> QED
      BY <1>2, <3>1 DEF FindOK
  <2>3. "plan" \in Searching
    BY DEF Searching
  <2> QED
    BY <1>1, <1>2, <1>4, <2>1, <2>2, <2>3, SearchKeeps
<1>5. CASE dfs.path # <<>> /\ Search(Undone, "loop")
  <2> DEFINE shorter == Front(dfs.path)
  <2>1. /\ Undone.path = shorter /\ Undone.seen = dfs.seen \ {Last(dfs.path).id}
        /\ Undone.next = dfs.next /\ Undone.paths = dfs.paths
        /\ DOMAIN Undone = {"path", "seen", "next", "paths"}
    BY <1>2 DEF Undone
  <2>2. /\ Len(shorter) = Len(dfs.path) - 1
        /\ \A i \in 1..Len(dfs.path) - 1 : shorter[i] = dfs.path[i]
    BY <1>2, <1>5, Shorter
  <2>3. SearchOK(package, root, shorter, dfs.seen \ {Last(dfs.path).id}, dfs.next, "loop")
    BY <1>2, <1>5, ReturnIsOK
  <2> HIDE DEF shorter
  <2>4. Exact(package, root, shorter, dfs.next, FALSE, dfs.paths)
    BY <1>2, <1>3, <1>5, <2>2, ReturnIsExact
  <2>5. Taken(package, root, shorter, dfs.next)
    <3> DEFINE m == Len(dfs.path) - 1
    <3>1. m \in Nat /\ \A i \in 1..m : i \in 1..Len(dfs.path) /\ i \in 1..m + 1
      BY <1>2, <1>5, EmptySeq
    <3>2. \A i \in 1..m : shorter[i] = dfs.path[i]
      BY <2>2
    <3> HIDE DEF m
    <3>3. \A i \in 1..m : Choices(package, root, shorter, i) = Choices(package, root, dfs.path, i)
      BY <3>1, <3>2, SameStart DEF Choices
    <3> QED
      BY <1>3, <2>2, <3>1, <3>2, <3>3 DEF Taken, m
  <2>6. FindOK(package, root, shorter, dfs.next, dfs.paths, "loop")
    <3>1. Exact(package, root, shorter, dfs.next, "loop" = "enter", dfs.paths)
      BY <2>4
    <3> QED
      BY <1>2, <2>5, <3>1 DEF FindOK
  <2>7. "loop" \in Searching
    BY DEF Searching
  <2> QED
    BY <1>1, <1>5, <2>1, <2>3, <2>6, <2>7, SearchKeeps
<1> QED
  BY <1>4, <1>5 DEF DfsReturn

\* plan_package: the one path is a way, and has a machine for each phase.
LEMMA PlanKeeps == PlanInv /\ Plan => PlanInv'
<1> SUFFICES ASSUME PlanInv, Plan PROVE PlanInv'
  OBVIOUS
<1>1. /\ at = "plan" /\ package' = package /\ root' = root /\ dfs' = dfs
      /\ plan = Nil
  BY DEF Plan, Refuse, PlanInv
<1>2. /\ package \in Packages /\ Diagnostics(package) = {}
      /\ DOMAIN dfs = {"path", "seen", "next", "paths"}
      /\ SearchOK(package, root, dfs.path, dfs.seen, dfs.next, "plan")
      /\ FindOK(package, root, dfs.path, dfs.next, dfs.paths, "plan")
  BY <1>1 DEF PlanInv, Searching
<1>3. at' = "done" /\ (plan' # Nil => Connects(plan', root))
  <2>1. CASE at' = "done" /\ plan' = plan
    BY <1>1, <2>1
  <2>2. ASSUME Len(dfs.paths) = 1,
               IF \E k \in 1..Len(dfs.paths[1]) : MachineOf(dfs.paths[1][k]) = Nil
               THEN at' = "raised" /\ plan' = plan
               ELSE at' = "done" /\ plan' = [k \in 1..Len(dfs.paths[1]) |-> Step(dfs.paths[1][k])]
        PROVE  at' = "done" /\ (plan' # Nil => Connects(plan', root))
    <3> DEFINE w == dfs.paths[1]
    <3>1. Way(package, root, w)
      BY <1>2, <2>2 DEF FindOK
    <3>2. \A k \in 1..Len(w) : w[k] \in Elements(package.phases)
      BY <3>1, ElementOfSeq DEF Way
    <3>3. \A k \in 1..Len(w) : MachineOf(w[k]) # Nil
      BY <1>2, <3>2, MachineFits
    <3>4. at' = "done" /\ plan' = [k \in 1..Len(w) |-> Step(w[k])]
      BY <2>2, <3>3
    <3>5. Connects([k \in 1..Len(w) |-> Step(w[k])], root)
      BY <1>2, <3>1, WayConnects
    <3> QED
      BY <3>4, <3>5
  <2> QED
    BY <2>1, <2>2 DEF Plan, Refuse
<1>4. SearchOK(package, root, dfs.path, dfs.seen, dfs.next, "done")
  BY <1>2 DEF SearchOK
<1> QED
  BY <1>1, <1>2, <1>3, <1>4 DEF PlanInv, Places, Searching

LEMMA PlanNext == PlanInv /\ [Next]_vars => PlanInv'
<1> SUFFICES ASSUME PlanInv, [Next]_vars PROVE PlanInv'
  OBVIOUS
<1>1. CASE UNCHANGED vars
  BY <1>1 DEF vars, PlanInv, SearchOK, FindOK, Connects
<1> QED
  BY <1>1, ValidateKeeps, SelectRootKeeps, FoundKeeps, OpenKeeps, DescendKeeps, SkipKeeps,
     ExhaustedKeeps, ReturnKeeps, PlanKeeps DEF Next

LEMMA PlanInvHolds == Spec => []PlanInv
BY PlanInit, PlanNext, PTL DEF Spec

\* However far the search has gone forth and back, the seen phases are those of
\* the path, and the path is a walk from the root that has not passed the
\* output world before its end.
THEOREM SearchFollowsPath == Spec => []SearchIsOnPath
<1>1. PlanInv => SearchIsOnPath
  <2> SUFFICES ASSUME PlanInv PROVE SearchIsOnPath
    OBVIOUS
  <2> DEFINE path == dfs.path
             n == Len(path)
  <2>1. SearchOK(package, root, path, dfs.seen, dfs.next, at)
    BY DEF PlanInv
  <2>2. /\ path \in Seq(Elements(package.phases)) /\ n \in Nat
        /\ Len(dfs.next) = n + (IF at = "loop" THEN 1 ELSE 0)
        /\ dfs.seen = Ids(path) /\ IsWalk(path, root.input)
        /\ \A i \in 1..n : Start(root, path, i) # root.output
    BY <2>1, LenProperties DEF SearchOK
  <2>3. ASSUME path # <<>>
        PROVE  /\ root.input # root.output
               /\ \A k \in 1..n - 1 : path[k].output # root.output
    <3>1. n \in Nat \ {0} /\ 1 \in 1..n
      BY <2>2, <2>3, EmptySeq
    <3>2. root.input # root.output
      BY <2>2, <3>1 DEF Start
    <3>3. ASSUME NEW k \in 1..n - 1 PROVE path[k].output # root.output
      <4>1. k + 1 \in 1..n /\ (k + 1) - 1 = k /\ k + 1 # 1
        BY <3>1
      <4>2. Start(root, path, k + 1) # root.output
        BY <2>2, <4>1
      <4> HIDE DEF path
      <4> QED
        BY <4>1, <4>2 DEF Start
    <3> QED
      BY <3>2, <3>3
  <2> QED
    BY <2>2, <2>3 DEF SearchIsOnPath
<1> QED
  BY <1>1, PlanInvHolds, PTL

\* What validation lets through can be planned: every phase of the one path has
\* its machine, and the machines lead from the root's input to its output.
THEOREM PlansConnect == Spec => []PlanConnects
<1>1. PlanInv => PlanConnects
  BY DEF PlanInv, Places, Connects, PlanConnects
<1> QED
  BY <1>1, PlanInvHolds, PTL

-----------------------------------------------------------------------------
(* Ways are the walks of the reference definition                            *)

\* A walk over distinct phases has at most as many of them as there are.
LEMMA WalksAreShort ==
    ASSUME NEW p \in Packages, NEW w \in Seq(Elements(p.phases)), NEW from, IsWalk(w, from)
    PROVE  Len(w) <= Len(p.phases)
<1> DEFINE P == Elements(p.phases)
           n == Len(p.phases)
           m == Len(w)
<1>1. /\ n \in Nat /\ p.phases \in [1..n -> P] /\ m \in Nat /\ w \in [1..m -> P]
  BY PackagesAssumption, LenProperties
<1>2. p.phases \in Surjection(1..n, P)
  <2>1. \A f \in P : \E k \in 1..n : p.phases[k] = f
    BY DEF Elements
  <2> QED
    BY <1>1, <2>1 DEF Surjection
<1>3. w \in Injection(1..m, P)
  <2>1. \A j, k \in 1..m : w[j] = w[k] => j = k
    BY DEF IsWalk
  <2>2. DOMAIN w = 1..m
    BY <1>1
  <2> HIDE DEF m, P
  <2> QED
    BY <1>1, <2>1, <2>2 DEF Injection, IsInjective
<1> HIDE DEF P, n, m
<1>4. IsFiniteSet(1..n) /\ Cardinality(1..n) = n /\ Cardinality(1..m) = m
  BY <1>1, FS_Interval
<1>5. IsFiniteSet(P) /\ Cardinality(P) <= n
  BY <1>2, <1>4, FS_Surjection
<1>6. m <= Cardinality(P)
  BY <1>3, <1>4, <1>5, FS_Injection
<1>7. Cardinality(P) \in Nat
  BY <1>5, FS_CardinalityType
<1> QED
  BY <1>1, <1>5, <1>6, <1>7 DEF n, m

LEMMA WaysAreWalks ==
    ASSUME NEW p \in Packages, NEW r, NEW w
    PROVE  Way(p, r, w) <=> w \in Walks(p, r.input, r.output)
<1> DEFINE P == Elements(p.phases)
           n == Len(w)
           all == UNION {[1..i -> P] : i \in 0..Len(p.phases)}
           ends == /\ r.input = r.output => w = <<>>
                   /\ r.input # r.output => /\ w # <<>> /\ Last(w).output = r.output
                                            /\ \A k \in 1..n - 1 : w[k].output # r.output
           meets == /\ Start(r, w, n + 1) = r.output
                    /\ \A i \in 1..n : Start(r, w, i) # r.output
<1>1. Len(p.phases) \in Nat
  BY PackagesAssumption, LenProperties
<1>2. w \in Walks(p, r.input, r.output) <=> w \in all /\ IsWalk(w, r.input) /\ ends
  BY DEF Walks
<1>3. ASSUME w \in Seq(P) PROVE ends <=> meets
  <2>1. n \in Nat /\ (w = <<>> <=> n = 0)
    BY <1>3, EmptySeq, LenProperties
  <2>2. CASE n = 0
    <3>1. Start(r, w, n + 1) = r.input /\ w = <<>> /\ 1..n = {}
      BY <2>1, <2>2 DEF Start
    <3> QED
      BY <3>1
  <2>3. CASE n # 0
    <3> HIDE DEF n
    <3>1. w # <<>> /\ n + 1 # 1 /\ (n + 1) - 1 = n /\ 1 \in 1..n
      BY <2>1, <2>3
    <3>2. Start(r, w, n + 1) = Last(w).output
      BY <3>1 DEF Start, Last, n
    <3>3. Start(r, w, 1) = r.input
      BY DEF Start
    <3>4. ASSUME NEW k \in 1..n - 1
          PROVE  k + 1 \in 1..n /\ Start(r, w, k + 1) = w[k].output
      <4>1. k + 1 \in 1..n /\ k + 1 # 1 /\ (k + 1) - 1 = k
        BY <2>1
      <4> QED
        BY <4>1 DEF Start
    <3>5. \A i \in 1..n : i = 1 \/ (i - 1 \in 1..n - 1 /\ (i - 1) + 1 = i)
      BY <2>1
    <3>6. (\A i \in 1..n : Start(r, w, i) # r.output)
             <=> /\ r.input # r.output
                 /\ \A k \in 1..n - 1 : w[k].output # r.output
      BY <3>1, <3>3, <3>4, <3>5
    <3> QED
      BY <3>1, <3>2, <3>6
  <2> QED
    BY <2>2, <2>3
<1>4. ASSUME w \in all PROVE w \in Seq(P)
  <2>1. PICK i \in 0..Len(p.phases) : w \in [1..i -> P]
    BY <1>4
  <2> QED
    BY <1>1, <2>1, SeqDef
<1>5. ASSUME w \in Seq(P), IsWalk(w, r.input) PROVE w \in all
  <2>1. n \in Nat /\ w \in [1..n -> P] /\ n <= Len(p.phases)
    BY <1>5, WalksAreShort, LenProperties
  <2>2. n \in 0..Len(p.phases)
    BY <1>1, <2>1
  <2> HIDE DEF n, P
  <2> QED
    BY <2>1, <2>2
<1>6. Way(p, r, w) <=> w \in Seq(P) /\ IsWalk(w, r.input) /\ meets
  BY DEF Way
<1> HIDE DEF all, ends, meets, P
<1> QED
  BY <1>2, <1>3, <1>4, <1>5, <1>6

\* When the search is over it has found every walk from the root's input to its
\* output that ends as soon as it is there, each once.
THEOREM SearchFindsAll == Spec => []SearchIsComplete
<1>1. PlanInv => SearchIsComplete
  <2> SUFFICES ASSUME PlanInv, at = "plan"
               PROVE  /\ Elements(dfs.paths) = Walks(package, root.input, root.output)
                      /\ \A j, k \in 1..Len(dfs.paths) : dfs.paths[j] = dfs.paths[k] => j = k
    BY DEF SearchIsComplete
  <2>1. /\ package \in Packages
        /\ SearchOK(package, root, dfs.path, dfs.seen, dfs.next, "plan")
        /\ FindOK(package, root, dfs.path, dfs.next, dfs.paths, "plan")
    BY DEF PlanInv, Searching
  <2>2. dfs.path = <<>> /\ Len(dfs.next) = 0
    BY <2>1, EmptySeq DEF SearchOK
  <2>3. ("plan" = "enter") = FALSE
    OBVIOUS
  <2>4. Exact(package, root, dfs.path, dfs.next, FALSE, dfs.paths)
    BY <2>1, <2>3 DEF FindOK
  <2>5. \A w : ~Left(package, root, dfs.path, dfs.next, FALSE, w)
    BY <2>2 DEF Left, Ahead
  <2>6. \A w : Way(package, root, w) => w \in Elements(dfs.paths)
    BY <2>4, <2>5 DEF Exact, Way
  <2>7. \A w \in Elements(dfs.paths) : Way(package, root, w)
    BY <2>1 DEF FindOK, Elements
  <2>8. \A w : w \in Elements(dfs.paths) <=> w \in Walks(package, root.input, root.output)
    BY <2>1, <2>6, <2>7, WaysAreWalks
  <2>9. Elements(dfs.paths) = Walks(package, root.input, root.output)
    BY <2>8
  <2> QED
    BY <2>1, <2>9 DEF FindOK
<1> QED
  BY <1>1, PlanInvHolds, PTL
=============================================================================
