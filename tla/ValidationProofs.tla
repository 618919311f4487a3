------------------------- MODULE ValidationProofs --------------------------
(***************************************************************************)
(* Proofs about ValidateDAG: for every DAG and every order in which Go     *)
(* ranges over its tasks, the depth-first search reports a cycle exactly   *)
(* when the tasks cannot be ranked, and the run of a DAG that passed       *)
(* unlocks all its tasks.                                                  *)
(*                                                                         *)
(* The search is a recursion over data.  It is shown to have the value     *)
(* Search below: the closed form solves the recursion equation, and any    *)
(* solution of the equation agrees with it, by the least number of new     *)
(* tasks for which they could differ.                                      *)
(***************************************************************************)
EXTENDS Definitions, FiniteSetTheorems, TLAPS

\* A step that names no prover is tried by the SMT solver, then by Zenon, with time to spare.
USE SMTT(60), ZenonT(20)

-----------------------------------------------------------------------------
(* Folding                                                                 *)

LEMMA LeastNumber ==
    ASSUME NEW T \in SUBSET Nat, T # {}
    PROVE  \E x \in T : \A y \in T : x <= y
<1>1. PICK x \in T : \A y \in T : <<y, x>> \notin OpToRel(<, Nat)
  BY NatLessThanWellFounded, WFMin, Zenon
<1>2. ASSUME NEW y \in T PROVE x <= y
  <2>1. <<y, x>> \in Nat \X Nat /\ <<y, x>>[1] = y /\ <<y, x>>[2] = x
    OBVIOUS
  <2>2. ~(y < x)
    BY <1>1, <2>1 DEF OpToRel
  <2> QED
    BY <2>2
<1> QED
  BY <1>2

\* The greatest element of a set of numbers, when it has one.
LEMMA MaxIs ==
    ASSUME NEW s \in SUBSET Nat, NEW m \in s, \A x \in s : x <= m
    PROVE  Max(s) = m
<1>1. m \in s /\ \A y \in s : m >= y
  OBVIOUS
<1>2. PICK k : k = Max(s)
  OBVIOUS
<1>3. k \in s /\ \A y \in s : k >= y
  BY <1>1, <1>2, Zenon DEF Max
<1> QED
  BY <1>1, <1>2, <1>3

\* The recursion equation of VisitAll, over the first n keys.
FoldsTo(visit, keys, color, n, g) ==
    g = [s \in SUBSET (1..n) |-> IF s = {} THEN color ELSE visit[<<keys[Max(s)], g[s \ {Max(s)}]>>]]

\* It has a solution.
LEMMA FoldExists ==
    ASSUME NEW visit, NEW keys, NEW color, NEW n \in Nat
    PROVE  \E g : FoldsTo(visit, keys, color, n, g)
<1> DEFINE Eq(m, g) == FoldsTo(visit, keys, color, m, g)
           Bad == {m \in Nat : ~\E g : Eq(m, g)}
<1>1. SUFFICES ASSUME Bad # {} PROVE FALSE
  BY Zenon
<1>2. PICK m \in Bad : \A y \in Bad : m <= y
  BY <1>1, LeastNumber, Zenon
<1>3. m # 0
  <2>1. ASSUME m = 0 PROVE Eq(m, [s \in SUBSET (1..m) |-> color])
    <3>1. SUBSET (1..m) = {{}}
      BY <2>1
    <3> QED
      BY <3>1, Zenon DEF FoldsTo
  <2> QED
    BY <1>2, <2>1, Zenon
<1>4. PICK l \in Nat : m = l + 1
  <2>1. m \in Nat /\ m - 1 \in Nat /\ m = (m - 1) + 1
    BY <1>3
  <2> QED
    BY <2>1, Zenon
<1>5. PICK g : Eq(l, g)
  <2>1. l \notin Bad
    <3> HIDE DEF Bad
    <3> QED
      BY <1>2, <1>4
  <2> QED
    BY <2>1, Zenon
<1> DEFINE h == [s \in SUBSET (1..m) |-> IF m \in s THEN visit[<<keys[m], g[s \ {m}]>>] ELSE g[s]]
<1>6. ASSUME NEW s \in SUBSET (1..m)
      PROVE  h[s] = IF s = {} THEN color ELSE visit[<<keys[Max(s)], h[s \ {Max(s)}]>>]
  <2>1. CASE m \in s
    <3>1. Max(s) = m
      BY <1>4, <2>1, MaxIs
    <3>2. s \ {m} \in SUBSET (1..m) /\ m \notin s \ {m}
      OBVIOUS
    <3> QED
      BY <2>1, <3>1, <3>2
  <2>2. CASE m \notin s
    <3>1. s \in SUBSET (1..l)
      BY <1>4, <2>2
    <3>2. s \ {Max(s)} \in SUBSET (1..m) /\ m \notin s \ {Max(s)}
      BY <2>2, Zenon
    <3>3. h[s] = g[s] /\ h[s \ {Max(s)}] = g[s \ {Max(s)}]
      BY <2>2, <3>2
    <3>4. g[s] = IF s = {} THEN color ELSE visit[<<keys[Max(s)], g[s \ {Max(s)}]>>]
      BY <1>5, <3>1, Zenon DEF FoldsTo
    <3> QED
      BY <3>3, <3>4, Zenon
  <2> QED
    BY <2>1, <2>2
<1>7. Eq(m, h)
  BY <1>6, Zenon DEF FoldsTo
<1> HIDE DEF Eq, h
<1> QED
  BY <1>2, <1>7

StepByStep(visit, keys, color) ==
    \E h : /\ h[0] = color
           /\ \A i \in 1..Len(keys) : h[i] = visit[<<keys[i], h[i - 1]>>]
           /\ VisitAll(visit, keys, color) = h[Len(keys)]

\* The loops visit one key after the other and hand the coloring on.
LEMMA VisitAllSteps ==
    ASSUME NEW visit, NEW S, NEW keys \in Seq(S), NEW color
    PROVE  StepByStep(visit, keys, color)
<1> DEFINE Eq(g) == FoldsTo(visit, keys, color, Len(keys), g)
           iter == CHOOSE g : Eq(g)
<1>1. Len(keys) \in Nat /\ DOMAIN keys = 1..Len(keys)
  OBVIOUS
<1>2. \E g : Eq(g)
  BY <1>1, FoldExists, Zenon
<1>3. VisitAll(visit, keys, color) = iter[1..Len(keys)]
  <2>1. PICK n : n = Len(keys) /\ DOMAIN keys = 1..n
    BY <1>1
  <2> QED
    BY <2>1, Zenon DEF VisitAll, FoldLeft, MapThenFoldSet, FoldsTo
<1>4. Eq(iter)
  BY <1>2, Zenon
<1> HIDE DEF iter
<1>5. \A s \in SUBSET (1..Len(keys)) :
         iter[s] = IF s = {} THEN color ELSE visit[<<keys[Max(s)], iter[s \ {Max(s)}]>>]
  BY <1>4, Zenon DEF FoldsTo
<1> DEFINE h == [i \in 0..Len(keys) |-> iter[1..i]]
<1>6. h[0] = color
  <2>1. PICK s \in SUBSET (1..Len(keys)) : s = {}
    OBVIOUS
  <2>2. 1..0 = s /\ 0 \in 0..Len(keys)
    BY <1>1, <2>1
  <2>3. iter[s] = color
    BY <1>5, <2>1, Zenon
  <2> QED
    BY <2>2, <2>3, Zenon
<1>7. ASSUME NEW i \in 1..Len(keys) PROVE h[i] = visit[<<keys[i], h[i - 1]>>]
  <2>1. (1..i) \ {i} = 1..(i - 1) /\ i \in 1..i /\ 1..i \in SUBSET (1..Len(keys))
    BY <1>1
  <2>2. Max(1..i) = i
    <3>1. 1..i \in SUBSET Nat /\ \A x \in 1..i : x <= i
      OBVIOUS
    <3> QED
      BY <2>1, <3>1, MaxIs
  <2>3. PICK s \in SUBSET (1..Len(keys)) : s = 1..i
    BY <2>1
  <2>4. iter[s] = visit[<<keys[Max(s)], iter[s \ {Max(s)}]>>]
    BY <1>5, <2>1, <2>3, Zenon
  <2>5. iter[1..i] = visit[<<keys[i], iter[1..(i - 1)]>>]
    BY <2>1, <2>2, <2>3, <2>4, Zenon
  <2>6. i \in 0..Len(keys) /\ i - 1 \in 0..Len(keys)
    BY <1>1
  <2> QED
    BY <2>5, <2>6
<1>8. h[Len(keys)] = iter[1..Len(keys)]
  BY <1>1
<1> HIDE DEF h
<1> QED
  BY <1>3, <1>6, <1>7, <1>8 DEF StepByStep

-----------------------------------------------------------------------------
(* What the search computes                                                *)

\* The tasks a task depends on.
DependsOn(dag, key) == Range(dag[key].dependsOn)

\* A DAG whose dependencies exist: what the loop over the tasks has made sure of.
Graph(dag) ==
    /\ DOMAIN dag # {} /\ IsFiniteSet(DOMAIN dag)
    /\ \A key \in DOMAIN dag : dag[key].dependsOn \in Seq(DOMAIN dag)

\* Among any of the tasks there is one that depends on none of them.
Acyclic(dag, tasks) ==
    \A some \in SUBSET tasks : some # {} => \E key \in some : DependsOn(dag, key) \cap some = {}

New(dag, color) == {key \in DOMAIN dag : color[key] = 0}
Done(dag, color) == {key \in DOMAIN dag : color[key] = 2}

\* New tasks that the search can finish without meeting another task that is not done.
Finishable(dag, color, tasks) ==
    /\ tasks \subseteq New(dag, color)
    /\ \A key \in tasks : DependsOn(dag, key) \subseteq tasks \cup Done(dag, color)
    /\ Acyclic(dag, tasks)

\* Finishing the tasks gets keys done.
Covers(dag, color, keys, tasks) ==
    Finishable(dag, color, tasks) /\ keys \subseteq tasks \cup Done(dag, color)

CanFinish(dag, color, keys) == \E tasks \in SUBSET DOMAIN dag : Covers(dag, color, keys, tasks)

\* The tasks that have to be finished for it.
Needed(dag, color, keys) ==
    {key \in DOMAIN dag : \A tasks \in SUBSET DOMAIN dag : Covers(dag, color, keys, tasks) => key \in tasks}

Finished(dag, color, tasks) == [key \in DOMAIN dag |-> IF key \in tasks THEN 2 ELSE color[key]]

\* The result of visiting keys.
Search(dag, color, keys) ==
    IF CanFinish(dag, color, keys) THEN Finished(dag, color, Needed(dag, color, keys)) ELSE Cycle

\* The needed tasks are themselves enough.
LEMMA NeededCovers ==
    ASSUME NEW dag, NEW color, NEW keys, CanFinish(dag, color, keys)
    PROVE  Covers(dag, color, keys, Needed(dag, color, keys))
<1> DEFINE N == Needed(dag, color, keys)
<1>1. PICK X \in SUBSET DOMAIN dag : Covers(dag, color, keys, X)
  BY DEF CanFinish
<1>2. N \subseteq X /\ N \in SUBSET DOMAIN dag
  BY <1>1, Zenon DEF Needed
<1>3. \A key : key \in N <=> key \in DOMAIN dag /\ \A Y \in SUBSET DOMAIN dag : Covers(dag, color, keys, Y) => key \in Y
  BY Zenon DEF Needed
<1> HIDE DEF N
<1>4. N \subseteq New(dag, color)
  BY <1>1, <1>2, Zenon DEF Covers, Finishable
<1>5. \A key : ~(key \in New(dag, color) /\ key \in Done(dag, color))
  BY DEF New, Done
<1>6. ASSUME NEW e,
             \A Y \in SUBSET DOMAIN dag : Covers(dag, color, keys, Y) => e \in Y \cup Done(dag, color)
      PROVE  e \in N \cup Done(dag, color)
  <2>1. CASE e \in Done(dag, color)
    BY <2>1
  <2>2. CASE e \notin Done(dag, color)
    <3>1. \A Y \in SUBSET DOMAIN dag : Covers(dag, color, keys, Y) => e \in Y
      BY <1>6, <2>2
    <3>2. e \in DOMAIN dag
      BY <1>1, <3>1
    <3> QED
      BY <1>3, <3>1, <3>2
  <2> QED
    BY <2>1, <2>2
<1>7. ASSUME NEW key \in N, NEW e \in DependsOn(dag, key) PROVE e \in N \cup Done(dag, color)
  <2>1. ASSUME NEW Y \in SUBSET DOMAIN dag, Covers(dag, color, keys, Y) PROVE e \in Y \cup Done(dag, color)
    <3>1. key \in Y
      BY <1>3, <2>1
    <3> QED
      BY <2>1, <3>1 DEF Covers, Finishable
  <2> QED
    BY <1>6, <2>1
<1>8. ASSUME NEW e \in keys PROVE e \in N \cup Done(dag, color)
  <2>1. ASSUME NEW Y \in SUBSET DOMAIN dag, Covers(dag, color, keys, Y) PROVE e \in Y \cup Done(dag, color)
    BY <2>1 DEF Covers
  <2> QED
    BY <1>6, <2>1
<1>9. Acyclic(dag, N)
  <2>1. Acyclic(dag, X)
    BY <1>1 DEF Covers, Finishable
  <2> QED
    BY <1>2, <2>1 DEF Acyclic
<1> QED
  BY <1>4, <1>7, <1>8, <1>9 DEF Covers, Finishable, N

LEMMA NeededLeast ==
    ASSUME NEW dag, NEW color, NEW keys, NEW X \in SUBSET DOMAIN dag, Covers(dag, color, keys, X)
    PROVE  CanFinish(dag, color, keys) /\ Needed(dag, color, keys) \subseteq X
BY Zenon DEF CanFinish, Needed

LEMMA AcyclicUnion ==
    ASSUME NEW dag, NEW X, NEW Y, Acyclic(dag, X), Acyclic(dag, Y),
           \A key \in X : DependsOn(dag, key) \cap Y = {}
    PROVE  Acyclic(dag, X \cup Y)
<1>1. ASSUME NEW some \in SUBSET (X \cup Y), some # {}
      PROVE  \E key \in some : DependsOn(dag, key) \cap some = {}
  <2>1. CASE some \cap X # {}
    <3>1. PICK key \in some \cap X : DependsOn(dag, key) \cap (some \cap X) = {}
      BY <2>1, Zenon DEF Acyclic
    <3>2. DependsOn(dag, key) \cap some = {}
      BY <3>1
    <3> QED
      BY <3>1, <3>2
  <2>2. CASE some \cap X = {}
    <3>1. some \in SUBSET Y
      BY <2>2
    <3> QED
      BY <1>1, <3>1 DEF Acyclic
  <2> QED
    BY <2>1, <2>2
<1> QED
  BY <1>1 DEF Acyclic

LEMMA AcyclicSubset ==
    ASSUME NEW dag, NEW X, NEW Y \in SUBSET X, Acyclic(dag, X)
    PROVE  Acyclic(dag, Y)
BY DEF Acyclic

\* Colors after finishing some new tasks.
LEMMA FinishedColors ==
    ASSUME NEW dag, NEW color \in [DOMAIN dag -> 0..2], NEW U \in SUBSET DOMAIN dag
    PROVE  /\ Finished(dag, color, U) \in [DOMAIN dag -> 0..2]
           /\ New(dag, Finished(dag, color, U)) = New(dag, color) \ U
           /\ Done(dag, Finished(dag, color, U)) = Done(dag, color) \cup U
BY DEF Finished, New, Done

\* A coloring is not the error.
LEMMA ColoringIsNoCycle ==
    ASSUME NEW dag, DOMAIN dag # {}, NEW color \in [DOMAIN dag -> 0..2]
    PROVE  color # Cycle
<1>1. DOMAIN color # {}
  OBVIOUS
<1>2. DOMAIN Cycle = {}
  BY DEF Cycle
<1> QED
  BY <1>1, <1>2

\* Visiting one more key goes on from the result for the keys before it.
LEMMA SearchGoesOn ==
    ASSUME NEW dag, NEW color \in [DOMAIN dag -> 0..2], NEW keys, NEW e, CanFinish(dag, color, keys)
    PROVE  Search(dag, Finished(dag, color, Needed(dag, color, keys)), {e}) = Search(dag, color, keys \cup {e})
<1>0. PICK b : b = Finished(dag, color, Needed(dag, color, keys))
  OBVIOUS
<1>1. PICK U \in SUBSET DOMAIN dag : U = Needed(dag, color, keys)
  BY Zenon DEF Needed
<1>2. Covers(dag, color, keys, U)
  BY <1>1, NeededCovers
<1>3. b = Finished(dag, color, U) /\ New(dag, b) = New(dag, color) \ U /\ Done(dag, b) = Done(dag, color) \cup U
  BY <1>0, <1>1, FinishedColors
<1>4. ASSUME NEW X \in SUBSET DOMAIN dag, Covers(dag, b, {e}, X)
      PROVE  Covers(dag, color, keys \cup {e}, X \cup U)
  <2>1. /\ X \subseteq New(dag, color) \ U /\ Acyclic(dag, X)
        /\ \A key \in X : DependsOn(dag, key) \subseteq X \cup Done(dag, color) \cup U
        /\ e \in X \cup Done(dag, color) \cup U
    BY <1>3, <1>4 DEF Covers, Finishable
  <2>2. /\ U \subseteq New(dag, color) /\ Acyclic(dag, U) /\ keys \subseteq U \cup Done(dag, color)
        /\ \A key \in U : DependsOn(dag, key) \subseteq U \cup Done(dag, color)
    BY <1>2 DEF Covers, Finishable
  <2>3. New(dag, color) \cap Done(dag, color) = {}
    BY DEF New, Done
  <2>4. \A key \in U : DependsOn(dag, key) \cap X = {}
    BY <2>1, <2>2, <2>3
  <2>5. Acyclic(dag, U \cup X) /\ X \cup U = U \cup X
    BY <2>1, <2>2, <2>4, AcyclicUnion
  <2> QED
    BY <2>1, <2>2, <2>5, Zenon DEF Covers, Finishable
<1>5. ASSUME NEW X \in SUBSET DOMAIN dag, Covers(dag, color, keys \cup {e}, X)
      PROVE  U \subseteq X /\ Covers(dag, b, {e}, X \ U)
  <2>1. Covers(dag, color, keys, X)
    BY <1>5 DEF Covers
  <2>2. U \subseteq X
    BY <1>1, <2>1, NeededLeast
  <2>3. Acyclic(dag, X \ U)
    BY <1>5, AcyclicSubset DEF Covers, Finishable
  <2> QED
    BY <1>3, <1>5, <2>2, <2>3 DEF Covers, Finishable
<1>6. CanFinish(dag, b, {e}) <=> CanFinish(dag, color, keys \cup {e})
  <2>1. ASSUME NEW X \in SUBSET DOMAIN dag PROVE X \cup U \in SUBSET DOMAIN dag /\ X \ U \in SUBSET DOMAIN dag
    OBVIOUS
  <2> QED
    BY <1>4, <1>5, <2>1, Zenon DEF CanFinish
<1>7. CASE CanFinish(dag, b, {e})
  <2>1. PICK Nb \in SUBSET DOMAIN dag : Nb = Needed(dag, b, {e})
    BY Zenon DEF Needed
  <2>2. PICK Nc \in SUBSET DOMAIN dag : Nc = Needed(dag, color, keys \cup {e})
    BY Zenon DEF Needed
  <2>3. Covers(dag, b, {e}, Nb) /\ Covers(dag, color, keys \cup {e}, Nc)
    BY <1>6, <1>7, <2>1, <2>2, NeededCovers
  <2>4. Nc \subseteq Nb \cup U
    <3>1. Nb \cup U \in SUBSET DOMAIN dag /\ Covers(dag, color, keys \cup {e}, Nb \cup U)
      BY <1>4, <2>3
    <3> QED
      BY <2>2, <3>1, NeededLeast
  <2>5. U \subseteq Nc /\ Nb \subseteq Nc \ U
    <3>1. U \subseteq Nc /\ Nc \ U \in SUBSET DOMAIN dag /\ Covers(dag, b, {e}, Nc \ U)
      BY <1>5, <2>3
    <3> QED
      BY <2>1, <3>1, NeededLeast
  <2>6. Nc = Nb \cup U
    BY <2>4, <2>5
  <2>7. Finished(dag, b, Nb) = Finished(dag, color, Nc)
    BY <1>3, <2>6 DEF Finished
  <2> QED
    BY <1>0, <1>6, <1>7, <2>1, <2>2, <2>7, Zenon DEF Search
<1> QED
  BY <1>0, <1>6, <1>7, Zenon DEF Search

\* The result is a coloring, and what follows goes on from it.
GoesOn(dag, color, keys) ==
    \E b \in [DOMAIN dag -> 0..2] :
       /\ b = Search(dag, color, keys) /\ New(dag, b) \subseteq New(dag, color)
       /\ \A e : Search(dag, b, {e}) = Search(dag, color, keys \cup {e})

LEMMA SearchNext ==
    ASSUME NEW dag, NEW color \in [DOMAIN dag -> 0..2], NEW keys, CanFinish(dag, color, keys)
    PROVE  GoesOn(dag, color, keys)
<1>1. PICK U \in SUBSET DOMAIN dag : U = Needed(dag, color, keys)
  BY Zenon DEF Needed
<1>2. /\ Finished(dag, color, U) \in [DOMAIN dag -> 0..2]
      /\ New(dag, Finished(dag, color, U)) = New(dag, color) \ U
  BY FinishedColors
<1>3. ASSUME NEW e
      PROVE  Search(dag, Finished(dag, color, Needed(dag, color, keys)), {e}) = Search(dag, color, keys \cup {e})
  BY SearchGoesOn
<1>4. Search(dag, color, keys) = Finished(dag, color, U)
  BY <1>1, Zenon DEF Search
<1> QED
  BY <1>1, <1>2, <1>3, <1>4, Zenon DEF GoesOn

\* Nothing to visit.
LEMMA SearchNothing ==
    ASSUME NEW dag, NEW color \in [DOMAIN dag -> 0..2]
    PROVE  Search(dag, color, {}) = color
<1>1. Covers(dag, color, {}, {})
  BY DEF Covers, Finishable, Acyclic
<1>2. CanFinish(dag, color, {}) /\ Needed(dag, color, {}) = {}
  BY <1>1, NeededLeast
<1>3. Finished(dag, color, {}) = color
  BY DEF Finished
<1> QED
  BY <1>2, <1>3, Zenon DEF Search

\* Of tasks that can be finished, those that a task needs do not depend on it.
LEMMA WithoutDependents ==
    ASSUME NEW dag, NEW color, NEW X, Finishable(dag, color, X), NEW key \in X
    PROVE  \E Z \in SUBSET X : /\ key \in Z /\ Finishable(dag, color, Z)
                               /\ \A z \in Z : key \notin DependsOn(dag, z)
<1> DEFINE Free(Z) == \A z \in Z : DependsOn(dag, z) \subseteq Z \cup Done(dag, color) /\ key \notin DependsOn(dag, z)
           All == UNION {Z \in SUBSET X : Free(Z)}
<1>1. All \in SUBSET X /\ Free(All)
  <2>1. ASSUME NEW z \in All PROVE DependsOn(dag, z) \subseteq All \cup Done(dag, color) /\ key \notin DependsOn(dag, z)
    <3>1. PICK Z \in SUBSET X : Free(Z) /\ z \in Z
      OBVIOUS
    <3>2. Z \subseteq All
      BY <3>1
    <3> HIDE DEF All
    <3> QED
      BY <3>1, <3>2
  <2> QED
    BY <2>1
<1>2. \A Z \in SUBSET X : Free(Z) => Z \subseteq All
  OBVIOUS
<1> HIDE DEF All
<1>3. key \in All
  <2>1. SUFFICES ASSUME key \notin All PROVE FALSE
    OBVIOUS
  <2>2. PICK z \in X \ All : DependsOn(dag, z) \cap (X \ All) = {}
    BY <2>1, Zenon DEF Finishable, Acyclic
  <2>3. DependsOn(dag, z) \subseteq X \cup Done(dag, color)
    BY DEF Finishable
  <2>4. key \notin DependsOn(dag, z)
    BY <2>1, <2>2
  <2>5. Free(All \cup {z}) /\ All \cup {z} \in SUBSET X
    BY <1>1, <2>2, <2>3, <2>4
  <2>6. z \in All
    BY <1>2, <2>5, Zenon
  <2> QED
    BY <2>6
<1>4. Finishable(dag, color, All)
  <2>1. Acyclic(dag, All)
    BY <1>1, AcyclicSubset DEF Finishable
  <2> QED
    BY <1>1, <2>1 DEF Finishable
<1> QED
  BY <1>1, <1>3, <1>4

\* A task goes on the stack and, when no cycle was found below it, leaves it done.
Enter(color, key) == [color EXCEPT ![key] = 1]
Leave(below, key) == IF below = Cycle THEN Cycle ELSE [below EXCEPT ![key] = 2]

\* Visiting a new task: it is on the stack while the tasks it depends on are visited.
LEMMA SearchEnters ==
    ASSUME NEW dag, DOMAIN dag # {}, NEW color \in [DOMAIN dag -> 0..2], NEW key \in DOMAIN dag, color[key] = 0
    PROVE  Search(dag, color, {key}) = Leave(Search(dag, Enter(color, key), DependsOn(dag, key)), key)
<1>0. PICK c0, below : c0 = [color EXCEPT ![key] = 1] /\ c0 = Enter(color, key) /\ below = Search(dag, c0, DependsOn(dag, key))
  BY Zenon DEF Enter
<1>1. PICK E : E = DependsOn(dag, key)
  OBVIOUS
<1>2. /\ c0 \in [DOMAIN dag -> 0..2] /\ New(dag, c0) = New(dag, color) \ {key} /\ Done(dag, c0) = Done(dag, color)
      /\ key \in New(dag, color) /\ key \notin Done(dag, color)
  BY <1>0 DEF New, Done
<1>3. ASSUME NEW W \in SUBSET DOMAIN dag, Covers(dag, c0, E, W)
      PROVE  Covers(dag, color, {key}, W \cup {key})
  <2>1. /\ W \subseteq New(dag, color) \ {key} /\ Acyclic(dag, W) /\ E \subseteq W \cup Done(dag, color)
        /\ \A x \in W : DependsOn(dag, x) \subseteq W \cup Done(dag, color)
    BY <1>2, <1>3 DEF Covers, Finishable
  <2>2. key \notin E /\ \A x \in W : DependsOn(dag, x) \cap {key} = {}
    BY <1>2, <2>1
  <2>3. Acyclic(dag, {key})
    BY <1>1, <2>2 DEF Acyclic
  <2>4. Acyclic(dag, W \cup {key})
    BY <2>1, <2>2, <2>3, AcyclicUnion
  <2> QED
    BY <1>1, <1>2, <2>1, <2>4 DEF Covers, Finishable
<1>4. ASSUME NEW X \in SUBSET DOMAIN dag, Covers(dag, color, {key}, X)
      PROVE  \E W \in SUBSET DOMAIN dag : W \cup {key} \subseteq X /\ Covers(dag, c0, E, W)
  <2>1. key \in X /\ Finishable(dag, color, X)
    BY <1>2, <1>4 DEF Covers
  <2>2. PICK Z \in SUBSET X : /\ key \in Z /\ Finishable(dag, color, Z)
                              /\ \A z \in Z : key \notin DependsOn(dag, z)
    BY <2>1, WithoutDependents
  <2>3. PICK W \in SUBSET DOMAIN dag : W = Z \ {key}
    BY Zenon
  <2>4. Acyclic(dag, W)
    BY <2>2, <2>3, AcyclicSubset DEF Finishable
  <2>5. Covers(dag, c0, E, W)
    <3>1. /\ Z \subseteq New(dag, color)
          /\ \A z \in Z : DependsOn(dag, z) \subseteq Z \cup Done(dag, color) /\ key \notin DependsOn(dag, z)
      BY <2>2 DEF Finishable
    <3>2. W \subseteq New(dag, c0)
      BY <1>2, <2>3, <3>1
    <3>3. \A z \in Z : DependsOn(dag, z) \subseteq W \cup Done(dag, c0)
      BY <1>2, <2>3, <3>1
    <3>4. E \subseteq W \cup Done(dag, c0) /\ \A z \in W : DependsOn(dag, z) \subseteq W \cup Done(dag, c0)
      BY <1>1, <2>2, <2>3, <3>3, Zenon
    <3> QED
      BY <2>4, <3>2, <3>4, Zenon DEF Covers, Finishable
  <2> QED
    BY <2>2, <2>3, <2>5
<1>5. CanFinish(dag, c0, E) <=> CanFinish(dag, color, {key})
  <2>1. ASSUME NEW W \in SUBSET DOMAIN dag PROVE W \cup {key} \in SUBSET DOMAIN dag
    OBVIOUS
  <2> QED
    BY <1>3, <1>4, <2>1, Zenon DEF CanFinish
<1>6. CASE CanFinish(dag, c0, E)
  <2>1. PICK N0 \in SUBSET DOMAIN dag : N0 = Needed(dag, c0, E)
    BY Zenon DEF Needed
  <2>2. PICK N \in SUBSET DOMAIN dag : N = Needed(dag, color, {key})
    BY Zenon DEF Needed
  <2>3. Covers(dag, c0, E, N0) /\ Covers(dag, color, {key}, N)
    BY <1>5, <1>6, <2>1, <2>2, NeededCovers
  <2>4. N \subseteq N0 \cup {key}
    BY <1>3, <2>2, <2>3, NeededLeast, Zenon
  <2>5. N0 \cup {key} \subseteq N
    <3>1. PICK W \in SUBSET DOMAIN dag : W \cup {key} \subseteq N /\ Covers(dag, c0, E, W)
      BY <1>4, <2>3
    <3>2. N0 \subseteq W
      BY <2>1, <3>1, NeededLeast
    <3> QED
      BY <3>1, <3>2
  <2>6. N = N0 \cup {key}
    BY <2>4, <2>5
  <2>7. below = Finished(dag, c0, N0) /\ Search(dag, color, {key}) = Finished(dag, color, N)
    BY <1>0, <1>1, <1>5, <1>6, <2>1, <2>2, Zenon DEF Search
  <2>8. below \in [DOMAIN dag -> 0..2]
    <3>1. Finished(dag, c0, N0) \in [DOMAIN dag -> 0..2]
      BY <1>2, FinishedColors
    <3> QED
      BY <2>7, <3>1, Zenon
  <2>9. below # Cycle
    BY <2>8, ColoringIsNoCycle
  <2>10. Finished(dag, color, N) = [below EXCEPT ![key] = 2]
    BY <1>0, <2>6, <2>7, Zenon DEF Finished
  <2> QED
    BY <1>0, <2>7, <2>9, <2>10, Zenon DEF Leave
<1> QED
  BY <1>0, <1>1, <1>5, <1>6, Zenon DEF Search, Leave

-----------------------------------------------------------------------------
(* The search computes it                                                  *)

\* From this coloring, visit returns what it should.
Searches(dag, visit, color) ==
    \A key \in DOMAIN dag : visit[<<key, color>>] = Search(dag, color, {key})

\* It does so for every coloring whose new tasks are among tasks, and hands a cycle on.
SearchesWithin(dag, visit, tasks) ==
    /\ \A key \in DOMAIN dag : visit[<<key, Cycle>>] = Cycle
    /\ \A b \in [DOMAIN dag -> 0..2] : New(dag, b) \subseteq tasks => Searches(dag, visit, b)

\* Visiting keys one after the other, with a visit that is right for colorings without more new tasks.
LEMMA VisitAllSearches ==
    ASSUME NEW dag, NEW color \in [DOMAIN dag -> 0..2], NEW keys \in Seq(DOMAIN dag), NEW visit,
           SearchesWithin(dag, visit, New(dag, color))
    PROVE  VisitAll(visit, keys, color) = Search(dag, color, Range(keys))
<1> DEFINE First(i) == {keys[j] : j \in 1..i}
<1>1. Len(keys) \in Nat /\ DOMAIN keys = 1..Len(keys) /\ \A i \in 1..Len(keys) : keys[i] \in DOMAIN dag
  OBVIOUS
<1>2. PICK h : /\ h[0] = color
               /\ \A i \in 1..Len(keys) : h[i] = visit[<<keys[i], h[i - 1]>>]
               /\ VisitAll(visit, keys, color) = h[Len(keys)]
  <2>1. StepByStep(visit, keys, color)
    BY VisitAllSteps
  <2> QED
    BY <2>1, Zenon DEF StepByStep
<1> DEFINE Bad == {i \in 0..Len(keys) : h[i] # Search(dag, color, First(i))}
<1>3. ASSUME Bad # {} PROVE FALSE
  <2>1. PICK i \in Bad : \A j \in Bad : i <= j
    <3>1. Bad \in SUBSET Nat
      BY <1>1
    <3> QED
      BY <1>3, <3>1, LeastNumber, Zenon
  <2>2. i \in 0..Len(keys) /\ h[i] # Search(dag, color, First(i))
    OBVIOUS
  <2>3. i # 0
    <3>1. First(0) = {}
      OBVIOUS
    <3> HIDE DEF First
    <3> QED
      BY <1>2, <2>2, <3>1, SearchNothing, Zenon
  <2>4. i \in 1..Len(keys) /\ i - 1 \in 0..Len(keys) /\ i - 1 < i
    BY <1>1, <2>2, <2>3
  <2>5. PICK K : K = First(i - 1) /\ h[i - 1] = Search(dag, color, K)
    <3>1. i - 1 \notin Bad
      <4> HIDE DEF Bad
      <4> QED
        BY <2>1, <2>2, <2>4, <1>1
    <3> QED
      BY <2>4, <3>1
  <2>6. First(i) = K \cup {keys[i]}
    <3>1. 1..i = (1..(i - 1)) \cup {i}
      BY <1>1, <2>4
    <3> QED
      BY <2>5, <3>1
  <2> HIDE DEF First, Bad
  <2>7. CASE CanFinish(dag, color, K)
    <3>1. PICK b \in [DOMAIN dag -> 0..2] :
             /\ b = Search(dag, color, K) /\ New(dag, b) \subseteq New(dag, color)
             /\ \A e : Search(dag, b, {e}) = Search(dag, color, K \cup {e})
      <4>1. GoesOn(dag, color, K)
        BY <2>7, SearchNext
      <4> QED
        BY <4>1, Zenon DEF GoesOn
    <3>3. h[i] = Search(dag, b, {keys[i]})
      <4>1. Searches(dag, visit, b)
        BY <3>1, Zenon DEF SearchesWithin
      <4>2. h[i] = visit[<<keys[i], b>>] /\ keys[i] \in DOMAIN dag
        BY <1>1, <1>2, <2>4, <2>5, <3>1, Zenon
      <4> QED
        BY <4>1, <4>2, Zenon DEF Searches
    <3>4. Search(dag, b, {keys[i]}) = Search(dag, color, K \cup {keys[i]})
      BY <3>1, Zenon
    <3> QED
      BY <2>2, <2>6, <3>3, <3>4, Zenon
  <2>8. CASE ~CanFinish(dag, color, K)
    <3>1. h[i - 1] = Cycle
      BY <2>5, <2>8, Zenon DEF Search
    <3>2. h[i] = Cycle
      BY <1>1, <1>2, <2>4, <3>1, Zenon DEF SearchesWithin
    <3>3. \A X : Covers(dag, color, K \cup {keys[i]}, X) => Covers(dag, color, K, X)
      BY DEF Covers
    <3>4. ~CanFinish(dag, color, K \cup {keys[i]})
      BY <2>8, <3>3, Zenon DEF CanFinish
    <3> QED
      BY <2>2, <2>6, <3>2, <3>4, Zenon DEF Search
  <2> QED
    BY <2>7, <2>8
<1>4. Len(keys) \in 0..Len(keys) /\ First(Len(keys)) = Range(keys)
  BY <1>1 DEF Range
<1>5. h[Len(keys)] = Search(dag, color, First(Len(keys)))
  BY <1>3, <1>4, Zenon
<1> HIDE DEF First
<1> QED
  BY <1>2, <1>4, <1>5, Zenon

\* One call of visit is right when the calls it makes are.
LEMMA VisitTaskSearches ==
    ASSUME NEW dag, Graph(dag), NEW color \in [DOMAIN dag -> 0..2], NEW key \in DOMAIN dag, NEW visit,
           color[key] = 0 => SearchesWithin(dag, visit, New(dag, color) \ {key})
    PROVE  VisitTask(dag, visit, key, color) = Search(dag, color, {key})
<1>1. color # Cycle
  BY ColoringIsNoCycle, Zenon DEF Graph
<1>2. CASE color[key] = 2
  <2>1. key \in Done(dag, color)
    BY <1>2 DEF Done
  <2>2. Covers(dag, color, {key}, {})
    BY <2>1 DEF Covers, Finishable, Acyclic
  <2>3. CanFinish(dag, color, {key}) /\ Needed(dag, color, {key}) = {}
    <3>1. PICK X \in SUBSET DOMAIN dag : X = {}
      BY Zenon
    <3>2. CanFinish(dag, color, {key}) /\ Needed(dag, color, {key}) \subseteq X
      BY <2>2, <3>1, NeededLeast, Zenon
    <3> QED
      BY <3>1, <3>2
  <2>4. Finished(dag, color, {}) = color
    BY DEF Finished
  <2>5. Search(dag, color, {key}) = color
    BY <2>3, <2>4, Zenon DEF Search
  <2> QED
    BY <1>2, <2>5, Zenon DEF VisitTask
<1>3. CASE color[key] = 1
  <2>1. key \notin Done(dag, color) /\ key \notin New(dag, color)
    BY <1>3 DEF Done, New
  <2>2. ~CanFinish(dag, color, {key})
    BY <2>1 DEF CanFinish, Covers, Finishable
  <2>3. Search(dag, color, {key}) = Cycle
    BY <2>2, Zenon DEF Search
  <2>4. color[key] # 2
    BY <1>3
  <2> QED
    BY <1>1, <1>3, <2>3, <2>4, Zenon DEF VisitTask
<1>4. CASE color[key] = 0
  <2>1. PICK c0 : c0 = [color EXCEPT ![key] = 1]
    BY Zenon
  <2>2. c0 \in [DOMAIN dag -> 0..2] /\ New(dag, c0) \subseteq New(dag, color) \ {key}
    BY <2>1 DEF New
  <2>3. PICK below : below = VisitAll(visit, dag[key].dependsOn, c0)
    OBVIOUS
  <2>4. below = Search(dag, c0, DependsOn(dag, key))
    <3>1. dag[key].dependsOn \in Seq(DOMAIN dag)
      BY DEF Graph
    <3>2. SearchesWithin(dag, visit, New(dag, c0))
      BY <1>4, <2>2 DEF SearchesWithin
    <3> QED
      BY <2>2, <2>3, <3>1, <3>2, VisitAllSearches DEF DependsOn
  <2>5. Search(dag, color, {key}) = Leave(below, key)
    <3>1. Search(dag, color, {key}) = Leave(Search(dag, Enter(color, key), DependsOn(dag, key)), key)
      BY <1>4, SearchEnters, Zenon DEF Graph
    <3> QED
      BY <2>1, <2>4, <3>1, Zenon DEF Enter
  <2>6. color[key] # 2 /\ color[key] # 1
    BY <1>4
  <2>7. VisitTask(dag, visit, key, color) = Leave(below, key)
    BY <1>1, <2>1, <2>3, <2>6, Zenon DEF VisitTask, Leave
  <2> QED
    BY <2>5, <2>7, Zenon
<1> QED
  BY <1>2, <1>3, <1>4

-----------------------------------------------------------------------------
(* The recursive function                                                  *)

\* The value visit should have.
Visited(dag) ==
    [at \in (DOMAIN dag) \X Colorings(dag) |->
        IF at[2] = Cycle THEN Cycle ELSE Search(dag, at[2], {at[1]})]

\* The recursion equation of visit.
Solves(dag, visit) == visit = [at \in (DOMAIN dag) \X Colorings(dag) |-> VisitTask(dag, visit, at[1], at[2])]

LEMMA VisitedSolves ==
    ASSUME NEW dag, Graph(dag)
    PROVE  Solves(dag, Visited(dag))
<1>1. PICK w : w = Visited(dag)
  OBVIOUS
<1>2. \A key \in DOMAIN dag : w[<<key, Cycle>>] = Cycle
  BY <1>1 DEF Visited, Colorings
<1>3. ASSUME NEW b \in [DOMAIN dag -> 0..2], NEW key \in DOMAIN dag
      PROVE  w[<<key, b>>] = Search(dag, b, {key})
  <2>1. b # Cycle
    BY ColoringIsNoCycle, Zenon DEF Graph
  <2>2. <<key, b>> \in (DOMAIN dag) \X Colorings(dag) /\ <<key, b>>[1] = key /\ <<key, b>>[2] = b
    BY DEF Colorings
  <2> QED
    BY <1>1, <2>1, <2>2, Zenon DEF Visited
<1>4. \A tasks : SearchesWithin(dag, w, tasks)
  BY <1>2, <1>3, Zenon DEF SearchesWithin, Searches
<1>5. ASSUME NEW key \in DOMAIN dag, NEW c \in Colorings(dag)
      PROVE  w[<<key, c>>] = VisitTask(dag, w, key, c)
  <2>1. CASE c = Cycle
    BY <1>2, <2>1, Zenon DEF VisitTask
  <2>2. CASE c \in [DOMAIN dag -> 0..2]
    <3>1. VisitTask(dag, w, key, c) = Search(dag, c, {key})
      BY <1>4, <2>2, VisitTaskSearches, Zenon
    <3> QED
      BY <1>3, <2>2, <3>1, Zenon
  <2> QED
    BY <2>1, <2>2, Zenon DEF Colorings
<1>6. ASSUME NEW at \in (DOMAIN dag) \X Colorings(dag) PROVE w[at] = VisitTask(dag, w, at[1], at[2])
  <2>1. at[1] \in DOMAIN dag /\ at[2] \in Colorings(dag) /\ at = <<at[1], at[2]>>
    OBVIOUS
  <2> QED
    BY <1>5, <2>1, Zenon
<1>7. w = [at \in (DOMAIN dag) \X Colorings(dag) |-> w[at]]
  BY <1>1, Zenon DEF Visited
<1> QED
  BY <1>1, <1>6, <1>7, Zenon DEF Solves

LEMMA VisitSolves ==
    ASSUME NEW dag, Graph(dag)
    PROVE  Solves(dag, Visit(dag))
<1>1. \E w : Solves(dag, w)
  BY VisitedSolves, Zenon
<1> QED
  BY <1>1 DEF Visit, Solves

\* visit does what it should, from every coloring.
LEMMA VisitSearches ==
    ASSUME NEW dag, Graph(dag)
    PROVE  SearchesWithin(dag, Visit(dag), DOMAIN dag)
<1>1. PICK visit : visit = Visit(dag)
  OBVIOUS
<1>2. ASSUME NEW key \in DOMAIN dag, NEW c \in Colorings(dag)
      PROVE  visit[<<key, c>>] = VisitTask(dag, visit, key, c)
  <2>1. Solves(dag, visit)
    BY <1>1, VisitSolves
  <2> QED
    BY <2>1 DEF Solves
<1>3. \A key \in DOMAIN dag : visit[<<key, Cycle>>] = Cycle
  BY <1>2, Zenon DEF Colorings, VisitTask
<1> DEFINE Bad == {n \in Nat : \E b \in [DOMAIN dag -> 0..2] :
                                  Cardinality(New(dag, b)) = n /\ ~Searches(dag, visit, b)}
<1>4. ASSUME NEW b \in [DOMAIN dag -> 0..2] PROVE IsFiniteSet(New(dag, b)) /\ Cardinality(New(dag, b)) \in Nat
  <2>1. New(dag, b) \in SUBSET DOMAIN dag
    BY DEF New
  <2>2. IsFiniteSet(New(dag, b))
    BY <2>1, FS_Subset DEF Graph
  <2> QED
    BY <2>2, FS_CardinalityType
<1>5. ASSUME Bad # {} PROVE FALSE
  <2>1. PICK n \in Bad : \A m \in Bad : n <= m
    BY <1>5, LeastNumber, Zenon
  <2>2. PICK b \in [DOMAIN dag -> 0..2] : Cardinality(New(dag, b)) = n /\ ~Searches(dag, visit, b)
    OBVIOUS
  <2>3. PICK key \in DOMAIN dag : visit[<<key, b>>] # Search(dag, b, {key})
    BY <2>2, Zenon DEF Searches
  <2>4. ASSUME b[key] = 0 PROVE SearchesWithin(dag, visit, New(dag, b) \ {key})
    <3>1. ASSUME NEW e \in [DOMAIN dag -> 0..2], New(dag, e) \subseteq New(dag, b) \ {key}
          PROVE  Searches(dag, visit, e)
      <4>1. PICK less : less = New(dag, b) \ {key}
        BY Zenon
      <4>2. key \in New(dag, b)
        BY <2>4 DEF New
      <4>3. IsFiniteSet(less) /\ Cardinality(less) = n - 1
        BY <1>4, <2>2, <4>1, <4>2, FS_RemoveElement
      <4>4. Cardinality(New(dag, e)) <= n - 1
        BY <3>1, <4>1, <4>3, FS_Subset
      <4>5. Cardinality(New(dag, e)) \notin Bad
        <5>1. n \in Nat /\ Cardinality(New(dag, e)) \in Nat
          BY <1>4
        <5> HIDE DEF Bad
        <5> QED
          BY <2>1, <4>4, <5>1
      <4> QED
        BY <1>4, <4>5
    <3> QED
      BY <1>3, <3>1, Zenon DEF SearchesWithin
  <2>5. VisitTask(dag, visit, key, b) = Search(dag, b, {key})
    BY <2>4, VisitTaskSearches
  <2>6. b \in Colorings(dag)
    BY Zenon DEF Colorings
  <2> QED
    BY <1>2, <2>3, <2>5, <2>6, Zenon
<1>6. ASSUME NEW b \in [DOMAIN dag -> 0..2] PROVE Searches(dag, visit, b)
  BY <1>4, <1>5
<1> QED
  BY <1>1, <1>3, <1>6, Zenon DEF SearchesWithin

\* The coloring the search starts with.
LEMMA Unvisited ==
    ASSUME NEW dag
    PROVE  \E zero \in [DOMAIN dag -> 0..2] :
              zero = [key \in DOMAIN dag |-> 0] /\ New(dag, zero) = DOMAIN dag /\ Done(dag, zero) = {}
<1>1. [key \in DOMAIN dag |-> 0] \in [DOMAIN dag -> 0..2]
  OBVIOUS
<1>2. PICK zero \in [DOMAIN dag -> 0..2] : zero = [key \in DOMAIN dag |-> 0]
  BY <1>1, Zenon
<1>3. New(dag, zero) = DOMAIN dag /\ Done(dag, zero) = {}
  BY <1>2 DEF New, Done
<1> QED
  BY <1>2, <1>3, Zenon

\* The order in which Go ranges over the tasks names each of them.
LEMMA OrderNamesAll ==
    ASSUME NEW S, IsFiniteSet(S), NEW order \in SetToSeqs(S)
    PROVE  order \in Seq(S) /\ Range(order) = S
<1>1. PICK n \in Nat : n = Cardinality(S)
  BY FS_CardinalityType
<1>2. order \in [1..n -> S] /\ \A i, j \in 1..n : i # j => order[i] # order[j]
  BY <1>1 DEF SetToSeqs
<1>3. order \in Injection(1..n, S)
  BY <1>2 DEF Injection, IsInjective
<1>4. Cardinality(1..n) = n
  BY <1>1, FS_Interval
<1>5. order \in Surjection(1..n, S)
  BY <1>1, <1>3, <1>4, FS_Injection
<1>6. \A s \in S : \E i \in 1..n : order[i] = s
  BY <1>5 DEF Surjection
<1>7. Range(order) = S
  BY <1>2, <1>6 DEF Range
<1> QED
  BY <1>2, <1>7

\* The depth-first search reports no cycle exactly when among any of the tasks there
\* is one that depends on none of them: whatever order Go ranges over the tasks in.
LEMMA NoCycleExactly ==
    ASSUME NEW dag, Graph(dag), NEW order \in SetToSeqs(DOMAIN dag)
    PROVE  NoCycle(dag, order) <=> Acyclic(dag, DOMAIN dag)
<1>1. PICK zero \in [DOMAIN dag -> 0..2] :
         zero = [key \in DOMAIN dag |-> 0] /\ New(dag, zero) = DOMAIN dag /\ Done(dag, zero) = {}
  BY Unvisited, Zenon
<1>2. PICK all : all = DOMAIN dag
  OBVIOUS
<1>3. New(dag, zero) = all /\ Done(dag, zero) = {}
  BY <1>1, <1>2, Zenon
<1>4. order \in Seq(DOMAIN dag) /\ Range(order) = all
  BY <1>2, OrderNamesAll DEF Graph
<1>5. VisitAll(Visit(dag), order, zero) = Search(dag, zero, all)
  <2>1. SearchesWithin(dag, Visit(dag), New(dag, zero))
    BY <1>2, <1>3, VisitSearches, Zenon
  <2> QED
    BY <1>4, <2>1, VisitAllSearches
<1>6. CanFinish(dag, zero, all) <=> Acyclic(dag, all)
  <2>1. ASSUME NEW tasks \in SUBSET all, Covers(dag, zero, all, tasks) PROVE Acyclic(dag, all)
    <3>1. tasks = all
      BY <1>3, <2>1 DEF Covers
    <3> QED
      BY <2>1, <3>1, Zenon DEF Covers, Finishable
  <2>2. ASSUME Acyclic(dag, all) PROVE Covers(dag, zero, all, all)
    <3>1. ASSUME NEW key \in all PROVE DependsOn(dag, key) \subseteq all
      BY <1>2 DEF DependsOn, Graph, Range
    <3> QED
      BY <1>3, <2>2, <3>1 DEF Covers, Finishable
  <2>3. all \in SUBSET all
    OBVIOUS
  <2> QED
    BY <1>2, <2>1, <2>2, <2>3, Zenon DEF CanFinish
<1>7. Search(dag, zero, all) # Cycle <=> CanFinish(dag, zero, all)
  <2>1. PICK U \in SUBSET DOMAIN dag : U = Needed(dag, zero, all)
    BY Zenon DEF Needed
  <2>2. Finished(dag, zero, U) \in [DOMAIN dag -> 0..2]
    BY FinishedColors, Zenon
  <2>3. Finished(dag, zero, U) # Cycle
    BY <2>2, ColoringIsNoCycle DEF Graph
  <2> QED
    BY <2>1, <2>3, Zenon DEF Search
<1> QED
  BY <1>1, <1>2, <1>5, <1>6, <1>7, Zenon DEF NoCycle

-----------------------------------------------------------------------------
(* Ranks                                                                   *)

\* Ranked tasks have no cycle: of any of them, one of least rank depends on none.
LEMMA RankedIsAcyclic ==
    ASSUME NEW dag, Ranked(dag), IsFiniteSet(DOMAIN dag)
    PROVE  Acyclic(dag, DOMAIN dag)
<1>1. Cardinality(DOMAIN dag) \in Nat
  BY FS_CardinalityType
<1>2. PICK rank \in [DOMAIN dag -> 1..Cardinality(DOMAIN dag)] :
         \A key \in DOMAIN dag : \A dep \in Range(dag[key].dependsOn) :
            dep \in DOMAIN dag /\ rank[dep] < rank[key]
  BY Zenon DEF Ranked
<1>3. ASSUME NEW some \in SUBSET DOMAIN dag, some # {}
      PROVE  \E key \in some : DependsOn(dag, key) \cap some = {}
  <2>1. PICK T : T = {rank[key] : key \in some}
    BY Zenon
  <2>2. T \in SUBSET Nat /\ T # {}
    BY <1>1, <1>3, <2>1
  <2>3. PICK m \in T : \A y \in T : m <= y
    BY <2>2, LeastNumber
  <2>4. PICK key \in some : rank[key] = m
    BY <2>1
  <2>5. ASSUME NEW dep \in DependsOn(dag, key) PROVE dep \notin some
    <3>1. rank[dep] < m /\ rank[dep] \in Nat /\ m \in Nat
      BY <1>1, <1>2, <2>4 DEF DependsOn
    <3> QED
      BY <2>1, <2>3, <3>1
  <2> QED
    BY <2>5
<1> QED
  BY <1>3 DEF Acyclic

\* Tasks without a cycle can be ranked: by how many tasks each needs done before it.
LEMMA AcyclicIsRanked ==
    ASSUME NEW dag, Graph(dag), Acyclic(dag, DOMAIN dag)
    PROVE  Ranked(dag)
<1>1. PICK zero \in [DOMAIN dag -> 0..2] :
         zero = [key \in DOMAIN dag |-> 0] /\ New(dag, zero) = DOMAIN dag /\ Done(dag, zero) = {}
  BY Unvisited, Zenon
<1>2. New(dag, zero) = DOMAIN dag /\ Done(dag, zero) = {}
  BY <1>1
<1> DEFINE N(key) == Needed(dag, zero, {key})
<1>3. ASSUME NEW key \in DOMAIN dag PROVE CanFinish(dag, zero, {key}) /\ N(key) \in SUBSET DOMAIN dag
  <2>1. PICK all \in SUBSET DOMAIN dag : all = DOMAIN dag
    OBVIOUS
  <2>2. ASSUME NEW k \in all PROVE DependsOn(dag, k) \subseteq all
    BY <2>1 DEF DependsOn, Graph, Range
  <2>3. Covers(dag, zero, {key}, all)
    BY <1>2, <2>1, <2>2 DEF Covers, Finishable
  <2> QED
    BY <2>3, Zenon DEF CanFinish, Needed
<1>4. ASSUME NEW key \in DOMAIN dag PROVE Covers(dag, zero, {key}, N(key)) /\ key \in N(key)
  <2>1. Covers(dag, zero, {key}, N(key))
    BY <1>3, NeededCovers
  <2> QED
    BY <1>2, <2>1 DEF Covers
<1> HIDE DEF N
<1>5. ASSUME NEW key \in DOMAIN dag, NEW dep \in DependsOn(dag, key)
      PROVE  dep \in DOMAIN dag /\ N(dep) \subseteq N(key) \ {key}
  <2>1. Finishable(dag, zero, N(key)) /\ key \in N(key)
    BY <1>4 DEF Covers
  <2>2. PICK Z \in SUBSET N(key) : /\ key \in Z /\ Finishable(dag, zero, Z)
                                   /\ \A z \in Z : key \notin DependsOn(dag, z)
    BY <2>1, WithoutDependents
  <2>3. PICK W : W = Z \ {key}
    BY Zenon
  <2>4. W \in SUBSET DOMAIN dag
    BY <1>3, <2>3, Zenon
  <2>5. Acyclic(dag, W)
    BY <2>2, <2>3, AcyclicSubset DEF Finishable
  <2>6. /\ \A z \in Z : DependsOn(dag, z) \subseteq W
        /\ W \subseteq New(dag, zero)
    <3>1. \A z \in Z : DependsOn(dag, z) \subseteq Z
      BY <1>2, <2>2 DEF Finishable
    <3> QED
      BY <1>2, <2>2, <2>3, <2>4, <3>1
  <2>7. dep \in W /\ \A z \in W : DependsOn(dag, z) \subseteq W
    BY <2>2, <2>3, <2>6
  <2>8. Covers(dag, zero, {dep}, W)
    BY <2>5, <2>6, <2>7 DEF Covers, Finishable
  <2>9. N(dep) \subseteq W
    BY <2>4, <2>8, NeededLeast, Zenon DEF N
  <2> QED
    BY <2>2, <2>3, <2>4, <2>7, <2>9
<1> DEFINE rank == [key \in DOMAIN dag |-> Cardinality(N(key))]
<1>6. ASSUME NEW key \in DOMAIN dag
      PROVE  IsFiniteSet(N(key)) /\ Cardinality(N(key)) \in 1..Cardinality(DOMAIN dag)
  <2>1. IsFiniteSet(DOMAIN dag)
    BY DEF Graph
  <2>2. IsFiniteSet(N(key)) /\ Cardinality(N(key)) <= Cardinality(DOMAIN dag)
    BY <1>3, <2>1, FS_Subset, Zenon
  <2>3. Cardinality(N(key)) \in Nat /\ Cardinality(DOMAIN dag) \in Nat
    BY <2>1, <2>2, FS_CardinalityType
  <2>4. Cardinality(N(key)) # 0
    BY <1>4, <2>2, FS_EmptySet, Zenon
  <2> QED
    BY <2>2, <2>3, <2>4
<1>7. ASSUME NEW key \in DOMAIN dag, NEW dep \in Range(dag[key].dependsOn)
      PROVE  dep \in DOMAIN dag /\ rank[dep] < rank[key]
  <2>1. dep \in DOMAIN dag /\ N(dep) \subseteq N(key) \ {key}
    BY <1>5, <1>7, Zenon DEF DependsOn
  <2>2. PICK less : less = N(key) \ {key}
    BY Zenon
  <2>3. IsFiniteSet(less) /\ Cardinality(less) = Cardinality(N(key)) - 1
    BY <1>4, <1>6, <2>2, FS_RemoveElement, Zenon
  <2>4. Cardinality(N(dep)) <= Cardinality(less)
    BY <2>1, <2>2, <2>3, FS_Subset
  <2>5. Cardinality(N(dep)) \in Nat /\ Cardinality(N(key)) \in Nat
    BY <1>6, <2>1
  <2> QED
    BY <2>1, <2>3, <2>4, <2>5
<1>8. rank \in [DOMAIN dag -> 1..Cardinality(DOMAIN dag)]
  BY <1>6
<1> HIDE DEF rank
<1> QED
  BY <1>7, <1>8, Zenon DEF Ranked

\* The cycle check of ValidateDAG is exact: on a DAG whose dependencies exist, the
\* depth-first search passes if and only if the tasks can be ranked, for any number of
\* tasks and any order in which Go ranges over them.
THEOREM CycleCheckIsExact ==
    ASSUME NEW dag, Graph(dag), NEW order \in SetToSeqs(DOMAIN dag)
    PROVE  NoCycle(dag, order) <=> Ranked(dag)
<1>1. NoCycle(dag, order) <=> Acyclic(dag, DOMAIN dag)
  BY NoCycleExactly
<1>2. Ranked(dag) => Acyclic(dag, DOMAIN dag)
  BY RankedIsAcyclic DEF Graph
<1>3. Acyclic(dag, DOMAIN dag) => Ranked(dag)
  BY AcyclicIsRanked
<1> QED
  BY <1>1, <1>2, <1>3

-----------------------------------------------------------------------------
(* Running the tasks                                                       *)

More(table, done) == {key \in DOMAIN table : table[key].upstream \subseteq done}

\* Among any unfinished tasks there is one that waits for none of them.
Unlocks(table) ==
    \A some \in SUBSET DOMAIN table :
        some # {} => \E key \in some : table[key].upstream \subseteq DOMAIN table \ some

\* The recursion equation of DoneFrom.
Completes(table, from) ==
    from = [done \in SUBSET DOMAIN table |->
               IF More(table, done) \subseteq done THEN done ELSE from[done \cup More(table, done)]]

\* Success of the tasks that can run unlocks all the others.
LEMMA AllGetDone ==
    ASSUME NEW table, IsFiniteSet(DOMAIN table), Unlocks(table), NEW first \in SUBSET DOMAIN table
    PROVE  DoneFrom(table, first) = DOMAIN table
<1>1. ASSUME NEW done \in SUBSET DOMAIN table, More(table, done) \subseteq done PROVE done = DOMAIN table
  <2>1. PICK some : some = DOMAIN table \ done
    BY Zenon
  <2>2. ASSUME some # {} PROVE FALSE
    <3>1. PICK key \in some : table[key].upstream \subseteq DOMAIN table \ some
      BY <2>1, <2>2 DEF Unlocks
    <3>2. key \in More(table, done)
      BY <2>1, <3>1 DEF More
    <3> QED
      BY <1>1, <2>1, <3>2
  <2> QED
    BY <2>1, <2>2
<1>2. ASSUME NEW done \in SUBSET DOMAIN table PROVE done \cup More(table, done) \in SUBSET DOMAIN table
  BY DEF More
<1>3. Completes(table, [done \in SUBSET DOMAIN table |-> DOMAIN table])
  BY <1>1, <1>2, Zenon DEF Completes
<1>4. PICK from : from = CHOOSE f : Completes(table, f)
  OBVIOUS
<1>5. Completes(table, from)
  BY <1>3, <1>4, Zenon
<1>6. DoneFrom(table, first) = from[first]
  BY <1>4, Zenon DEF DoneFrom, Completes, More
<1>7. ASSUME NEW done \in SUBSET DOMAIN table
      PROVE  from[done] = IF More(table, done) \subseteq done THEN done ELSE from[done \cup More(table, done)]
  BY <1>5, Zenon DEF Completes
<1> DEFINE Left(done) == DOMAIN table \ done
           Bad == {n \in Nat : \E done \in SUBSET DOMAIN table : Cardinality(Left(done)) = n /\ from[done] # DOMAIN table}
<1>8. ASSUME NEW done \in SUBSET DOMAIN table PROVE IsFiniteSet(Left(done)) /\ Cardinality(Left(done)) \in Nat
  <2>1. Left(done) \in SUBSET DOMAIN table
    OBVIOUS
  <2>2. IsFiniteSet(Left(done))
    BY <2>1, FS_Subset
  <2> QED
    BY <2>2, FS_CardinalityType
<1>9. ASSUME Bad # {} PROVE FALSE
  <2>1. PICK n \in Bad : \A m \in Bad : n <= m
    BY <1>9, LeastNumber, Zenon
  <2>2. PICK done \in SUBSET DOMAIN table : Cardinality(Left(done)) = n /\ from[done] # DOMAIN table
    OBVIOUS
  <2>3. ~(More(table, done) \subseteq done)
    BY <1>1, <1>7, <2>2, Zenon
  <2>4. PICK after \in SUBSET DOMAIN table : after = done \cup More(table, done)
    BY <1>2, Zenon
  <2>5. from[after] # DOMAIN table
    BY <1>7, <2>2, <2>3, <2>4, Zenon
  <2>6. Left(after) \in SUBSET Left(done) /\ Left(after) # Left(done)
    BY <2>3, <2>4 DEF More
  <2>7. Cardinality(Left(after)) <= n /\ n # Cardinality(Left(after))
    <3>0. PICK S : S = Left(done)
      BY Zenon
    <3>1. PICK T \in SUBSET S : T = Left(after)
      BY <2>6, <3>0, Zenon
    <3>2. IsFiniteSet(S) /\ S # T
      BY <1>8, <2>6, <3>0, <3>1, Zenon
    <3>3. Cardinality(T) <= Cardinality(S) /\ Cardinality(S) # Cardinality(T)
      BY <3>2, FS_Subset
    <3> QED
      BY <2>2, <3>0, <3>1, <3>3, Zenon
  <2>8. Cardinality(Left(after)) \in Bad
    BY <1>8, <2>5, Zenon
  <2>9. n \in Nat /\ Cardinality(Left(after)) \in Nat
    BY <1>8
  <2> HIDE DEF Bad, Left
  <2> QED
    BY <2>1, <2>7, <2>8, <2>9
<1>10. from[first] = DOMAIN table
  BY <1>8, <1>9, Zenon
<1> QED
  BY <1>6, <1>10, Zenon

-----------------------------------------------------------------------------
(* Validation                                                              *)

\* What Go's types guarantee of a decoded DAG.
Decoded(dag) ==
    /\ IsFiniteSet(DOMAIN dag)
    /\ \A key \in DOMAIN dag :
          dag[key] \in [handler : {dag[key].handler}, dependsOn : Seq(Range(dag[key].dependsOn)),
                        maximumAttempts : Int, timeoutSeconds : Int]

LEMMA DecodedFields ==
    ASSUME NEW dag, Decoded(dag), NEW key \in DOMAIN dag
    PROVE  /\ dag[key].dependsOn \in Seq(Range(dag[key].dependsOn))
           /\ dag[key].maximumAttempts \in Int /\ dag[key].timeoutSeconds \in Int
<1>1. PICK spec : spec = dag[key]
  OBVIOUS
<1>2. spec \in [handler : {spec.handler}, dependsOn : Seq(Range(spec.dependsOn)),
                maximumAttempts : Int, timeoutSeconds : Int]
  BY <1>1, Zenon DEF Decoded
<1>3. spec.dependsOn \in Seq(Range(spec.dependsOn)) /\ spec.maximumAttempts \in Int /\ spec.timeoutSeconds \in Int
  BY <1>2
<1> QED
  BY <1>1, <1>3, Zenon

\* The loop over depends_on passes exactly when no key is repeated, missing or the task's own.
LEMMA DependenciesExactly ==
    ASSUME NEW dag, Decoded(dag), NEW key \in DOMAIN dag
    PROVE  DependenciesOK(dag, key) <=> /\ IsInjective(dag[key].dependsOn)
                                        /\ DependsOn(dag, key) \subseteq DOMAIN dag \ {key}
<1>1. PICK deps, keys, n : deps = dag[key].dependsOn /\ deps \in Seq(keys) /\ n = Len(deps)
  BY DecodedFields, Zenon
<1>2. n \in Nat /\ DOMAIN deps = 1..n
  BY <1>1
<1>3. (\A i \in 1..n : \A j \in 1..(i - 1) : deps[j] # deps[i]) <=> (\A i, j \in 1..n : deps[i] = deps[j] => i = j)
  <2>1. ASSUME \A i \in 1..n : \A j \in 1..(i - 1) : deps[j] # deps[i], NEW i \in 1..n, NEW j \in 1..n, deps[i] = deps[j]
        PROVE  i = j
    <3>1. CASE i < j
      <4>1. i \in 1..(j - 1)
        BY <1>2, <3>1
      <4> QED
        BY <2>1, <4>1, Zenon
    <3>2. CASE j < i
      <4>1. j \in 1..(i - 1)
        BY <1>2, <3>2
      <4> QED
        BY <2>1, <4>1, Zenon
    <3> QED
      BY <1>2, <3>1, <3>2
  <2>2. ASSUME \A i, j \in 1..n : deps[i] = deps[j] => i = j, NEW i \in 1..n, NEW j \in 1..(i - 1)
        PROVE  deps[j] # deps[i]
    <3>1. j \in 1..n /\ i # j
      BY <1>2
    <3> QED
      BY <2>2, <3>1, Zenon
  <2> QED
    BY <2>1, <2>2, Zenon
<1>4. IsInjective(deps) <=> \A i, j \in 1..n : deps[i] = deps[j] => i = j
  BY <1>2, Zenon DEF IsInjective
<1>5. DependsOn(dag, key) = {deps[i] : i \in 1..n}
  BY <1>1, <1>2, Zenon DEF DependsOn, Range
<1>6. DependenciesOK(dag, key) <=> /\ \A i \in 1..n : deps[i] # key /\ deps[i] \in DOMAIN dag
                                   /\ \A i \in 1..n : \A j \in 1..(i - 1) : deps[j] # deps[i]
  BY <1>1, <1>2, Zenon DEF DependenciesOK
<1>7. DependsOn(dag, key) \subseteq DOMAIN dag \ {key} <=> \A i \in 1..n : deps[i] # key /\ deps[i] \in DOMAIN dag
  BY <1>5, Zenon
<1> QED
  BY <1>1, <1>3, <1>4, <1>6, <1>7, Zenon

\* Dependencies that exist make a graph.
LEMMA DecodedGraph ==
    ASSUME NEW dag, Decoded(dag), DOMAIN dag # {}, \A key \in DOMAIN dag : DependsOn(dag, key) \subseteq DOMAIN dag
    PROVE  Graph(dag)
<1>1. ASSUME NEW key \in DOMAIN dag PROVE dag[key].dependsOn \in Seq(DOMAIN dag)
  <2>1. PICK deps, keys : deps = dag[key].dependsOn /\ deps \in Seq(keys) /\ keys = DependsOn(dag, key)
    BY DecodedFields, Zenon DEF DependsOn
  <2>2. keys \subseteq DOMAIN dag
    BY <2>1
  <2>3. deps \in Seq(DOMAIN dag)
    BY <2>1, <2>2
  <2> QED
    BY <2>1, <2>3, Zenon
<1> QED
  BY <1>1, Zenon DEF Graph, Decoded

\* A ranked task depends on tasks of the DAG, and not on itself.
LEMMA RankedDependencies ==
    ASSUME NEW dag, IsFiniteSet(DOMAIN dag), Ranked(dag), NEW key \in DOMAIN dag
    PROVE  DependsOn(dag, key) \subseteq DOMAIN dag \ {key}
<1>1. PICK n \in Nat : n = Cardinality(DOMAIN dag)
  BY FS_CardinalityType
<1>2. PICK rank \in [DOMAIN dag -> 1..n] :
         \A k \in DOMAIN dag : \A dep \in Range(dag[k].dependsOn) : dep \in DOMAIN dag /\ rank[dep] < rank[k]
  BY <1>1, Zenon DEF Ranked
<1>3. ~(rank[key] < rank[key])
  BY <1>1
<1> QED
  BY <1>2, <1>3, Zenon DEF DependsOn

\* ValidateDAG accepts a DAG if and only if it can be run: its cycle check, its limits and its
\* checks of keys and dependencies refuse nothing else, in whatever order Go ranges over the tasks.
THEOREM ValidationIsExact ==
    ASSUME NEW dag, Decoded(dag), NEW order \in SetToSeqs(DOMAIN dag)
    PROVE  ValidateDAG(dag, order) <=> Runnable(dag)
<1>1. ASSUME NEW key \in DOMAIN dag
      PROVE  /\ BudgetOK(dag[key].maximumAttempts, MaxAttempts) <=> dag[key].maximumAttempts \in 0..MaxAttempts
             /\ BudgetOK(dag[key].timeoutSeconds, MaxTimeout) <=> dag[key].timeoutSeconds \in 0..MaxTimeout
  <2>1. PICK a, t : a = dag[key].maximumAttempts /\ t = dag[key].timeoutSeconds /\ a \in Int /\ t \in Int
    BY DecodedFields, Zenon
  <2>2. MaxAttempts \in Nat /\ MaxTimeout \in Nat
    BY DefinitionsAssumption
  <2>3. (BudgetOK(a, MaxAttempts) <=> a \in 0..MaxAttempts) /\ (BudgetOK(t, MaxTimeout) <=> t \in 0..MaxTimeout)
    BY <2>1, <2>2 DEF BudgetOK
  <2> QED
    BY <2>1, <2>3, Zenon
<1>2. (\A key \in DOMAIN dag : TaskOK(dag, key)) <=>
         \A key \in DOMAIN dag : /\ {key, dag[key].handler} \subseteq WellFormed
                                 /\ dag[key].maximumAttempts \in 0..MaxAttempts
                                 /\ dag[key].timeoutSeconds \in 0..MaxTimeout
                                 /\ IsInjective(dag[key].dependsOn)
                                 /\ DependsOn(dag, key) \subseteq DOMAIN dag \ {key}
  <2>1. ASSUME NEW key \in DOMAIN dag
        PROVE  TaskOK(dag, key) <=> /\ {key, dag[key].handler} \subseteq WellFormed
                                    /\ dag[key].maximumAttempts \in 0..MaxAttempts
                                    /\ dag[key].timeoutSeconds \in 0..MaxTimeout
                                    /\ IsInjective(dag[key].dependsOn)
                                    /\ DependsOn(dag, key) \subseteq DOMAIN dag \ {key}
    BY <1>1, DependenciesExactly, Zenon DEF TaskOK
  <2> QED
    BY <2>1, Zenon
<1>3. ASSUME DOMAIN dag # {}, \A key \in DOMAIN dag : DependsOn(dag, key) \subseteq DOMAIN dag \ {key}
      PROVE  NoCycle(dag, order) <=> Ranked(dag)
  <2>1. Graph(dag)
    BY <1>3, DecodedGraph
  <2> QED
    BY <2>1, CycleCheckIsExact
<1>4. ASSUME Ranked(dag), NEW key \in DOMAIN dag PROVE DependsOn(dag, key) \subseteq DOMAIN dag \ {key}
  BY <1>4, RankedDependencies DEF Decoded
<1> QED
  BY <1>2, <1>3, <1>4, Zenon DEF ValidateDAG, Runnable

\* The rows of a DAG that can be run: success of the READY tasks unlocks all the others.
LEMMA RunnableFinishes ==
    ASSUME NEW dag, Decoded(dag), Runnable(dag), NEW first \in SUBSET DOMAIN dag
    PROVE  DoneFrom(TaskRows(dag), first) = DOMAIN dag
<1>1. PICK table : table = TaskRows(dag)
  OBVIOUS
<1>2. DOMAIN table = DOMAIN dag
  BY <1>1 DEF TaskRows
<1>3. ASSUME NEW key \in DOMAIN dag PROVE table[key].upstream = DependsOn(dag, key)
  <2>1. PICK spec : spec = dag[key]
    OBVIOUS
  <2>2. spec \in [handler : {spec.handler}, dependsOn : Seq(Range(spec.dependsOn)),
                  maximumAttempts : Int, timeoutSeconds : Int]
    BY <2>1, Zenon DEF Decoded
  <2>3. WithDefaults(spec).dependsOn = spec.dependsOn
    BY <2>2 DEF WithDefaults
  <2>4. table[key].upstream = {WithDefaults(spec).dependsOn[i] : i \in DOMAIN WithDefaults(spec).dependsOn}
    BY <1>1, <2>1 DEF TaskRows
  <2> QED
    BY <2>1, <2>3, <2>4, Zenon DEF DependsOn, Range
<1>4. IsFiniteSet(DOMAIN dag) /\ Ranked(dag)
  BY DEF Decoded, Runnable
<1>5. Acyclic(dag, DOMAIN dag)
  BY <1>4, RankedIsAcyclic
<1>6. ASSUME NEW key \in DOMAIN dag PROVE DependsOn(dag, key) \subseteq DOMAIN dag
  BY <1>4, RankedDependencies
<1>7. ASSUME NEW some \in SUBSET DOMAIN table, some # {}
      PROVE  \E key \in some : table[key].upstream \subseteq DOMAIN table \ some
  <2>1. PICK key \in some : DependsOn(dag, key) \cap some = {}
    BY <1>2, <1>5, <1>7, Zenon DEF Acyclic
  <2>2. table[key].upstream \subseteq DOMAIN table \ some
    BY <1>2, <1>3, <1>6, <2>1
  <2> QED
    BY <2>2
<1>8. Unlocks(table)
  BY <1>7, Zenon DEF Unlocks
<1>9. DoneFrom(table, first) = DOMAIN table
  BY <1>2, <1>4, <1>8, AllGetDone
<1> QED
  BY <1>1, <1>2, <1>9, Zenon

=============================================================================
