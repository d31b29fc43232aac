---------------------------- MODULE PlannerProofs ----------------------------
(***************************************************************************)
(* Theorems about Planner and Definition: for any definitions, of any      *)
(* length, what Kahn's algorithm decides, what dry_run finds, and what     *)
(* validate says of both.                                                  *)
(***************************************************************************)
EXTENDS Definition, FiniteSetTheorems, WellFoundedInduction, TLAPS

-----------------------------------------------------------------------------
(* The inductive invariant, by the loops of dry_run *)

\* Where pc has been: from the sort on the graph is known to be one, from the
\* phases on the order is complete.
Sorting == pc = "sort"
Sorted == pc \in {"phases", "relax", "walk", "done"}
Layered == pc \in {"relax", "walk", "done"}
Walking == pc \in {"walk", "done"}

Distinct(s) == \A i, j \in 1 .. Len(s) : s[i] = s[j] => i = j
Prefix(s, k) == {s[i] : i \in 1 .. k}

GraphInv ==
  /\ IsFiniteSet(Tasks)
  /\ pc \in {"define", "build", "sort", "phases", "relax", "walk", "done", "raised"}
  /\ pc \in {"define", "build", "sort"} => phases = <<>>
  /\ pc \in {"define", "build", "sort", "phases"} => relaxed = 0
  /\ pc \in {"define", "build"} => order = <<>>
  /\ pc = "define" => Tasks = {}
  /\ Sorting \/ Sorted => AllDependenciesKnown(Tasks, dependsOn)

\* The order so far has every task after its dependencies.
Topological ==
  /\ order \in Seq(Tasks) /\ Distinct(order)
  /\ \A j \in 1 .. Len(order) : dependsOn[order[j]] \subseteq Prefix(order, j - 1)

Ordered == Prefix(order, Len(order))

\* The in-degrees count the dependencies that are not in the order yet, and the
\* queue holds the tasks without one.
QueueFits ==
  /\ queue \in Seq(Tasks) /\ Distinct(queue)
  /\ \A t \in Tasks : inDegree[t] = Cardinality(dependsOn[t] \ Ordered)
  /\ Prefix(queue, Len(queue)) = {t \in Tasks \ Ordered : dependsOn[t] \subseteq Ordered}

SortInv ==
  /\ Sorting \/ Sorted => Topological
  /\ Sorting => DOMAIN inDegree = Tasks /\ QueueFits
  /\ Sorted => Ordered = Tasks

\* What the first k phases hold.
PlannedBy(k) == UNION {phases[i] : i \in 1 .. k}

\* Each phase is all that is ready when the ones before it are done.
PhasesInv ==
  /\ Sorted =>
       /\ phases \in Seq(SUBSET Tasks)
       /\ \A k \in 1 .. Len(phases) :
            phases[k] = GetReadyNodes(Tasks, dependsOn, PlannedBy(k - 1)) /\ phases[k] # {}
  /\ Layered => PlannedBy(Len(phases)) = Tasks

\* The distance of a task is no less than a relaxed dependency makes it, and
\* pred tells which one made it; that of a relaxed task is the number of its phase.
DistancesFit ==
  /\ dist \in [Tasks -> Nat \ {0}]
  /\ \A t \in Tasks : \A d \in dependsOn[t] \cap Prefix(order, relaxed) : dist[t] > dist[d]
  /\ \A t \in Tasks :
       \/ pred[t] = {} /\ dist[t] = 1
       \/ \E d \in dependsOn[t] \cap Prefix(order, relaxed) : pred[t] = {d} /\ dist[t] = dist[d] + 1
  /\ \A t \in Prefix(order, relaxed) : dist[t] <= Len(phases) /\ t \in phases[dist[t]]

RelaxInv ==
  /\ Layered => relaxed \in 0 .. Len(order) /\ DistancesFit
  /\ Walking => relaxed = Len(order)

\* The path found so far is a chain, and what is left of it as long as its head
\* is far.
WalkInv ==
  Walking =>
    /\ path \in Seq(Tasks) /\ path # <<>>
    /\ \A i \in 1 .. Len(path) - 1 : path[i] \in dependsOn[path[i + 1]]
    /\ Len(path) + dist[path[1]] = Len(phases) + 1
    /\ pc = "done" => dist[path[1]] = 1

RaisedInv == pc = "raised" => Tasks = {} \/ ~BuildsDag(Tasks, dependsOn)

PlanInv == GraphInv /\ SortInv /\ PhasesInv /\ RelaxInv /\ WalkInv /\ RaisedInv

\* What is known of the tasks made from the definition.
DefinitionInv ==
  /\ definition \in Definitions
  /\ tasks \in Seq(Range(definition)) /\ Len(tasks) <= Len(definition)
  /\ \A i \in 1 .. Len(tasks) : tasks[i] = definition[i]
  /\ validated => route = "parser"
  /\ route = "parser" => \A i \in 1 .. Len(tasks) : tasks[i].name # NoName
  /\ route = "parser" /\ built => definition # <<>> /\ Len(tasks) = Len(definition)
  /\ pc \notin {"define", "raised"} => built /\ dependsOn = GraphOf(tasks)
  /\ pc = "raised" /\ ~built => definition = <<>> \/ \E e \in Range(definition) : e.name = NoName

ErrorsFit ==
  validated =>
    /\ errors \subseteq {"empty", "nameless", "duplicate", "itself"}
    /\ "empty" \in errors <=> definition = <<>>
    /\ "nameless" \in errors <=> \E e \in Range(definition) : e.name = NoName
    /\ "itself" \in errors <=> \E e \in Range(definition) : e.name \in e.dependsOn
    /\ "duplicate" \in errors <=>
         \E i, j \in DOMAIN definition :
           j < i /\ definition[i].name = definition[j].name /\ definition[i].name # NoName

IInv == PlanInv /\ DefinitionInv /\ ErrorsFit

-----------------------------------------------------------------------------
(* Sequences and sets *)

LEMMA PrefixIsRange ==
  ASSUME NEW S, NEW s \in Seq(S)
  PROVE  Prefix(s, Len(s)) = Range(s)
  BY DEF Prefix, Range

LEMMA PrefixGrows ==
  ASSUME NEW s, NEW k \in Nat
  PROVE  Prefix(s, k + 1) = Prefix(s, k) \cup {s[k + 1]}
<1>1. 1 .. k + 1 = (1 .. k) \cup {k + 1}
  OBVIOUS
<1> QED
  BY <1>1 DEF Prefix

LEMMA SamePrefix ==
  ASSUME NEW s, NEW t, NEW k \in Nat, \A i \in 1 .. k : s[i] = t[i]
  PROVE  Prefix(s, k) = Prefix(t, k)
  BY DEF Prefix

LEMMA AppendedSeq ==
  ASSUME NEW S, NEW s \in Seq(S), NEW e \in S
  PROVE  /\ Append(s, e) \in Seq(S)
         /\ Len(s) \in Nat /\ Len(Append(s, e)) = Len(s) + 1
         /\ Append(s, e)[Len(s) + 1] = e
         /\ \A i \in 1 .. Len(s) : Append(s, e)[i] = s[i]
  OBVIOUS

LEMMA AppendedPrefix ==
  ASSUME NEW S, NEW s \in Seq(S), NEW e \in S
  PROVE  /\ \A k \in 0 .. Len(s) : Prefix(Append(s, e), k) = Prefix(s, k)
         /\ Prefix(Append(s, e), Len(s) + 1) = Prefix(s, Len(s)) \cup {e}
<1> DEFINE t == Append(s, e)
<1>1. Len(s) \in Nat /\ t[Len(s) + 1] = e /\ \A i \in 1 .. Len(s) : t[i] = s[i]
  OBVIOUS
<1> HIDE DEF t
<1>2. \A k \in 0 .. Len(s) : Prefix(t, k) = Prefix(s, k)
  <2> TAKE k \in 0 .. Len(s)
  <2>1. k \in Nat /\ \A i \in 1 .. k : t[i] = s[i]
    BY <1>1
  <2> QED
    BY <2>1, SamePrefix, Zenon
<1>3. Prefix(t, Len(s) + 1) = Prefix(t, Len(s)) \cup {t[Len(s) + 1]}
  BY <1>1, PrefixGrows, Zenon
<1>4. Prefix(t, Len(s)) = Prefix(s, Len(s))
  BY <1>1, <1>2
<1> QED
  BY <1>1, <1>2, <1>3, <1>4, Zenon DEF t

\* A sequence without repetition is as long as the set of its members.
LEMMA DistinctCount ==
  ASSUME NEW S, NEW s \in Seq(S), Distinct(s)
  PROVE  /\ IsFiniteSet(Prefix(s, Len(s)))
         /\ Cardinality(Prefix(s, Len(s))) = Len(s)
<1> DEFINE R == Prefix(s, Len(s))
<1>1. s \in [1 .. Len(s) -> R] /\ Len(s) \in Nat
  BY DEF Prefix
<1>2. s \in Bijection(1 .. Len(s), R)
  <2>1. s \in Injection(1 .. Len(s), R)
    BY <1>1 DEF Distinct, Injection, IsInjective
  <2>2. s \in Surjection(1 .. Len(s), R)
    BY <1>1 DEF Prefix, Surjection
  <2> HIDE DEF R
  <2> QED
    BY <2>1, <2>2, Zenon DEF Bijection
<1>3. IsFiniteSet(1 .. Len(s)) /\ Cardinality(1 .. Len(s)) = Len(s)
  <2> DEFINE n == Len(s)
  <2>1. n \in Nat
    OBVIOUS
  <2> HIDE DEF n
  <2>2. IsFiniteSet(1 .. n) /\ Cardinality(1 .. n) = n
    BY <2>1, FS_Interval, SMTT(30)
  <2> QED
    BY <2>2 DEF n
<1> QED
  BY <1>2, <1>3, FS_Bijection DEF ExistsBijection

\* SetToSeqs orders the set.
LEMMA OrderedSet ==
  ASSUME NEW S, IsFiniteSet(S), NEW s \in SetToSeqs(S)
  PROVE  s \in Seq(S) /\ Distinct(s) /\ Prefix(s, Len(s)) = S
<1> DEFINE n == Cardinality(S)
<1>1. n \in Nat
  BY FS_CardinalityType
<1>2. s \in [1 .. n -> S] /\ \A i, j \in 1 .. n : i # j => s[i] # s[j]
  BY DEF SetToSeqs
<1>3. s \in Seq(S) /\ Len(s) = n
  BY <1>1, <1>2
<1>4. s \in Injection(1 .. n, S)
  BY <1>2 DEF Injection, IsInjective
<1>5. Cardinality(1 .. n) = n
  BY <1>1, FS_Interval
<1>6. s \in Surjection(1 .. n, S)
  BY <1>4, <1>5, FS_Injection
<1> QED
  BY <1>2, <1>3, <1>6 DEF Distinct, Prefix, Surjection

\* Two sequences without a member in common follow each other without repetition.
LEMMA DistinctConcat ==
  ASSUME NEW S, NEW s \in Seq(S), NEW t \in Seq(S), Distinct(s), Distinct(t),
         Prefix(s, Len(s)) \cap Prefix(t, Len(t)) = {}
  PROVE  /\ s \o t \in Seq(S) /\ Distinct(s \o t)
         /\ Prefix(s \o t, Len(s \o t)) = Prefix(s, Len(s)) \cup Prefix(t, Len(t))
<1>1. /\ s \o t \in Seq(S) /\ Len(s \o t) = Len(s) + Len(t)
      /\ \A i \in 1 .. Len(s) : (s \o t)[i] = s[i]
      /\ \A i \in 1 .. Len(t) : (s \o t)[Len(s) + i] = t[i]
  OBVIOUS
<1>2. \A i \in 1 .. Len(s) + Len(t) : i \in 1 .. Len(s) \/ i - Len(s) \in 1 .. Len(t)
  OBVIOUS
<1>3. \A i \in 1 .. Len(s), j \in 1 .. Len(t) : s[i] # t[j]
  BY DEF Prefix
<1>4. Distinct(s \o t)
  <2> SUFFICES ASSUME NEW i \in 1 .. Len(s) + Len(t), NEW j \in 1 .. Len(s) + Len(t),
                      (s \o t)[i] = (s \o t)[j]
               PROVE  i = j
    BY <1>1 DEF Distinct
  <2>1. CASE i \in 1 .. Len(s) /\ j \in 1 .. Len(s)
    BY <1>1, <2>1 DEF Distinct
  <2>2. CASE i - Len(s) \in 1 .. Len(t) /\ j - Len(s) \in 1 .. Len(t)
    <3>1. (s \o t)[i] = t[i - Len(s)] /\ (s \o t)[j] = t[j - Len(s)]
      BY <2>2
    <3>2. i - Len(s) = j - Len(s)
      BY <2>2, <3>1 DEF Distinct
    <3> QED
      BY <3>2
  <2>3. CASE i \in 1 .. Len(s) /\ j - Len(s) \in 1 .. Len(t)
    <3>1. (s \o t)[i] = s[i] /\ (s \o t)[j] = t[j - Len(s)]
      BY <2>3
    <3> QED
      BY <1>3, <2>3, <3>1
  <2>4. CASE i - Len(s) \in 1 .. Len(t) /\ j \in 1 .. Len(s)
    <3>1. (s \o t)[i] = t[i - Len(s)] /\ (s \o t)[j] = s[j]
      BY <2>4
    <3> QED
      BY <1>3, <2>4, <3>1
  <2> QED
    BY <1>2, <2>1, <2>2, <2>3, <2>4
<1> DEFINE u == s \o t
<1>5. /\ Len(s) \in Nat /\ Len(t) \in Nat /\ Len(u) = Len(s) + Len(t)
      /\ \A i \in 1 .. Len(s) : u[i] = s[i]
      /\ \A i \in 1 .. Len(t) : u[Len(s) + i] = t[i]
  BY <1>1
<1> HIDE DEF u
<1>6. ASSUME NEW i \in 1 .. Len(u)
      PROVE  u[i] \in Prefix(s, Len(s)) \cup Prefix(t, Len(t))
  <2>1. CASE i \in 1 .. Len(s)
    BY <1>5, <2>1 DEF Prefix
  <2>2. CASE i - Len(s) \in 1 .. Len(t)
    <3>1. u[Len(s) + (i - Len(s))] = t[i - Len(s)] /\ Len(s) + (i - Len(s)) = i
      BY <1>5, <2>2
    <3> QED
      BY <2>2, <3>1 DEF Prefix
  <2> QED
    BY <1>2, <1>5, <2>1, <2>2
<1>7. ASSUME NEW i \in 1 .. Len(s) PROVE s[i] \in Prefix(u, Len(u))
  <2>1. i \in 1 .. Len(u)
    BY <1>5
  <2> QED
    BY <1>5, <2>1 DEF Prefix
<1>8. ASSUME NEW i \in 1 .. Len(t) PROVE t[i] \in Prefix(u, Len(u))
  <2>1. Len(s) + i \in 1 .. Len(u)
    BY <1>5
  <2> QED
    BY <1>5, <2>1 DEF Prefix
<1>9. Prefix(u, Len(u)) = Prefix(s, Len(s)) \cup Prefix(t, Len(t))
  <2>1. Prefix(u, Len(u)) \subseteq Prefix(s, Len(s)) \cup Prefix(t, Len(t))
    BY <1>6, Zenon DEF Prefix
  <2>2. Prefix(s, Len(s)) \subseteq Prefix(u, Len(u))
    BY <1>7, Zenon DEF Prefix
  <2>3. Prefix(t, Len(t)) \subseteq Prefix(u, Len(u))
    BY <1>8, Zenon DEF Prefix
  <2> QED
    BY <2>1, <2>2, <2>3
<1> QED
  BY <1>1, <1>4, <1>9 DEF u

LEMMA EmptyPrefix ==
  ASSUME NEW s
  PROVE  Prefix(s, 0) = {}
  BY DEF Prefix

LEMMA LeastNumber ==
  ASSUME NEW T, T \subseteq Nat, T # {}
  PROVE  \E m \in T : \A i \in T : m <= i
<1>1. PICK m \in T : \A i \in T : ~(<<i, m>> \in OpToRel(<, Nat))
  BY NatLessThanWellFounded, WFMin
<1>2. \A i \in T : ~(i < m)
  BY <1>1 DEF OpToRel
<1> QED
  BY <1>2

-----------------------------------------------------------------------------
(* Orders and cycles *)

\* A graph that has an order with every task after its dependencies has no
\* cycle: of any tasks, the first one in the order depends on none of the others.
LEMMA OrderedIsAcyclic ==
  ASSUME Topological, Ordered = Tasks
  PROVE  Acyclic(Tasks, dependsOn)
<1> SUFFICES ASSUME NEW S \in SUBSET Tasks, S # {}
             PROVE  \E t \in S : dependsOn[t] \cap S = {}
  BY DEF Acyclic
<1> DEFINE places == {i \in 1 .. Len(order) : order[i] \in S}
<1>1. Len(order) \in Nat
  BY DEF Topological
<1>2. places # {} /\ places \subseteq Nat
  BY <1>1 DEF Ordered, Prefix
<1>3. PICK first \in places : \A i \in places : first <= i
  BY <1>2, LeastNumber, Zenon
<1>4. \A d \in Prefix(order, first - 1) : d \notin S
  BY <1>1, <1>3 DEF Prefix
<1> QED
  BY <1>1, <1>3, <1>4 DEF Topological

\* Tasks that wait for each other are on no order.
LEMMA StuckIsCyclic ==
  ASSUME NEW done \in SUBSET Tasks, done # Tasks,
         \A t \in Tasks \ done : ~(dependsOn[t] \subseteq done),
         AllDependenciesKnown(Tasks, dependsOn)
  PROVE  ~Acyclic(Tasks, dependsOn)
<1> DEFINE S == Tasks \ done
<1>1. S \in SUBSET Tasks /\ S # {}
  OBVIOUS
<1>2. \A t \in S : dependsOn[t] \cap S # {}
  BY DEF AllDependenciesKnown
<1> QED
  BY <1>1, <1>2 DEF Acyclic

-----------------------------------------------------------------------------
(* The steps that plan *)

LEMMA KeptPlan ==
  ASSUME PlanInv, UNCHANGED vars
  PROVE  PlanInv'
<1> USE DEF vars, Tasks, Sorting, Sorted, Layered, Walking
<1>1. GraphInv'
  BY DEF PlanInv, GraphInv
<1>2. SortInv'
  BY DEF PlanInv, SortInv, Topological, QueueFits, Ordered
<1>3. PhasesInv'
  BY DEF PlanInv, PhasesInv, PlannedBy
<1>4. RelaxInv'
  BY DEF PlanInv, RelaxInv, DistancesFit
<1>5. WalkInv' /\ RaisedInv'
  BY DEF PlanInv, WalkInv, RaisedInv
<1> QED
  BY <1>1, <1>2, <1>3, <1>4, <1>5 DEF PlanInv

LEMMA UnknownNameStep ==
  ASSUME PlanInv, UnknownName
  PROVE  PlanInv'
<1> USE DEF UnknownName, Tasks, Sorting, Sorted, Layered, Walking
<1>1. GraphInv'
  BY DEF PlanInv, GraphInv
<1>2. SortInv' /\ PhasesInv' /\ RelaxInv' /\ WalkInv'
  BY DEF SortInv, PhasesInv, RelaxInv, WalkInv
<1>3. RaisedInv'
  BY DEF RaisedInv, BuildsDag
<1> QED
  BY <1>1, <1>2, <1>3 DEF PlanInv

LEMMA BuildStep ==
  ASSUME PlanInv, Build
  PROVE  PlanInv'
<1> USE DEF Tasks, Sorting, Sorted, Layered, Walking
<1> DEFINE free == {t \in Tasks : dependsOn[t] = {}}
<1>1. order = <<>> /\ order' = <<>> /\ pc' = "sort" /\ UNCHANGED dependsOn /\ IsFiniteSet(Tasks)
  BY DEF PlanInv, GraphInv, Build
<1>2. GraphInv'
  BY <1>1 DEF PlanInv, GraphInv, Build
<1>3. Topological'
  BY <1>1 DEF Topological, Distinct
<1>4. Ordered' = {}
  BY <1>1 DEF Ordered, Prefix
<1>5. QueueFits'
  <2>1. IsFiniteSet(free) /\ queue' \in SetToSeqs(free)
    BY <1>1, FS_Subset DEF Build
  <2>2. queue' \in Seq(free) /\ Distinct(queue') /\ Prefix(queue', Len(queue')) = free
    BY <2>1, OrderedSet, Zenon
  <2>3. queue' \in Seq(Tasks)
    BY <2>2
  <2>4. free = {t \in Tasks \ {} : dependsOn[t] \subseteq {}}
    OBVIOUS
  <2>5. \A t \in Tasks : inDegree'[t] = Cardinality(dependsOn[t] \ {})
    <3>1. \A t \in Tasks : dependsOn[t] \ {} = dependsOn[t]
      OBVIOUS
    <3> QED
      BY <3>1 DEF Build
  <2> QED
    BY <1>1, <1>4, <2>2, <2>3, <2>4, <2>5 DEF QueueFits
<1>6. SortInv'
  BY <1>1, <1>3, <1>5 DEF SortInv, Build
<1>7. PhasesInv' /\ RelaxInv' /\ WalkInv' /\ RaisedInv'
  BY <1>1 DEF PhasesInv, RelaxInv, WalkInv, RaisedInv
<1> QED
  BY <1>2, <1>6, <1>7 DEF PlanInv

\* The head of a sequence without repetition is not in its tail.
LEMMA DistinctTail ==
  ASSUME NEW S, NEW s \in Seq(S), Distinct(s), s # <<>>
  PROVE  /\ Tail(s) \in Seq(S) /\ Distinct(Tail(s))
         /\ Head(s) = s[1] /\ s[1] \in S
         /\ Prefix(Tail(s), Len(Tail(s))) = Prefix(s, Len(s)) \ {s[1]}
<1> DEFINE t == Tail(s)
<1>1. /\ Len(s) \in Nat /\ Len(s) > 0 /\ Head(s) = s[1] /\ s[1] \in S
      /\ t \in Seq(S) /\ Len(t) = Len(s) - 1
      /\ \A i \in 1 .. Len(s) - 1 : t[i] = s[i + 1]
  OBVIOUS
<1> HIDE DEF t
<1>2. Distinct(t)
  <2> SUFFICES ASSUME NEW i \in 1 .. Len(s) - 1, NEW j \in 1 .. Len(s) - 1, t[i] = t[j]
               PROVE  i = j
    BY <1>1 DEF Distinct
  <2>1. s[i + 1] = s[j + 1] /\ i + 1 \in 1 .. Len(s) /\ j + 1 \in 1 .. Len(s)
    BY <1>1
  <2>2. i + 1 = j + 1
    BY <2>1 DEF Distinct
  <2> QED
    BY <1>1, <2>2
<1>3. ASSUME NEW e PROVE e \in Prefix(t, Len(t)) <=> e \in Prefix(s, Len(s)) \ {s[1]}
  <2>1. ASSUME NEW i \in 1 .. Len(s) - 1 PROVE t[i] \in Prefix(s, Len(s)) \ {s[1]}
    <3>1. t[i] = s[i + 1] /\ i + 1 \in 1 .. Len(s) /\ 1 \in 1 .. Len(s) /\ i + 1 # 1
      BY <1>1
    <3>2. s[i + 1] # s[1]
      BY <3>1 DEF Distinct
    <3> QED
      BY <3>1, <3>2 DEF Prefix
  <2>2. ASSUME NEW i \in 1 .. Len(s), s[i] # s[1] PROVE s[i] \in Prefix(t, Len(t))
    <3>1. i - 1 \in 1 .. Len(s) - 1 /\ t[i - 1] = s[(i - 1) + 1] /\ (i - 1) + 1 = i
      BY <1>1, <2>2
    <3> QED
      BY <1>1, <3>1 DEF Prefix
  <2> QED
    BY <1>1, <2>1, <2>2 DEF Prefix
<1> QED
  BY <1>1, <1>2, <1>3 DEF t

\* What is in the order has its dependencies in the order.
LEMMA OrderIsClosed ==
  ASSUME Topological
  PROVE  Ordered \subseteq Tasks /\ \A t \in Ordered : dependsOn[t] \subseteq Ordered
<1>1. Len(order) \in Nat /\ Ordered \subseteq Tasks
  BY DEF Topological, Ordered, Prefix
<1>2. \A j \in 1 .. Len(order) : Prefix(order, j - 1) \subseteq Ordered
  BY <1>1 DEF Ordered, Prefix
<1> QED
  BY <1>1, <1>2 DEF Topological, Ordered, Prefix

LEMMA SortNodeStep ==
  ASSUME PlanInv, SortNode
  PROVE  PlanInv'
<1> USE DEF Tasks, Sorting, Sorted, Layered, Walking
<1> DEFINE node == queue[1]
           freed == {t \in Adjacent(node) : inDegree'[t] = 0}
<1>1. /\ pc = "sort" /\ queue # <<>> /\ UNCHANGED <<pc, dependsOn>>
      /\ Topological /\ QueueFits /\ DOMAIN inDegree = Tasks
      /\ AllDependenciesKnown(Tasks, dependsOn) /\ IsFiniteSet(Tasks)
  BY DEF PlanInv, GraphInv, SortInv, SortNode
<1>2. /\ Tail(queue) \in Seq(Tasks) /\ Distinct(Tail(queue))
      /\ Head(queue) = node /\ node \in Tasks
      /\ Prefix(Tail(queue), Len(Tail(queue))) = Prefix(queue, Len(queue)) \ {node}
  BY <1>1, DistinctTail, Zenon DEF QueueFits
<1>3. /\ order' = Append(order, node)
      /\ inDegree' = [t \in Tasks |-> IF t \in Adjacent(node) THEN inDegree[t] - 1 ELSE inDegree[t]]
      /\ \E seq \in SetToSeqs(freed) : queue' = Tail(queue) \o seq
  <2>1. \A t \in Adjacent(node) : t \in Tasks
    BY DEF Adjacent
  <2> QED
    BY <1>2, <2>1 DEF SortNode
<1>4. node \in Tasks \ Ordered /\ dependsOn[node] \subseteq Ordered
  <2>1. node \in Prefix(queue, Len(queue))
    BY <1>1 DEF QueueFits, Prefix
  <2> QED
    BY <1>1, <2>1 DEF QueueFits
<1>5. /\ order \in Seq(Tasks) /\ order' \in Seq(Tasks)
      /\ Len(order) \in Nat /\ Len(order') = Len(order) + 1
      /\ order'[Len(order) + 1] = node
      /\ \A i \in 1 .. Len(order) : order'[i] = order[i]
  <2>1. order \in Seq(Tasks)
    BY <1>1 DEF Topological
  <2>2. order' = Append(order, node) /\ node \in Tasks
    BY <1>2, <1>3
  <2> HIDE DEF node
  <2> QED
    BY <2>1, <2>2, AppendedSeq
<1>6. /\ \A k \in 0 .. Len(order) : Prefix(order', k) = Prefix(order, k)
      /\ Ordered' = Ordered \cup {node}
  <2>1. order' = Append(order, node) /\ node \in Tasks
    BY <1>2, <1>3
  <2>2. order \in Seq(Tasks) /\ Len(order') = Len(order) + 1
    BY <1>5
  <2> HIDE DEF node, Tasks
  <2>3. /\ \A k \in 0 .. Len(order) : Prefix(Append(order, node), k) = Prefix(order, k)
        /\ Prefix(Append(order, node), Len(order) + 1) = Prefix(order, Len(order)) \cup {node}
    BY <2>1, <2>2, AppendedPrefix
  <2> QED
    BY <2>1, <2>2, <2>3 DEF Ordered
<1>7. Topological'
  <2>1. \A i \in 1 .. Len(order) : order[i] # node
    BY <1>4 DEF Ordered, Prefix
  <2>2. Distinct(order')
    BY <1>1, <1>5, <2>1 DEF Distinct, Topological
  <2>3. \A j \in 1 .. Len(order) + 1 : dependsOn[order'[j]] \subseteq Prefix(order', j - 1)
    <3> TAKE j \in 1 .. Len(order) + 1
    <3>1. Prefix(order', j - 1) = Prefix(order, j - 1)
      BY <1>5, <1>6
    <3>2. CASE j = Len(order) + 1
      <4>1. j - 1 = Len(order)
        BY <1>5, <3>2
      <4> QED
        BY <1>4, <1>5, <3>1, <3>2, <4>1 DEF Ordered
    <3>3. CASE j \in 1 .. Len(order)
      BY <1>1, <1>5, <3>1, <3>3 DEF Topological
    <3> QED
      BY <1>5, <3>2, <3>3
  <2> QED
    BY <1>1, <1>5, <2>2, <2>3 DEF Topological
<1>8. \A t \in Tasks : inDegree'[t] = Cardinality(dependsOn[t] \ Ordered')
  <2> TAKE t \in Tasks
  <2>1. IsFiniteSet(dependsOn[t] \ Ordered)
    BY <1>1, FS_Subset DEF AllDependenciesKnown
  <2>2. dependsOn[t] \ Ordered' = (dependsOn[t] \ Ordered) \ {node}
    BY <1>6
  <2>3. node \in dependsOn[t] \ Ordered <=> t \in Adjacent(node)
    BY <1>4 DEF Adjacent
  <2>4. inDegree[t] = Cardinality(dependsOn[t] \ Ordered)
    BY <1>1 DEF QueueFits
  <2>5. Cardinality((dependsOn[t] \ Ordered) \ {node}) =
          IF node \in dependsOn[t] \ Ordered
          THEN Cardinality(dependsOn[t] \ Ordered) - 1 ELSE Cardinality(dependsOn[t] \ Ordered)
    BY <2>1, FS_RemoveElement
  <2>6. inDegree'[t] = IF t \in Adjacent(node) THEN inDegree[t] - 1 ELSE inDegree[t]
    BY <1>3
  <2> QED
    BY <2>2, <2>3, <2>4, <2>5, <2>6
<1>9. freed = {t \in Tasks \ Ordered' : dependsOn[t] \subseteq Ordered' /\ node \in dependsOn[t]}
  <2>1. ASSUME NEW t \in Tasks PROVE inDegree'[t] = 0 <=> dependsOn[t] \subseteq Ordered'
    <3>1. IsFiniteSet(dependsOn[t] \ Ordered')
      BY <1>1, FS_Subset DEF AllDependenciesKnown
    <3> QED
      BY <1>8, <3>1, FS_EmptySet
  <2>2. ASSUME NEW t \in Tasks, node \in dependsOn[t] PROVE t \notin Ordered'
    BY <1>1, <1>4, <1>6, <2>2, OrderIsClosed
  <2> QED
    BY <2>1, <2>2 DEF Adjacent
<1>10. QueueFits'
  <2>1. PICK seq \in SetToSeqs(freed) : queue' = Tail(queue) \o seq
    BY <1>3
  <2>2. IsFiniteSet(freed)
    BY <1>1, <1>9, FS_Subset
  <2>3. seq \in Seq(freed) /\ Distinct(seq) /\ Prefix(seq, Len(seq)) = freed
    BY <2>2, OrderedSet, Zenon
  <2>4. seq \in Seq(Tasks)
    <3>1. freed \subseteq Tasks
      BY <1>9
    <3> HIDE DEF freed
    <3> QED
      BY <2>3, <3>1
  <2>5. Prefix(Tail(queue), Len(Tail(queue)))
          = {t \in Tasks \ Ordered' : dependsOn[t] \subseteq Ordered' /\ node \notin dependsOn[t]}
    BY <1>1, <1>2, <1>4, <1>6 DEF QueueFits
  <2>6. Prefix(Tail(queue), Len(Tail(queue))) \cap Prefix(seq, Len(seq)) = {}
    <3> HIDE DEF freed, node
    <3>1. \A t \in freed : node \in dependsOn[t]
      BY <1>9
    <3>2. \A t \in Prefix(Tail(queue), Len(Tail(queue))) : node \notin dependsOn[t]
      BY <2>5, Zenon
    <3> QED
      BY <2>3, <3>1, <3>2, Zenon
  <2>7. /\ queue' \in Seq(Tasks) /\ Distinct(queue')
        /\ Prefix(queue', Len(queue')) = Prefix(Tail(queue), Len(Tail(queue))) \cup Prefix(seq, Len(seq))
    <3>1. Tail(queue) \in Seq(Tasks) /\ Distinct(Tail(queue)) /\ Distinct(seq)
      BY <1>2, <2>3
    <3> HIDE DEF Tasks, freed
    <3> DEFINE left == Tail(queue)
    <3>2. /\ left \in Seq(Tasks) /\ seq \in Seq(Tasks) /\ Distinct(left) /\ Distinct(seq)
          /\ Prefix(left, Len(left)) \cap Prefix(seq, Len(seq)) = {}
          /\ queue' = left \o seq
      BY <3>1, <2>1, <2>4, <2>6
    <3> HIDE DEF left
    <3>3. /\ left \o seq \in Seq(Tasks) /\ Distinct(left \o seq)
          /\ Prefix(left \o seq, Len(left \o seq)) = Prefix(left, Len(left)) \cup Prefix(seq, Len(seq))
      BY <3>2, DistinctConcat
    <3> QED
      BY <3>2, <3>3, Zenon DEF left
  <2>8. Prefix(queue', Len(queue')) = {t \in Tasks \ Ordered' : dependsOn[t] \subseteq Ordered'}
    BY <1>9, <2>3, <2>5, <2>7
  <2> QED
    BY <1>1, <1>8, <2>7, <2>8 DEF QueueFits
<1>11. GraphInv'
  BY <1>1 DEF PlanInv, GraphInv, SortNode
<1>12. SortInv'
  BY <1>1, <1>3, <1>7, <1>10 DEF SortInv
<1>13. PhasesInv' /\ RelaxInv' /\ WalkInv' /\ RaisedInv'
  BY <1>1 DEF PhasesInv, RelaxInv, WalkInv, RaisedInv
<1> QED
  BY <1>11, <1>12, <1>13 DEF PlanInv

\* The sort is over: the order is all tasks, or the rest of them wait for each other.
LEMMA OrderIsAllOrCyclic ==
  ASSUME PlanInv, pc = "sort", queue = <<>>
  PROVE  /\ Len(order) = Cardinality(Tasks) => Ordered = Tasks
         /\ Len(order) # Cardinality(Tasks) => ~BuildsDag(Tasks, dependsOn)
<1>1. Topological /\ QueueFits /\ IsFiniteSet(Tasks) /\ AllDependenciesKnown(Tasks, dependsOn)
  BY DEF PlanInv, SortInv, GraphInv, Sorting
<1>2. Ordered \in SUBSET Tasks
  BY <1>1, OrderIsClosed
<1>3. Cardinality(Ordered) = Len(order)
  BY <1>1, DistinctCount, Zenon DEF Topological, Ordered
<1>4. Len(order) = Cardinality(Tasks) => Ordered = Tasks
  BY <1>1, <1>2, <1>3, FS_Subset
<1>5. ASSUME Ordered # Tasks PROVE ~BuildsDag(Tasks, dependsOn)
  <2>1. Prefix(queue, Len(queue)) = {}
    BY DEF Prefix
  <2>2. \A t \in Tasks \ Ordered : ~(dependsOn[t] \subseteq Ordered)
    BY <1>1, <2>1 DEF QueueFits
  <2>3. ~Acyclic(Tasks, dependsOn)
    BY <1>1, <1>2, <1>5, <2>2, StuckIsCyclic, Zenon
  <2> QED
    BY <2>3 DEF BuildsDag
<1> QED
  BY <1>3, <1>4, <1>5

LEMMA SortEndsStep ==
  ASSUME PlanInv, SortEnds
  PROVE  PlanInv'
<1> USE DEF Tasks, Sorting, Sorted, Layered, Walking
<1>1. /\ pc = "sort" /\ queue = <<>> /\ phases = <<>> /\ relaxed = 0
      /\ UNCHANGED <<dependsOn, order, phases, relaxed>>
      /\ pc' = IF Len(order) # Cardinality(Tasks) THEN "raised" ELSE "phases"
      /\ AllDependenciesKnown(Tasks, dependsOn) /\ Topological
  BY DEF PlanInv, GraphInv, SortInv, SortEnds
<1>2. GraphInv'
  BY <1>1 DEF PlanInv, GraphInv
<1>3. /\ Len(order) = Cardinality(Tasks) => Ordered = Tasks
      /\ Len(order) # Cardinality(Tasks) => ~BuildsDag(Tasks, dependsOn)
  BY <1>1, OrderIsAllOrCyclic
<1>4. Topological'
  BY <1>1 DEF Topological
<1>5. SortInv'
  BY <1>1, <1>3, <1>4 DEF SortInv, Ordered
<1>6. PhasesInv'
  BY <1>1 DEF PhasesInv
<1>7. RelaxInv' /\ WalkInv'
  BY <1>1 DEF RelaxInv, WalkInv
<1>8. RaisedInv'
  BY <1>1, <1>3 DEF RaisedInv
<1> QED
  BY <1>2, <1>5, <1>6, <1>7, <1>8 DEF PlanInv

\* Planned, by the number of phases.
LEMMA PlannedByAll ==
  ASSUME NEW S, phases \in Seq(SUBSET S)
  PROVE  Planned = PlannedBy(Len(phases)) /\ Planned \subseteq S
<1>1. Range(phases) = {phases[i] : i \in 1 .. Len(phases)}
  BY DEF Range
<1>2. \A i \in 1 .. Len(phases) : phases[i] \subseteq S
  OBVIOUS
<1> QED
  BY <1>1, <1>2 DEF Planned, PlannedBy

LEMMA PlannedByGrows ==
  ASSUME NEW k \in Nat
  PROVE  PlannedBy(k + 1) = PlannedBy(k) \cup phases[k + 1]
<1>1. 1 .. k + 1 = (1 .. k) \cup {k + 1}
  OBVIOUS
<1> QED
  BY <1>1 DEF PlannedBy

LEMMA NextPhaseStep ==
  ASSUME PlanInv, NextPhase
  PROVE  PlanInv'
<1> USE DEF Tasks, Sorting, Sorted, Layered, Walking
<1> DEFINE layer == GetReadyNodes(Tasks, dependsOn, Planned)
<1>1. /\ pc = "phases" /\ layer # {} /\ phases' = Append(phases, layer)
      /\ UNCHANGED <<dependsOn, pc, order, relaxed>>
  BY DEF NextPhase
<1>2. /\ phases \in Seq(SUBSET Tasks) /\ layer \in SUBSET Tasks
      /\ \A k \in 1 .. Len(phases) :
           phases[k] = GetReadyNodes(Tasks, dependsOn, PlannedBy(k - 1)) /\ phases[k] # {}
  BY <1>1 DEF PlanInv, PhasesInv, GetReadyNodes
<1> HIDE DEF layer
<1>3. /\ phases' \in Seq(SUBSET Tasks)
      /\ Len(phases) \in Nat /\ Len(phases') = Len(phases) + 1
      /\ phases'[Len(phases) + 1] = layer
      /\ \A i \in 1 .. Len(phases) : phases'[i] = phases[i]
  BY <1>1, <1>2, AppendedSeq
<1>4. \A k \in 0 .. Len(phases) : PlannedBy(k)' = PlannedBy(k)
  <2> TAKE k \in 0 .. Len(phases)
  <2>1. \A i \in 1 .. k : phases'[i] = phases[i]
    BY <1>3
  <2> QED
    BY <2>1 DEF PlannedBy
<1>5. ASSUME NEW k \in 1 .. Len(phases')
      PROVE  phases'[k] = GetReadyNodes(Tasks', dependsOn', PlannedBy(k - 1)') /\ phases'[k] # {}
  <2>1. Tasks' = Tasks /\ dependsOn' = dependsOn /\ PlannedBy(k - 1)' = PlannedBy(k - 1)
    BY <1>1, <1>3, <1>4
  <2>2. CASE k \in 1 .. Len(phases)
    BY <1>2, <1>3, <2>1, <2>2
  <2>3. CASE k = Len(phases) + 1
    <3>1. PlannedBy(k - 1) = Planned
      BY <1>2, <1>3, <2>3, PlannedByAll
    <3> QED
      BY <1>1, <1>3, <2>1, <2>3, <3>1 DEF layer
  <2> QED
    BY <1>3, <2>2, <2>3
<1>6. PhasesInv'
  BY <1>1, <1>3, <1>5 DEF PhasesInv
<1>7. GraphInv'
  BY <1>1 DEF PlanInv, GraphInv
<1>8. SortInv'
  BY <1>1 DEF PlanInv, SortInv, Topological, Ordered
<1>9. RelaxInv' /\ WalkInv' /\ RaisedInv'
  BY <1>1 DEF RelaxInv, WalkInv, RaisedInv
<1> QED
  BY <1>6, <1>7, <1>8, <1>9 DEF PlanInv

LEMMA PhasesEndStep ==
  ASSUME PlanInv, PhasesEnd
  PROVE  PlanInv'
<1> USE DEF Tasks, Sorting, Sorted, Layered, Walking
<1>1. /\ pc = "phases" /\ pc' = "relax"
      /\ Planned = Tasks \/ GetReadyNodes(Tasks, dependsOn, Planned) = {}
      /\ UNCHANGED <<dependsOn, order, phases, relaxed>>
      /\ dist' = [t \in Tasks |-> 1] /\ pred' = [t \in Tasks |-> {}]
  BY DEF PhasesEnd
<1>2. /\ Topological /\ Ordered = Tasks /\ phases \in Seq(SUBSET Tasks)
      /\ AllDependenciesKnown(Tasks, dependsOn)
  BY <1>1 DEF PlanInv, SortInv, PhasesInv, GraphInv
<1>3. Planned = PlannedBy(Len(phases)) /\ Planned \in SUBSET Tasks
  BY <1>2, PlannedByAll
<1>4. Planned = Tasks
  <2> HIDE DEF Tasks
  <2> SUFFICES ASSUME Planned # Tasks PROVE FALSE
    OBVIOUS
  <2>1. \A t \in Tasks \ Planned : ~(dependsOn[t] \subseteq Planned)
    BY <1>1 DEF GetReadyNodes
  <2>2. ~Acyclic(Tasks, dependsOn)
    BY <1>2, <1>3, <2>1, StuckIsCyclic
  <2>3. Acyclic(Tasks, dependsOn)
    BY <1>2, OrderedIsAcyclic
  <2> QED
    BY <2>2, <2>3
<1>5. PhasesInv'
  <2>1. PhasesInv /\ UNCHANGED <<dependsOn, phases>>
    BY <1>1 DEF PlanInv
  <2>2. PlannedBy(Len(phases)) = Tasks
    BY <1>3, <1>4
  <2>3. \A k : PlannedBy(k)' = PlannedBy(k)
    BY <1>1 DEF PlannedBy
  <2>4. PlannedBy(Len(phases))' = PlannedBy(Len(phases))
    BY <1>1 DEF PlannedBy
  <2> QED
    BY <1>1, <2>1, <2>2, <2>3, <2>4 DEF PhasesInv
<1>6. GraphInv'
  BY <1>1 DEF PlanInv, GraphInv
<1>7. SortInv'
  BY <1>1 DEF PlanInv, SortInv, Topological, Ordered
<1>8. DistancesFit'
  <2>1. relaxed = 0
    BY <1>1 DEF PlanInv, GraphInv
  <2>2. Prefix(order, relaxed)' = {}
    BY <1>1, <2>1, EmptyPrefix
  <2> QED
    BY <1>1, <2>2 DEF DistancesFit
<1>9. RelaxInv'
  <2>1. relaxed' = 0 /\ Len(order') \in Nat
    BY <1>1, <1>2 DEF PlanInv, GraphInv, Topological
  <2> QED
    BY <1>1, <1>8, <2>1 DEF RelaxInv
<1>10. WalkInv' /\ RaisedInv'
  BY <1>1 DEF WalkInv, RaisedInv
<1> QED
  BY <1>5, <1>6, <1>7, <1>9, <1>10 DEF PlanInv

\* A task whose dependencies are all handed on, each from its phase, is in the
\* phase its distance names.
LEMMA DistanceIsPhase ==
  ASSUME PlanInv, Layered, NEW t \in Tasks, dependsOn[t] \subseteq Prefix(order, relaxed)
  PROVE  dist[t] \in 1 .. Len(phases) /\ t \in phases[dist[t]]
<1>1. /\ DistancesFit /\ phases \in Seq(SUBSET Tasks) /\ Len(phases) \in Nat
      /\ PlannedBy(Len(phases)) = Tasks
      /\ \A k \in 1 .. Len(phases) : phases[k] = GetReadyNodes(Tasks, dependsOn, PlannedBy(k - 1))
  BY DEF PlanInv, RelaxInv, PhasesInv, Layered, Sorted
<1>2. /\ dist[t] \in Nat \ {0}
      /\ \A d \in dependsOn[t] : d \in Tasks /\ dist[d] \in Nat \ {0} /\ dist[t] > dist[d]
      /\ \A d \in dependsOn[t] : dist[d] <= Len(phases) /\ d \in phases[dist[d]]
  <2>1. dependsOn[t] \subseteq Tasks
    BY DEF PlanInv, GraphInv, Layered, Sorted, AllDependenciesKnown
  <2> QED
    BY <1>1, <2>1 DEF DistancesFit
<1>3. PICK k \in 1 .. Len(phases) : t \in phases[k]
  BY <1>1 DEF PlannedBy
<1>4. t \notin PlannedBy(k - 1) /\ dependsOn[t] \subseteq PlannedBy(k - 1)
  BY <1>1, <1>3 DEF GetReadyNodes
\* The dependencies are in their phases only: each is in an earlier phase than t.
<1>5. \A d \in dependsOn[t] : dist[d] < k
  <2> TAKE d \in dependsOn[t]
  <2>1. PICK i \in 1 .. k - 1 : d \in phases[i]
    BY <1>4 DEF PlannedBy
  <2>2. dist[d] <= i
    <3> SUFFICES ASSUME dist[d] > i PROVE FALSE
      BY <1>2, <2>1
    <3>1. i \in 1 .. dist[d] - 1 /\ dist[d] \in 1 .. Len(phases)
      BY <1>2, <2>1
    <3>2. d \in PlannedBy(dist[d] - 1)
      BY <2>1, <3>1 DEF PlannedBy
    <3> QED
      BY <1>1, <1>2, <3>1, <3>2 DEF GetReadyNodes
  <2> QED
    BY <1>2, <2>1, <2>2
<1>6. dist[t] <= k
  <2>1. CASE pred[t] = {} /\ dist[t] = 1
    BY <1>3, <2>1
  <2>2. CASE \E d \in dependsOn[t] : dist[t] = dist[d] + 1
    BY <1>2, <1>5, <2>2
  <2> QED
    BY <1>1, <2>1, <2>2 DEF DistancesFit
<1>7. ~(dist[t] < k)
  <2> SUFFICES ASSUME dist[t] < k PROVE FALSE
    OBVIOUS
  <2>1. dist[t] \in 1 .. Len(phases) /\ dist[t] \in 1 .. k - 1
    BY <1>1, <1>2, <1>3
  <2>2. dependsOn[t] \subseteq PlannedBy(dist[t] - 1)
    <3> SUFFICES ASSUME NEW d \in dependsOn[t] PROVE d \in PlannedBy(dist[t] - 1)
      OBVIOUS
    <3>1. dist[d] \in 1 .. dist[t] - 1 /\ d \in phases[dist[d]]
      BY <1>2
    <3> QED
      BY <3>1 DEF PlannedBy
  <2>3. PlannedBy(dist[t] - 1) \subseteq PlannedBy(k - 1)
    BY <1>2, <1>3, <2>1 DEF PlannedBy
  <2>4. t \in phases[dist[t]]
    BY <1>1, <1>4, <2>1, <2>2, <2>3 DEF GetReadyNodes
  <2>5. t \in PlannedBy(k - 1)
    BY <2>1, <2>4 DEF PlannedBy
  <2> QED
    BY <1>4, <2>5
<1> QED
  BY <1>2, <1>3, <1>6, <1>7

LEMMA KeptPhases ==
  ASSUME PhasesInv, Layered, UNCHANGED <<dependsOn, phases>>
  PROVE  PhasesInv'
<1>1. PlannedBy(Len(phases))' = PlannedBy(Len(phases)) /\ Tasks' = Tasks
  BY DEF PlannedBy, Tasks
<1>2. \A k : PlannedBy(k)' = PlannedBy(k)
  BY DEF PlannedBy
<1> QED
  BY <1>1, <1>2 DEF PhasesInv, Layered, Sorted

LEMMA RelaxNodeStep ==
  ASSUME PlanInv, RelaxNode
  PROVE  PlanInv'
<1> USE DEF Tasks, Sorting, Sorted, Layered, Walking
<1> DEFINE node == order[relaxed + 1]
           longer == {t \in Adjacent(node) : dist[node] + 1 > dist[t]}
           before == Prefix(order, relaxed)
<1>1. /\ pc = "relax" /\ relaxed < Len(order) /\ relaxed' = relaxed + 1
      /\ dist' = [t \in Tasks |-> IF t \in longer THEN dist[node] + 1 ELSE dist[t]]
      /\ pred' = [t \in Tasks |-> IF t \in longer THEN {node} ELSE pred[t]]
      /\ UNCHANGED <<dependsOn, pc, order, phases, path>>
  BY DEF RelaxNode
<1>2. /\ Topological /\ Ordered = Tasks /\ DistancesFit
      /\ relaxed \in 0 .. Len(order) /\ Len(order) \in Nat
      /\ AllDependenciesKnown(Tasks, dependsOn)
  BY <1>1 DEF PlanInv, GraphInv, SortInv, RelaxInv, Topological
<1>3. relaxed \in Nat /\ relaxed + 1 \in 1 .. Len(order) /\ relaxed' \in 0 .. Len(order')
  BY <1>1, <1>2
<1>4. node \in Tasks /\ dependsOn[node] \subseteq before /\ node \notin before
  <2>1. dependsOn[node] \subseteq Prefix(order, (relaxed + 1) - 1)
    BY <1>2, <1>3 DEF Topological
  <2>2. (relaxed + 1) - 1 = relaxed
    BY <1>3
  <2>3. \A i \in 1 .. relaxed : order[i] # node
    BY <1>2, <1>3 DEF Topological, Distinct
  <2> QED
    BY <1>2, <1>3, <2>1, <2>2, <2>3 DEF Prefix, Topological
<1>5. Prefix(order, relaxed)' = before \cup {node}
  BY <1>1, <1>3, PrefixGrows
<1>6. before \subseteq Tasks
  BY <1>2, <1>3 DEF Prefix, Topological
<1>7. dist[node] \in 1 .. Len(phases) /\ node \in phases[dist[node]]
  <2> HIDE DEF Tasks, node
  <2> QED
    BY <1>1, <1>4, DistanceIsPhase
\* Whatever depends on the node comes later.
<1>8. \A t \in before \cup {node} : t \in Tasks /\ node \notin dependsOn[t]
  <2>1. ASSUME NEW i \in 1 .. relaxed PROVE node \notin dependsOn[order[i]]
    <3>1. dependsOn[order[i]] \subseteq Prefix(order, i - 1)
      BY <1>2, <1>3 DEF Topological
    <3>2. \A j \in 1 .. i - 1 : j \in 1 .. relaxed
      BY <1>3
    <3>3. Prefix(order, i - 1) \subseteq before
      BY <3>2, Zenon DEF Prefix
    <3> QED
      BY <1>4, <3>1, <3>3
  <2> QED
    BY <1>4, <1>6, <2>1 DEF Prefix
<1>9. \A t \in before \cup {node} : t \notin longer /\ dist'[t] = dist[t]
  BY <1>1, <1>8 DEF Adjacent
<1> HIDE DEF node, before
<1>10. DistancesFit'
  <2>1. dist' \in [Tasks -> Nat \ {0}] /\ \A t \in Tasks : dist'[t] >= dist[t]
    BY <1>1, <1>2, <1>4 DEF DistancesFit
  <2>2. ASSUME NEW t \in Tasks, NEW d \in dependsOn[t] \cap (before \cup {node})
        PROVE  dist'[t] > dist'[d]
    <3>1. dist'[d] = dist[d] /\ dist[d] \in Nat /\ dist[t] \in Nat /\ dist'[t] \in Nat
      BY <1>2, <1>8, <1>9, <2>1 DEF DistancesFit
    <3>2. CASE d = node
      <4>1. t \in Adjacent(node)
        BY <3>2 DEF Adjacent
      <4> QED
        BY <1>1, <3>1, <3>2, <4>1
    <3>3. CASE d \in before
      BY <1>2, <2>1, <3>1, <3>3 DEF DistancesFit, before
    <3> QED
      BY <3>2, <3>3
  <2>3. ASSUME NEW t \in Tasks
        PROVE  \/ pred'[t] = {} /\ dist'[t] = 1
               \/ \E d \in dependsOn[t] \cap (before \cup {node}) :
                    pred'[t] = {d} /\ dist'[t] = dist'[d] + 1
    <3>1. CASE t \in longer
      <4>1. node \in dependsOn[t] /\ pred'[t] = {node} /\ dist'[t] = dist[node] + 1
        BY <1>1, <3>1 DEF Adjacent
      <4> QED
        BY <1>9, <4>1
    <3>2. CASE t \notin longer
      <4>1. pred'[t] = pred[t] /\ dist'[t] = dist[t]
        BY <1>1, <3>2
      <4> HIDE DEF longer
      <4> QED
        BY <1>2, <1>9, <4>1 DEF DistancesFit, before
    <3> QED
      BY <3>1, <3>2
  <2>4. \A t \in before \cup {node} : dist'[t] <= Len(phases) /\ t \in phases[dist'[t]]
    BY <1>2, <1>7, <1>9 DEF DistancesFit, before
  <2> HIDE DEF longer
  <2> QED
    BY <1>1, <1>5, <2>1, <2>2, <2>3, <2>4 DEF DistancesFit
<1>11. RelaxInv'
  BY <1>1, <1>3, <1>10 DEF RelaxInv
<1>12. GraphInv'
  BY <1>1 DEF PlanInv, GraphInv
<1>13. SortInv'
  BY <1>1 DEF PlanInv, SortInv, Topological, Ordered
<1>14. PhasesInv'
  BY <1>1, KeptPhases DEF PlanInv
<1>15. WalkInv' /\ RaisedInv'
  BY <1>1 DEF WalkInv, RaisedInv
<1> QED
  BY <1>11, <1>12, <1>13, <1>14, <1>15 DEF PlanInv

\* When all of the order has handed on its distance, the last phase is as far
\* as any task.
LEMMA LastPhaseIsFarthest ==
  ASSUME PlanInv, Layered, relaxed = Len(order)
  PROVE  /\ \A t \in Tasks : dist[t] \in 1 .. Len(phases) /\ t \in phases[dist[t]]
         /\ Tasks # {} => \E t \in Tasks : dist[t] = Len(phases)
<1>1. /\ Topological /\ Ordered = Tasks /\ DistancesFit
      /\ phases \in Seq(SUBSET Tasks) /\ Len(phases) \in Nat /\ PlannedBy(Len(phases)) = Tasks
      /\ \A k \in 1 .. Len(phases) :
           phases[k] = GetReadyNodes(Tasks, dependsOn, PlannedBy(k - 1)) /\ phases[k] # {}
  BY DEF PlanInv, SortInv, RelaxInv, PhasesInv, Layered, Sorted
<1>2. \A t \in Tasks : dist[t] \in 1 .. Len(phases) /\ t \in phases[dist[t]]
  BY <1>1 DEF DistancesFit, Ordered
<1>3. ASSUME Tasks # {} PROVE \E t \in Tasks : dist[t] = Len(phases)
  <2>1. Len(phases) \in 1 .. Len(phases)
    BY <1>1, <1>2, <1>3
  <2>2. PICK t \in Tasks : t \in phases[Len(phases)]
    BY <1>1, <2>1 DEF GetReadyNodes
  <2>3. t \notin PlannedBy(Len(phases) - 1)
    BY <1>1, <2>1, <2>2 DEF GetReadyNodes
  <2>4. ~(dist[t] \in 1 .. Len(phases) - 1)
    BY <1>2, <2>3 DEF PlannedBy
  <2> QED
    BY <1>1, <1>2, <2>4
<1> QED
  BY <1>2, <1>3

LEMMA FindEndStep ==
  ASSUME PlanInv, FindEnd
  PROVE  PlanInv'
<1> USE DEF Sorting, Sorted, Layered, Walking
<1>1. /\ pc = "relax" /\ relaxed = Len(order)
      /\ UNCHANGED <<dependsOn, order, phases, relaxed, dist, pred>>
      /\ \/ order = <<>> /\ pc' = "raised"
         \/ pc' = "walk" /\ \E i \in 1 .. Len(order) :
              (\A j \in 1 .. Len(order) : dist[order[j]] <= dist[order[i]]) /\ path' = <<order[i]>>
  BY DEF FindEnd
<1>2. Tasks' = Tasks
  BY <1>1 DEF Tasks
<1>3. /\ Topological /\ Ordered = Tasks /\ relaxed \in 0 .. Len(order)
  BY <1>1 DEF PlanInv, SortInv, RelaxInv
<1>4. GraphInv'
  BY <1>1, <1>2 DEF PlanInv, GraphInv
<1>5. SortInv'
  BY <1>1, <1>2 DEF PlanInv, SortInv, Topological, Ordered
<1>6. PhasesInv'
  BY <1>1, KeptPhases DEF PlanInv
<1>7. RelaxInv'
  BY <1>1, <1>2 DEF PlanInv, RelaxInv, DistancesFit
<1>8. WalkInv'
  <2> SUFFICES ASSUME pc' = "walk"
               PROVE  /\ path' \in Seq(Tasks) /\ path' # <<>>
                      /\ \A i \in 1 .. Len(path') - 1 : path'[i] \in dependsOn[path'[i + 1]]
                      /\ Len(path') + dist[path'[1]] = Len(phases) + 1
    BY <1>1, <1>2 DEF WalkInv
  <2>1. PICK i \in 1 .. Len(order) :
          (\A j \in 1 .. Len(order) : dist[order[j]] <= dist[order[i]]) /\ path' = <<order[i]>>
    BY <1>1
  <2> DEFINE end == order[i]
  <2>2. end \in Tasks /\ \A t \in Tasks : dist[t] <= dist[end]
    BY <1>3, <2>1 DEF Ordered, Prefix
  <2>3. /\ \A t \in Tasks : dist[t] \in 1 .. Len(phases)
        /\ \E t \in Tasks : dist[t] = Len(phases)
    BY <1>1, <2>2, LastPhaseIsFarthest
  <2>4. dist[end] = Len(phases) /\ Len(phases) \in Nat
    BY <2>2, <2>3
  <2>5. path' = <<end>>
    BY <2>1
  <2> HIDE DEF end
  <2>6. path' \in Seq(Tasks) /\ path' # <<>> /\ Len(path') = 1 /\ path'[1] = end
    BY <2>2, <2>5
  <2> QED
    BY <2>4, <2>6
<1>9. RaisedInv'
  <2> SUFFICES ASSUME order = <<>> PROVE Tasks = {}
    BY <1>1, <1>2 DEF RaisedInv
  <2> QED
    BY <1>3 DEF Ordered, Prefix
<1> QED
  BY <1>4, <1>5, <1>6, <1>7, <1>8, <1>9 DEF PlanInv

LEMMA WalkBackStep ==
  ASSUME PlanInv, WalkBack
  PROVE  PlanInv'
<1> USE DEF Sorting, Sorted, Layered, Walking
<1> DEFINE head == path[1]
<1>1. /\ pc = "walk" /\ pc' = "walk"
      /\ UNCHANGED <<dependsOn, order, phases, relaxed, dist, pred>>
  BY DEF WalkBack
<1>2. Tasks' = Tasks
  BY <1>1 DEF Tasks
<1>3. /\ DistancesFit /\ Len(phases) \in Nat /\ AllDependenciesKnown(Tasks, dependsOn)
      /\ path \in Seq(Tasks) /\ path # <<>>
      /\ \A i \in 1 .. Len(path) - 1 : path[i] \in dependsOn[path[i + 1]]
      /\ Len(path) + dist[head] = Len(phases) + 1
  BY <1>1 DEF PlanInv, GraphInv, PhasesInv, RelaxInv, WalkInv
<1>4. head \in Tasks /\ Head(path) = head /\ Len(path) \in Nat /\ Len(path) > 0
  BY <1>3
<1>5. PICK n \in pred[head] : path' = <<n>> \o path
  BY <1>4 DEF WalkBack
<1>6. n \in dependsOn[head] /\ dist[head] = dist[n] + 1
  BY <1>3, <1>4, <1>5 DEF DistancesFit
<1>7. n \in Tasks
  BY <1>3, <1>4, <1>6 DEF AllDependenciesKnown
<1>8. /\ path' \in Seq(Tasks) /\ Len(path') = Len(path) + 1 /\ path' # <<>>
      /\ path'[1] = n /\ \A i \in 1 .. Len(path) : path'[i + 1] = path[i]
  BY <1>3, <1>5, <1>7
<1>9. \A i \in 1 .. Len(path) : path'[i] \in dependsOn[path'[i + 1]]
  <2> TAKE i \in 1 .. Len(path)
  <2>1. CASE i = 1
    BY <1>6, <1>8, <2>1
  <2>2. CASE i - 1 \in 1 .. Len(path) - 1
    <3>1. path'[(i - 1) + 1] = path[i - 1] /\ path'[i + 1] = path[(i - 1) + 1]
      BY <1>4, <1>8, <2>2
    <3>2. (i - 1) + 1 = i
      BY <1>4
    <3> QED
      BY <1>3, <2>2, <3>1, <3>2
  <2> QED
    BY <1>4, <2>1, <2>2
<1>10. Len(path') + dist[n] = Len(phases) + 1
  <2>1. dist[n] \in Nat /\ dist[head] \in Nat
    BY <1>3, <1>4, <1>7 DEF DistancesFit
  <2> QED
    BY <1>3, <1>4, <1>6, <1>8, <2>1
<1>11. WalkInv'
  BY <1>1, <1>2, <1>4, <1>8, <1>9, <1>10 DEF WalkInv
<1>12. GraphInv' /\ RaisedInv'
  BY <1>1, <1>2 DEF PlanInv, GraphInv, RaisedInv
<1>13. SortInv'
  BY <1>1, <1>2 DEF PlanInv, SortInv, Topological, Ordered
<1>14. PhasesInv'
  BY <1>1, KeptPhases DEF PlanInv
<1>15. RelaxInv'
  BY <1>1, <1>2 DEF PlanInv, RelaxInv, DistancesFit
<1> QED
  BY <1>11, <1>12, <1>13, <1>14, <1>15 DEF PlanInv

LEMMA ReturnPlanStep ==
  ASSUME PlanInv, ReturnPlan
  PROVE  PlanInv'
<1> USE DEF Sorting, Sorted, Layered, Walking
<1>1. /\ pc = "walk" /\ pc' = "done" /\ pred[Head(path)] = {}
      /\ UNCHANGED <<dependsOn, order, phases, relaxed, dist, pred, path>>
  BY DEF ReturnPlan
<1>2. Tasks' = Tasks
  BY <1>1 DEF Tasks
<1>3. WalkInv'
  <2>1. WalkInv /\ DistancesFit /\ path \in Seq(Tasks) /\ path # <<>>
    BY <1>1 DEF PlanInv, RelaxInv, WalkInv
  <2>2. Head(path) = path[1] /\ path[1] \in Tasks
    BY <2>1
  <2>3. dist[path[1]] = 1
    BY <1>1, <2>1, <2>2 DEF DistancesFit
  <2> QED
    BY <1>1, <1>2, <2>1, <2>3 DEF WalkInv
<1>4. GraphInv' /\ RaisedInv'
  BY <1>1, <1>2 DEF PlanInv, GraphInv, RaisedInv
<1>5. SortInv'
  BY <1>1, <1>2 DEF PlanInv, SortInv, Topological, Ordered
<1>6. PhasesInv'
  BY <1>1, KeptPhases DEF PlanInv
<1>7. RelaxInv'
  BY <1>1, <1>2 DEF PlanInv, RelaxInv, DistancesFit
<1> QED
  BY <1>3, <1>4, <1>5, <1>6, <1>7 DEF PlanInv

\* One iteration of the loops of dry_run.
LEMMA DryRunStepFits ==
  ASSUME PlanInv, DryRunStep
  PROVE  PlanInv'
  BY UnknownNameStep, BuildStep, SortNodeStep, SortEndsStep, NextPhaseStep, PhasesEndStep,
     RelaxNodeStep, FindEndStep, WalkBackStep, ReturnPlanStep DEF DryRunStep

-----------------------------------------------------------------------------
(* The steps that make the tasks *)

LEMMA Entries ==
  ASSUME definition \in Definitions
  PROVE  /\ definition \in Seq(Range(definition))
         /\ Len(definition) \in Nat /\ DOMAIN definition = 1 .. Len(definition)
         /\ definition = <<>> <=> Len(definition) = 0
         /\ \A i \in 1 .. Len(definition) : definition[i] \in Range(definition)
         /\ \A e \in Range(definition) : \E i \in 1 .. Len(definition) : definition[i] = e
<1>1. definition \in Seq(Range(definition))
  BY DefinitionAssumption
<1>2. Len(definition) \in Nat /\ DOMAIN definition = 1 .. Len(definition)
      /\ definition = <<>> <=> Len(definition) = 0
  BY <1>1
<1> QED
  BY <1>1, <1>2 DEF Range

\* The tasks are as many of the entries as there are, in their order.
LEMMA TasksAreEntries ==
  ASSUME DefinitionInv
  PROVE  /\ Len(tasks) \in Nat
         /\ Range(tasks) = {definition[i] : i \in 1 .. Len(tasks)}
         /\ Range(tasks) \subseteq Range(definition)
         /\ Len(tasks) = Len(definition) => Range(tasks) = Range(definition)
<1>1. /\ tasks \in Seq(Range(definition)) /\ Len(tasks) <= Len(definition)
      /\ \A i \in 1 .. Len(tasks) : tasks[i] = definition[i]
      /\ definition \in Definitions
  BY DEF DefinitionInv
<1>2. Len(tasks) \in Nat /\ DOMAIN tasks = 1 .. Len(tasks)
  BY <1>1
<1>3. Range(tasks) = {definition[i] : i \in 1 .. Len(tasks)}
  BY <1>1, <1>2 DEF Range
<1>4. Range(definition) = {definition[i] : i \in 1 .. Len(definition)} /\ Len(definition) \in Nat
  <2>1. DOMAIN definition = 1 .. Len(definition) /\ Len(definition) \in Nat
    BY <1>1, Entries
  <2> QED
    BY <2>1 DEF Range
<1>5. 1 .. Len(tasks) \subseteq 1 .. Len(definition)
  BY <1>1, <1>2, <1>4
<1> QED
  BY <1>2, <1>3, <1>4, <1>5

LEMMA NamesAreFinite ==
  ASSUME DefinitionInv
  PROVE  IsFiniteSet(NamesOf(tasks))
<1> DEFINE n == Len(tasks)
           named == [i \in 1 .. n |-> tasks[i].name]
           all == {e.name : e \in Range(tasks)}
<1>1. n \in Nat /\ Range(tasks) = {tasks[i] : i \in 1 .. n}
  <2>1. tasks \in Seq(Range(definition))
    BY DEF DefinitionInv
  <2> QED
    BY <2>1 DEF Range
<1>2. named \in Surjection(1 .. n, all)
  BY <1>1 DEF Surjection
<1>3. IsFiniteSet(all)
  <2>1. IsFiniteSet(1 .. n)
    BY <1>1, FS_Interval
  <2> HIDE DEF named, all, n
  <2> QED
    BY <1>2, <2>1, FS_Surjection
<1>4. NamesOf(tasks) \in SUBSET all
  BY DEF NamesOf
<1> HIDE DEF all
<1> QED
  BY <1>3, <1>4, FS_Subset

\* One more entry becomes a task.
LEMMA NextEntryFits ==
  ASSUME DefinitionInv, Len(tasks) < Len(definition), tasks' = Append(tasks, NextEntry)
  PROVE  /\ NextEntry \in Range(definition)
         /\ tasks' \in Seq(Range(definition)) /\ Len(tasks') = Len(tasks) + 1
         /\ \A i \in 1 .. Len(tasks') : tasks'[i] = definition[i]
<1>1. /\ tasks \in Seq(Range(definition)) /\ definition \in Definitions
      /\ \A i \in 1 .. Len(tasks) : tasks[i] = definition[i]
  BY DEF DefinitionInv
<1>2. Len(tasks) + 1 \in 1 .. Len(definition)
  BY <1>1, Entries
<1>3. NextEntry = definition[Len(tasks) + 1] /\ NextEntry \in Range(definition)
  BY <1>1, <1>2, Entries DEF NextEntry
<1>4. /\ tasks' \in Seq(Range(definition)) /\ Len(tasks) \in Nat /\ Len(tasks') = Len(tasks) + 1
      /\ tasks'[Len(tasks) + 1] = NextEntry
      /\ \A i \in 1 .. Len(tasks) : tasks'[i] = tasks[i]
  BY <1>1, <1>3, AppendedSeq
<1> QED
  BY <1>1, <1>3, <1>4

\* What validate finds.
LEMMA ValidateStep ==
  ASSUME DefinitionInv, Validate
  PROVE  ErrorsFit'
<1> DEFINE empty == {"empty" : x \in {1} \ DOMAIN definition}
           nameless == {"nameless" : i \in {i \in DOMAIN definition : definition[i].name = NoName}}
           duplicate == {"duplicate" : i \in {i \in DOMAIN definition : definition[i].name \in SeenBefore(i)}}
           itself == {"itself" : i \in {i \in DOMAIN definition : definition[i].name \in definition[i].dependsOn}}
<1>1. errors' = empty \cup nameless \cup duplicate \cup itself
  BY Zenon DEF Validate
<1>2. UNCHANGED definition /\ definition \in Definitions
  BY DEF Validate, DefinitionInv
<1>3. /\ definition \in Seq(Range(definition))
      /\ Len(definition) \in Nat /\ DOMAIN definition = 1 .. Len(definition)
      /\ definition = <<>> <=> Len(definition) = 0
      /\ \A i \in 1 .. Len(definition) : definition[i] \in Range(definition)
      /\ \A e \in Range(definition) : \E i \in 1 .. Len(definition) : definition[i] = e
  BY <1>2, Entries
<1>4. errors' \subseteq {"empty", "nameless", "duplicate", "itself"}
  BY <1>1
<1>5. "empty" \in errors' <=> definition = <<>>
  <2>1. "empty" \in errors' <=> 1 \notin DOMAIN definition
    BY <1>1
  <2> QED
    BY <1>3, <2>1
<1>6. "nameless" \in errors' <=> \E e \in Range(definition) : e.name = NoName
  <2>1. "nameless" \in errors' <=> \E i \in DOMAIN definition : definition[i].name = NoName
    BY <1>1
  <2> QED
    BY <1>3, <2>1
<1>7. "itself" \in errors' <=> \E e \in Range(definition) : e.name \in e.dependsOn
  <2>1. "itself" \in errors' <=> \E i \in DOMAIN definition : definition[i].name \in definition[i].dependsOn
    BY <1>1
  <2> QED
    BY <1>3, <2>1
<1>8. "duplicate" \in errors' <=>
        \E i, j \in DOMAIN definition :
          j < i /\ definition[i].name = definition[j].name /\ definition[i].name # NoName
  <2>1. "duplicate" \in errors' <=> \E i \in DOMAIN definition : definition[i].name \in SeenBefore(i)
    BY <1>1
  <2>2. ASSUME NEW i \in DOMAIN definition
        PROVE  definition[i].name \in SeenBefore(i) <=>
                 \E j \in DOMAIN definition :
                   j < i /\ definition[i].name = definition[j].name /\ definition[i].name # NoName
    <3>1. \A j : j \in 1 .. i - 1 <=> j \in DOMAIN definition /\ j < i
      BY <1>3
    <3> QED
      BY <3>1 DEF SeenBefore
  <2> QED
    BY <2>1, <2>2
<1> QED
  BY <1>2, <1>4, <1>5, <1>6, <1>7, <1>8 DEF ErrorsFit


LEMMA InitFits ==
  ASSUME Init
  PROVE  IInv
<1> USE DEF Init, NoPlan
<1>1. Tasks = {} /\ pc = "define"
  BY DEF Tasks
<1>2. PlanInv
  BY <1>1, FS_EmptySet DEF PlanInv, GraphInv, SortInv, PhasesInv, RelaxInv, WalkInv, RaisedInv,
                           Sorting, Sorted, Layered, Walking
<1>3. Len(definition) \in Nat
  BY Entries
<1>4. DefinitionInv
  BY <1>1, <1>3 DEF DefinitionInv
<1> QED
  BY <1>2, <1>4 DEF IInv, ErrorsFit

LEMMA DefineStepPlans ==
  ASSUME IInv, DefineStep
  PROVE  PlanInv'
<1>1. CASE UNCHANGED vars
  BY <1>1, KeptPlan DEF IInv
<1>2. CASE ParseRaises
  <2>1. Tasks' = {} /\ Tasks = {} /\ pc = "define" /\ pc' = "raised"
        /\ UNCHANGED <<dependsOn, phases, relaxed, order>>
    BY <1>2 DEF IInv, PlanInv, GraphInv, ParseRaises, Tasks
  <2> QED
    BY <2>1 DEF IInv, PlanInv, GraphInv, SortInv, PhasesInv, RelaxInv, WalkInv, RaisedInv,
                Sorting, Sorted, Layered, Walking
<1>3. CASE DryRun
  <2>1. /\ pc = "define" /\ pc' = "build" /\ dependsOn' = GraphOf(tasks)
        /\ UNCHANGED <<phases, relaxed, order>>
    BY <1>3 DEF DryRun
  <2>2. Tasks' = NamesOf(tasks)
    BY <2>1 DEF Tasks, GraphOf
  <2>3. IsFiniteSet(Tasks')
    BY <2>2, NamesAreFinite DEF IInv
  <2> QED
    BY <2>1, <2>3 DEF IInv, PlanInv, GraphInv, SortInv, PhasesInv, RelaxInv, WalkInv, RaisedInv,
                      Sorting, Sorted, Layered, Walking
<1> QED
  BY <1>1, <1>2, <1>3 DEF DefineStep, Validate, ParseTask, ParseReturns, CreatePipeline, AddTask,
                          BuildWorkflow

LEMMA DefineStepDefines ==
  ASSUME IInv, DefineStep
  PROVE  DefinitionInv' /\ ErrorsFit'
<1> USE DEF IInv
<1>1. CASE Validate
  <2>1. DefinitionInv'
    BY <1>1 DEF Validate, DefinitionInv, vars
  <2> QED
    BY <1>1, <2>1, ValidateStep
<1>2. ASSUME UNCHANGED <<definition, validated, errors>> PROVE ErrorsFit'
  BY <1>2 DEF ErrorsFit
<1>3. CASE ParseRaises
  <2>1. DefinitionInv'
    <3>1. pc' = "raised" /\ UNCHANGED defVars /\ route = "parser" /\ ~built
      BY <1>3 DEF ParseRaises
    <3>2. definition = <<>> \/ \E e \in Range(definition) : e.name = NoName
      <4>1. CASE definition = <<>>
        BY <4>1
      <4>2. CASE Len(tasks) < Len(definition) /\ NextEntry.name = NoName
        <5>1. definition \in Definitions /\ Len(tasks) \in Nat
          BY TasksAreEntries DEF DefinitionInv
        <5>2. NextEntry \in Range(definition)
          BY <4>2, <5>1, Entries DEF NextEntry
        <5> QED
          BY <4>2, <5>2
      <4> QED
        BY <1>3, <4>1, <4>2 DEF ParseRaises
    <3> QED
      BY <3>1, <3>2 DEF DefinitionInv, defVars
  <2> QED
    BY <1>2, <1>3, <2>1 DEF ParseRaises, defVars
<1>4. CASE ParseTask \/ AddTask
  <2>1. /\ pc = "define" /\ pc' = "define" /\ Len(tasks) < Len(definition)
        /\ tasks' = Append(tasks, NextEntry)
        /\ route = "parser" => NextEntry.name # NoName
        /\ UNCHANGED <<definition, route, built, validated, errors>>
    BY <1>4 DEF ParseTask, AddTask, vars
  <2>2. /\ tasks' \in Seq(Range(definition)) /\ Len(tasks') = Len(tasks) + 1
        /\ \A i \in 1 .. Len(tasks') : tasks'[i] = definition[i]
    BY <2>1, NextEntryFits
  <2>3. Len(tasks) \in Nat /\ Len(definition) \in Nat
    BY TasksAreEntries, Entries DEF DefinitionInv
  <2>4. route = "parser" => \A i \in 1 .. Len(tasks') : tasks'[i].name # NoName
    <3> SUFFICES ASSUME route = "parser", NEW i \in 1 .. Len(tasks') PROVE tasks'[i].name # NoName
      OBVIOUS
    <3>1. CASE i \in 1 .. Len(tasks)
      BY <2>2, <3>1 DEF DefinitionInv
    <3>2. CASE i = Len(tasks) + 1
      BY <2>1, <2>2, <3>2 DEF NextEntry
    <3> QED
      BY <2>2, <2>3, <3>1, <3>2
  <2>5. DefinitionInv'
    BY <2>1, <2>2, <2>3, <2>4 DEF DefinitionInv
  <2> QED
    BY <1>2, <2>1, <2>5
<1>5. CASE ParseReturns
  BY <1>2, <1>5 DEF ParseReturns, DefinitionInv, vars
<1>6. CASE CreatePipeline
  <2>1. definition \in Seq(Range(definition)) /\ Len(definition) \in Nat
    BY Entries DEF DefinitionInv
  <2>2. DefinitionInv'
    BY <1>6, <2>1 DEF CreatePipeline, DefinitionInv, vars
  <2> QED
    BY <1>2, <1>6, <2>2 DEF CreatePipeline
<1>7. CASE BuildWorkflow
  BY <1>2, <1>7 DEF BuildWorkflow, DefinitionInv, vars
<1>8. CASE DryRun
  <2>1. DefinitionInv'
    BY <1>8 DEF DryRun, DefinitionInv, defVars
  <2> QED
    BY <1>2, <1>8, <2>1 DEF DryRun, defVars
<1> QED
  BY <1>1, <1>3, <1>4, <1>5, <1>6, <1>7, <1>8 DEF DefineStep

LEMMA DryRunStepKeeps ==
  ASSUME IInv, DryRunStep, UNCHANGED defVars
  PROVE  DefinitionInv' /\ ErrorsFit'
<1>1. UNCHANGED dependsOn /\ pc \in {"build", "sort", "phases", "relax", "walk"}
  BY DEF DryRunStep, UnknownName, Build, SortNode, SortEnds, NextPhase, PhasesEnd, RelaxNode,
         FindEnd, WalkBack, ReturnPlan
<1> QED
  BY <1>1 DEF IInv, DefinitionInv, ErrorsFit, defVars

\* The loops of dry_run and the making of the definition keep the invariant.
THEOREM Invariant == Spec => []IInv
<1>1. Init => IInv
  BY InitFits
<1>2. IInv /\ [Next]_allVars => IInv'
  <2> SUFFICES ASSUME IInv, [Next]_allVars PROVE IInv'
    OBVIOUS
  <2>1. CASE DefineStep
    BY <2>1, DefineStepPlans, DefineStepDefines DEF IInv
  <2>2. CASE DryRunStep /\ UNCHANGED defVars
    BY <2>2, DryRunStepFits, DryRunStepKeeps DEF IInv
  <2>3. CASE UNCHANGED allVars
    <3>1. PlanInv'
      BY <2>3, KeptPlan DEF IInv, allVars
    <3> QED
      BY <2>3, <3>1 DEF IInv, DefinitionInv, ErrorsFit, allVars, defVars, vars
  <2> QED
    BY <2>1, <2>2, <2>3 DEF Next
<1> QED
  BY <1>1, <1>2, PTL DEF Spec


-----------------------------------------------------------------------------
(* What dry_run finds *)

\* topological_sort accepts the graphs without a cycle and no others, whatever
\* the order in which the sets it iterates over come out.
THEOREM SortDecides == Spec => []SortDecidesAcyclicity
<1>1. IInv => SortDecidesAcyclicity
  <2> SUFFICES ASSUME IInv PROVE SortDecidesAcyclicity
    OBVIOUS
  <2>1. ASSUME Sorted PROVE BuildsDag(Tasks, dependsOn)
    <3>1. Topological /\ Ordered = Tasks /\ AllDependenciesKnown(Tasks, dependsOn)
      BY <2>1 DEF IInv, PlanInv, GraphInv, SortInv
    <3> QED
      BY <3>1, OrderedIsAcyclic DEF BuildsDag
  <2> QED
    BY <2>1 DEF SortDecidesAcyclicity, IInv, PlanInv, RaisedInv, Sorted
<1> QED
  BY <1>1, Invariant, PTL

\* The order it returns is a permutation of the tasks in which each comes after
\* its dependencies.
THEOREM OrderIsFound == Spec => []OrderIsTopological
<1>1. IInv => OrderIsTopological
  <2> SUFFICES ASSUME IInv, Sorted
               PROVE  /\ Len(order) = Cardinality(Tasks) /\ Range(order) = Tasks
                      /\ \A i, j \in 1 .. Len(order) : order[i] \in dependsOn[order[j]] => i < j
    BY DEF OrderIsTopological, Sorted
  <2>1. Topological /\ Ordered = Tasks
    BY DEF IInv, PlanInv, SortInv
  <2>2. Len(order) = Cardinality(Tasks)
    BY <2>1, DistinctCount DEF Topological, Ordered
  <2>3. Range(order) = Tasks
    BY <2>1, PrefixIsRange DEF Topological, Ordered
  <2>4. ASSUME NEW i \in 1 .. Len(order), NEW j \in 1 .. Len(order), order[i] \in dependsOn[order[j]]
        PROVE  i < j
    <3>1. order[i] \in Prefix(order, j - 1)
      BY <2>1, <2>4 DEF Topological
    <3>2. PICK k \in 1 .. j - 1 : order[k] = order[i]
      BY <3>1 DEF Prefix
    <3>3. Len(order) \in Nat
      BY <2>1 DEF Topological
    <3>4. k \in 1 .. Len(order)
      BY <3>2, <3>3
    <3>5. k = i
      BY <2>1, <3>2, <3>4 DEF Topological, Distinct
    <3> QED
      BY <3>2, <3>5
  <2> QED
    BY <2>2, <2>3, <2>4
<1> QED
  BY <1>1, Invariant, PTL

\* The phases of dry_run, each all that is ready when those before it are done,
\* hold every task, and none of them later than its dependencies require.
THEOREM PhasesAreFound == Spec => []PhasesAreEarliest
<1>1. IInv => PhasesAreEarliest
  <2> SUFFICES ASSUME IInv, Layered
               PROVE  /\ Planned = Tasks
                      /\ \A i \in 1 .. Len(phases) : \A t \in phases[i] :
                           /\ \A d \in dependsOn[t] : \E j \in 1 .. i - 1 : d \in phases[j]
                           /\ i > 1 => \E d \in dependsOn[t] : d \in phases[i - 1]
    BY DEF PhasesAreEarliest, Layered
  <2>1. /\ phases \in Seq(SUBSET Tasks) /\ PlannedBy(Len(phases)) = Tasks
        /\ \A k \in 1 .. Len(phases) : phases[k] = GetReadyNodes(Tasks, dependsOn, PlannedBy(k - 1))
    BY DEF IInv, PlanInv, PhasesInv, Sorted, Layered
  <2>2. Planned = Tasks
    BY <2>1, PlannedByAll
  <2>3. ASSUME NEW i \in 1 .. Len(phases), NEW t \in phases[i]
        PROVE  /\ \A d \in dependsOn[t] : \E j \in 1 .. i - 1 : d \in phases[j]
               /\ i > 1 => \E d \in dependsOn[t] : d \in phases[i - 1]
    <3>1. t \in Tasks \ PlannedBy(i - 1) /\ dependsOn[t] \subseteq PlannedBy(i - 1)
      BY <2>1 DEF GetReadyNodes
    <3>2. \A d \in dependsOn[t] : \E j \in 1 .. i - 1 : d \in phases[j]
      BY <3>1 DEF PlannedBy
\* Otherwise the task had been ready one phase before.
    <3>3. ASSUME i > 1, \A d \in dependsOn[t] : d \notin phases[i - 1] PROVE FALSE
      <4>1. i - 2 \in Nat /\ i - 1 \in 1 .. Len(phases) /\ (i - 2) + 1 = i - 1 /\ (i - 1) - 1 = i - 2
        BY <2>1, <3>3
      <4>2. PlannedBy(i - 1) = PlannedBy(i - 2) \cup phases[i - 1]
        BY <4>1, PlannedByGrows
      <4>3. phases[i - 1] = GetReadyNodes(Tasks, dependsOn, PlannedBy(i - 2))
        BY <2>1, <4>1
      <4>4. dependsOn[t] \subseteq PlannedBy(i - 2)
        BY <3>1, <3>3, <4>2
      <4> QED
        BY <3>1, <4>2, <4>3, <4>4 DEF GetReadyNodes
    <3> QED
      BY <3>2, <3>3
  <2> QED
    BY <2>2, <2>3
<1> QED
  BY <1>1, Invariant, PTL

\* The critical path is a chain of dependencies with as many tasks as there are
\* phases, whichever farthest task it was walked back from.
THEOREM PathIsCritical == Spec => []CriticalPathIsLongest
<1>1. IInv => CriticalPathIsLongest
  <2> SUFFICES ASSUME IInv, pc = "done"
               PROVE  /\ \A i \in 1 .. Len(path) - 1 : path[i] \in dependsOn[path[i + 1]]
                      /\ Len(path) = Len(phases)
    BY DEF CriticalPathIsLongest
  <2>1. /\ path \in Seq(Tasks) /\ phases \in Seq(SUBSET Tasks)
        /\ \A i \in 1 .. Len(path) - 1 : path[i] \in dependsOn[path[i + 1]]
        /\ Len(path) + dist[path[1]] = Len(phases) + 1 /\ dist[path[1]] = 1
    BY DEF IInv, PlanInv, PhasesInv, WalkInv, Walking, Sorted
  <2>2. Len(path) \in Nat /\ Len(phases) \in Nat
    BY <2>1
  <2> QED
    BY <2>1, <2>2
<1> QED
  BY <1>1, Invariant, PTL

\* The entries of a definition that has a name for each and no two alike are as
\* many as the names.
LEMMA EntriesHaveNames ==
  ASSUME DefinitionInv, Len(tasks) = Len(definition),
         \A e \in Range(definition) : e.name # NoName,
         \A i, j \in DOMAIN definition : j < i => definition[i].name # definition[j].name
  PROVE  Cardinality(NamesOf(tasks)) = Len(definition)
<1> DEFINE n == Len(definition)
           named == [i \in 1 .. n |-> definition[i].name]
           names == NamesOf(tasks)
<1>1. n \in Nat /\ DOMAIN definition = 1 .. n /\ \A i \in 1 .. n : definition[i] \in Range(definition)
  BY Entries DEF DefinitionInv
<1>2. Range(tasks) = {definition[i] : i \in 1 .. n}
  BY TasksAreEntries
<1>3. names = {definition[i].name : i \in 1 .. n}
  <2>1. \A i \in 1 .. n : definition[i].name # NoName
    BY <1>1
  <2> QED
    BY <1>2, <2>1 DEF NamesOf
<1>4. named \in Injection(1 .. n, names)
  <2>1. named \in [1 .. n -> names]
    BY <1>3
  <2>2. \A i, j \in 1 .. n : definition[i].name = definition[j].name => i = j
    BY <1>1
  <2> HIDE DEF names
  <2> QED
    BY <2>1, <2>2 DEF Injection, IsInjective
<1>5. named \in Surjection(1 .. n, names)
  BY <1>3 DEF Surjection
<1> HIDE DEF named, names, n
<1>6. IsFiniteSet(1 .. n) /\ Cardinality(1 .. n) = n
  BY <1>1, FS_Interval
<1>7. Cardinality(names) = Cardinality(1 .. n)
  BY <1>4, <1>5, <1>6, FS_Surjection
<1> QED
  BY <1>6, <1>7 DEF names, n

\* What WorkflowParser.validate says of a definition is what parsing it and
\* planning it come to.
THEOREM ValidationIsTrue == Spec => []ValidationAgrees
<1>1. IInv => ValidationAgrees
  <2> SUFFICES ASSUME IInv, validated
               PROVE  /\ errors = {} /\ pc = "raised" => Len(tasks) = Len(definition)
                      /\ errors = {} /\ pc = "done" => Len(order) = Len(definition)
                      /\ Sorted => errors \subseteq {"duplicate"}
    BY DEF ValidationAgrees, Sorted
  <2>1. /\ DefinitionInv /\ route = "parser"
        /\ errors \subseteq {"empty", "nameless", "duplicate", "itself"}
        /\ "empty" \in errors <=> definition = <<>>
        /\ "nameless" \in errors <=> \E e \in Range(definition) : e.name = NoName
        /\ "itself" \in errors <=> \E e \in Range(definition) : e.name \in e.dependsOn
        /\ "duplicate" \in errors <=>
             \E i, j \in DOMAIN definition :
               j < i /\ definition[i].name = definition[j].name /\ definition[i].name # NoName
    BY DEF IInv, DefinitionInv, ErrorsFit
  <2>2. ASSUME errors = {}, pc = "raised" PROVE Len(tasks) = Len(definition)
    BY <2>1, <2>2 DEF DefinitionInv
  <2>3. ASSUME Sorted
        PROVE  /\ definition # <<>> /\ Len(tasks) = Len(definition) /\ Range(tasks) = Range(definition)
               /\ dependsOn = GraphOf(tasks) /\ Tasks = NamesOf(tasks)
               /\ \A i \in 1 .. Len(tasks) : tasks[i].name # NoName
    <3>1. /\ definition # <<>> /\ Len(tasks) = Len(definition) /\ dependsOn = GraphOf(tasks)
          /\ \A i \in 1 .. Len(tasks) : tasks[i].name # NoName
      BY <2>1, <2>3 DEF DefinitionInv, Sorted
    <3>2. Range(tasks) = Range(definition)
      BY <2>1, <3>1, TasksAreEntries
    <3>3. Tasks = NamesOf(tasks)
      BY <3>1 DEF Tasks, GraphOf
    <3> QED
      BY <3>1, <3>2, <3>3
  <2>4. ASSUME errors = {}, pc = "done" PROVE Len(order) = Len(definition)
    <3>1. Sorted
      BY <2>4 DEF Sorted
    <3>2. \A e \in Range(definition) : e.name # NoName
      BY <2>1, <2>4
    <3>3. \A i, j \in DOMAIN definition : j < i => definition[i].name # definition[j].name
      <4>1. \A i \in DOMAIN definition : definition[i].name # NoName
        BY <3>2 DEF Range
      <4> QED
        BY <2>1, <2>4, <4>1
    <3>4. Cardinality(NamesOf(tasks)) = Len(definition)
      BY <2>1, <2>3, <3>1, <3>2, <3>3, EntriesHaveNames
    <3>5. Len(order) = Cardinality(Tasks)
      <4>1. Topological /\ Ordered = Tasks
        BY <3>1 DEF IInv, PlanInv, SortInv
      <4> QED
        BY <4>1, DistinctCount DEF Topological, Ordered
    <3> QED
      BY <2>3, <3>1, <3>4, <3>5
  <2>5. ASSUME Sorted PROVE errors \subseteq {"duplicate"}
    <3>1. /\ definition # <<>> /\ Range(tasks) = Range(definition)
          /\ dependsOn = GraphOf(tasks) /\ Tasks = NamesOf(tasks)
          /\ tasks \in Seq(Range(definition))
          /\ \A i \in 1 .. Len(tasks) : tasks[i].name # NoName
      BY <2>1, <2>3, <2>5 DEF DefinitionInv
    <3>2. \A e \in Range(definition) : e.name # NoName
      <4>1. \A e \in Range(tasks) : e.name # NoName
        BY <3>1 DEF Range
      <4> QED
        BY <3>1, <4>1
    <3>3. ASSUME NEW e \in Range(definition), e.name \in e.dependsOn PROVE FALSE
      <4> DEFINE n == e.name
      <4>1. n \in Tasks /\ e \in Range(tasks)
        BY <3>1, <3>2 DEF NamesOf
      <4>2. dependsOn[n] = UNION {f.dependsOn : f \in {f \in Range(tasks) : f.name = n}}
        BY <3>1, <4>1 DEF GraphOf
      <4>3. n \in dependsOn[n]
        BY <3>3, <4>1, <4>2
      <4>4. Acyclic(Tasks, dependsOn)
        <5>1. Topological /\ Ordered = Tasks
          BY <2>5 DEF IInv, PlanInv, SortInv
        <5> QED
          BY <5>1, OrderedIsAcyclic
      <4>5. {n} \in SUBSET Tasks /\ {n} # {}
        BY <4>1
      <4>6. PICK t \in {n} : dependsOn[t] \cap {n} = {}
        BY <4>4, <4>5 DEF Acyclic
      <4> QED
        BY <4>3, <4>6
    <3> QED
      BY <2>1, <3>1, <3>2, <3>3
  <2> QED
    BY <2>2, <2>4, <2>5
<1> QED
  BY <1>1, Invariant, PTL
=============================================================================
