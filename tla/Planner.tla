------------------------------ MODULE Planner ------------------------------
(***************************************************************************)
(* The algorithms on the dependency graph, one iteration at a time:        *)
(* DAG.topological_sort (core/models.py), by which build_dag rejects a     *)
(* cycle, and ExecutionEngine.dry_run (core/engine.py) with its phases and *)
(* its critical path.  The sets the code iterates over have no order: any  *)
(* order may come out.                                                     *)
(***************************************************************************)
EXTENDS WorkflowGraph, SequencesExt

VARIABLES
  dependsOn,  \* the graph build_dag makes: what each name depends on
  pc,         \* the loop dry_run is in
  inDegree,   \* topological_sort's copy of the in-degrees
  queue,      \* its queue of nodes with none left
  order,      \* its result, topo in dry_run
  phases,     \* the phases found, each a set of names
  relaxed,    \* how many nodes of order have handed on their distance
  dist,       \* dist: the length of the longest path to a node known yet,
  pred,       \* ... and the node before it on that path ({} for None)
  path        \* critical_path, found from its end

vars == <<dependsOn, pc, inDegree, queue, order, phases, relaxed, dist, pred, path>>

\* The names of the tasks, _adjacency's keys.
Tasks == DOMAIN dependsOn

\* _adjacency: the nodes that depend on n.
Adjacent(n) == {t \in Tasks : n \in dependsOn[t]}

\* No workflow to plan yet.
NoPlan ==
  /\ dependsOn = <<>> /\ inDegree = <<>> /\ dist = <<>> /\ pred = <<>>
  /\ queue = <<>> /\ order = <<>> /\ phases = <<>> /\ path = <<>>
  /\ relaxed = 0

\* build_dag raises ValueError,
UnknownName ==
  /\ pc = "build" /\ ~AllDependenciesKnown(Tasks, dependsOn)
  /\ pc' = "raised"
  /\ UNCHANGED <<dependsOn, inDegree, queue, order, phases, relaxed, dist, pred, path>>

\* Mutation: several dependencies are counted as one.
Build_OneEdgeEach ==
  /\ pc = "build" /\ AllDependenciesKnown(Tasks, dependsOn)
  /\ pc' = "sort"
  /\ inDegree' = [t \in Tasks |-> IF dependsOn[t] = {} THEN 0 ELSE 1]
  /\ queue' \in SetToSeqs({t \in Tasks : dependsOn[t] = {}})
  /\ UNCHANGED <<dependsOn, order, phases, relaxed, dist, pred, path>>

\* ... or has added every edge once.
Build ==
  /\ pc = "build" /\ AllDependenciesKnown(Tasks, dependsOn)
  /\ pc' = "sort"
  /\ inDegree' = [t \in Tasks |-> Cardinality(dependsOn[t])]
  /\ queue' \in SetToSeqs({t \in Tasks : dependsOn[t] = {}})
  /\ UNCHANGED <<dependsOn, order, phases, relaxed, dist, pred, path>>

SortNode ==
  LET node == Head(queue)
      left == [t \in Tasks |-> IF t \in Adjacent(node) THEN inDegree[t] - 1 ELSE inDegree[t]]
  IN /\ pc = "sort" /\ queue # <<>>
     /\ order' = Append(order, node)
     /\ inDegree' = left
     /\ \E freed \in SetToSeqs({t \in Adjacent(node) : left[t] = 0}) :
          queue' = Tail(queue) \o freed
     /\ UNCHANGED <<dependsOn, pc, phases, relaxed, dist, pred, path>>

\* Mutations: the order is returned however short it is; the loop waits for the
\* order to be complete.
SortEnds_Unchecked ==
  /\ pc = "sort" /\ queue = <<>>
  /\ pc' = "phases"
  /\ UNCHANGED <<dependsOn, inDegree, queue, order, phases, relaxed, dist, pred, path>>

SortEnds_WhenComplete ==
  /\ pc = "sort" /\ Len(order) = Cardinality(Tasks)
  /\ pc' = "phases"
  /\ UNCHANGED <<dependsOn, inDegree, queue, order, phases, relaxed, dist, pred, path>>

\* CycleDetectedError, or on to the phases.
SortEnds ==
  /\ pc = "sort" /\ queue = <<>>
  /\ pc' = IF Len(order) # Cardinality(Tasks) THEN "raised" ELSE "phases"
  /\ UNCHANGED <<dependsOn, inDegree, queue, order, phases, relaxed, dist, pred, path>>

Planned == UNION Range(phases)

\* Mutation: one planned dependency is enough.
NextPhase_AnyDependency ==
  LET layer == {t \in Tasks \ Planned : dependsOn[t] \cap Planned # {} \/ dependsOn[t] = {}}
  IN /\ pc = "phases" /\ Planned # Tasks /\ layer # {}
     /\ phases' = Append(phases, layer)
     /\ UNCHANGED <<dependsOn, pc, inDegree, queue, order, relaxed, dist, pred, path>>

NextPhase ==
  LET layer == GetReadyNodes(Tasks, dependsOn, Planned)
  IN /\ pc = "phases" /\ Planned # Tasks /\ layer # {}
     /\ phases' = Append(phases, layer)
     /\ UNCHANGED <<dependsOn, pc, inDegree, queue, order, relaxed, dist, pred, path>>

\* Everything is planned, or nothing more is ready.
PhasesEnd ==
  /\ pc = "phases"
  /\ Planned = Tasks \/ GetReadyNodes(Tasks, dependsOn, Planned) = {}
  /\ pc' = "relax"
  /\ dist' = [t \in Tasks |-> 1]
  /\ pred' = [t \in Tasks |-> {}]
  /\ UNCHANGED <<dependsOn, inDegree, queue, order, phases, relaxed, path>>

\* Mutation: the first path found to a node is kept.
RelaxNode_FirstPath ==
  LET node == order[relaxed + 1]
      reached == {t \in Adjacent(node) : pred[t] = {}}
  IN /\ pc = "relax" /\ relaxed < Len(order)
     /\ relaxed' = relaxed + 1
     /\ dist' = [t \in Tasks |-> IF t \in reached THEN dist[node] + 1 ELSE dist[t]]
     /\ pred' = [t \in Tasks |-> IF t \in reached THEN {node} ELSE pred[t]]
     /\ UNCHANGED <<dependsOn, pc, inDegree, queue, order, phases, path>>

RelaxNode ==
  LET node == order[relaxed + 1]
      longer == {t \in Adjacent(node) : dist[node] + 1 > dist[t]}
  IN /\ pc = "relax" /\ relaxed < Len(order)
     /\ relaxed' = relaxed + 1
     /\ dist' = [t \in Tasks |-> IF t \in longer THEN dist[node] + 1 ELSE dist[t]]
     /\ pred' = [t \in Tasks |-> IF t \in longer THEN {node} ELSE pred[t]]
     /\ UNCHANGED <<dependsOn, pc, inDegree, queue, order, phases, path>>

\* The end of the path is the first node of order with the greatest distance;
\* max() of no node raises.
FindEnd ==
  /\ pc = "relax" /\ relaxed = Len(order)
  /\ IF order = <<>>
     THEN pc' = "raised" /\ UNCHANGED path
     ELSE /\ pc' = "walk"
          /\ \E i \in 1 .. Len(order) :
               /\ \A j \in 1 .. i - 1 : dist[order[j]] < dist[order[i]]
               /\ \A j \in 1 .. Len(order) : dist[order[j]] <= dist[order[i]]
               /\ path' = <<order[i]>>
  /\ UNCHANGED <<dependsOn, inDegree, queue, order, phases, relaxed, dist, pred>>

WalkBack ==
  /\ pc = "walk" /\ pred[Head(path)] # {}
  /\ \E n \in pred[Head(path)] : path' = <<n>> \o path
  /\ UNCHANGED <<dependsOn, pc, inDegree, queue, order, phases, relaxed, dist, pred>>

ReturnPlan ==
  /\ pc = "walk" /\ pred[Head(path)] = {}
  /\ pc' = "done"
  /\ UNCHANGED <<dependsOn, inDegree, queue, order, phases, relaxed, dist, pred, path>>

DryRunStep ==
  \/ UnknownName \/ Build \/ SortNode \/ SortEnds \/ NextPhase \/ PhasesEnd
  \/ RelaxNode \/ FindEnd \/ WalkBack \/ ReturnPlan

-----------------------------------------------------------------------------
(* Properties *)

\* Kahn's algorithm accepts exactly the graphs without a cycle: WorkflowGraph's
\* Acyclic, which Engine relies on, is what topological_sort decides.
SortDecidesAcyclicity ==
  /\ pc \in {"phases", "relax", "walk", "done"} => BuildsDag(Tasks, dependsOn)
  /\ pc = "raised" => Tasks = {} \/ ~BuildsDag(Tasks, dependsOn)

\* The order it returns has every task once and after its dependencies.
OrderIsTopological ==
  pc \in {"phases", "relax", "walk", "done"} =>
    /\ Len(order) = Cardinality(Tasks) /\ Range(order) = Tasks
    /\ \A i, j \in 1 .. Len(order) : order[i] \in dependsOn[order[j]] => i < j

\* Every task is in one phase, the earliest one after those of all it depends on.
PhasesAreEarliest ==
  pc \in {"relax", "walk", "done"} =>
    /\ Planned = Tasks
    /\ \A i \in 1 .. Len(phases) : \A t \in phases[i] :
         /\ \A d \in dependsOn[t] : \E j \in 1 .. i - 1 : d \in phases[j]
         /\ i > 1 => \E d \in dependsOn[t] : d \in phases[i - 1]

\* The critical path is a chain of dependencies, and as long as there are
\* phases: no chain is longer.
CriticalPathIsLongest ==
  pc = "done" =>
    /\ \A i \in 1 .. Len(path) - 1 : path[i] \in dependsOn[path[i + 1]]
    /\ Len(path) = Len(phases)

\* dry_run returns or raises.
PlanIsMade == <>(pc \in {"done", "raised"})
=============================================================================
