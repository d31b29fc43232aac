--------------------------- MODULE WorkflowGraph ---------------------------
(***************************************************************************)
(* The dependency graph of a workflow: core/models.py, Workflow.build_dag  *)
(* and class DAG.  A graph is the function deps from the task names to     *)
(* their depends_on sets.  The adjacency and in-degree tables of the code  *)
(* are this relation read from the other end; Planner has the tables and   *)
(* Kahn's algorithm and shows that it rejects exactly the graphs that are  *)
(* not Acyclic.                                                            *)
(***************************************************************************)
EXTENDS FiniteSets

\* Workflow.build_dag raises ValueError unless every dependency names a task.
AllDependenciesKnown(tasks, deps) == \A t \in tasks : deps[t] \subseteq tasks

\* DAG.topological_sort raises CycleDetectedError unless it can remove the
\* nodes one by one, each with no dependency left among those that remain.
Acyclic(tasks, deps) ==
  \A S \in SUBSET tasks : S # {} => \E t \in S : deps[t] \cap S = {}

\* build_dag returns a DAG and raises nothing.
BuildsDag(tasks, deps) ==
  AllDependenciesKnown(tasks, deps) /\ Acyclic(tasks, deps)

\* DAG.get_ready_nodes: the nodes not completed whose dependencies all are.
GetReadyNodes(tasks, deps, completed) ==
  {t \in tasks \ completed : deps[t] \subseteq completed}
=============================================================================
