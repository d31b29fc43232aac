----------------------------- MODULE MCEngine -----------------------------
(* Instances of Engine for TLC: graphs and per-task constants. *)
EXTENDS Engine, TLC

CONSTANTS a, b, c, d

AllGraphs == [Tasks -> SUBSET Tasks]

\* Every graph without a self-dependency.
PlainGraphs == {g \in AllGraphs : \A t \in Tasks : t \notin g[t]}

AcyclicGraphs == {g \in AllGraphs : Acyclic(Tasks, g)}

\* A graph that names a task the workflow does not have.
UnknownDependency == {[t \in Tasks |-> IF t = b THEN {a, d} ELSE {}]}

PlainOrUnknown == PlainGraphs \cup UnknownDependency

\* b after a; c on its own.
Chain == {(a :> {}) @@ (b :> {a}) @@ (c :> {})}

ZeroEach == [t \in Tasks |-> 0]
OneRetryForA == [t \in Tasks |-> IF t = a THEN 1 ELSE 0]
AFirst == [t \in Tasks |-> IF t = a THEN 1 ELSE 0]
EveryTask == [t \in Tasks |-> Tasks]
===========================================================================
