----------------------------- MODULE MCPlanner -----------------------------
(* Instances of Definition and Planner for TLC. *)
EXTENDS Definition

CONSTANTS a, b, c, d

NameOrder == <<a, b, c, d>>
Earlier(i) == {NameOrder[j] : j \in 1 .. i - 1}
Entry(n, deps) == [name |-> n, dependsOn |-> deps]

\* Every acyclic graph on four tasks up to renaming, with one backward edge
\* added or not.
ForwardGraphs ==
  {<<Entry(a, back), Entry(b, x), Entry(c, y), Entry(d, z)>> :
     back \in {{}, {d}}, x \in SUBSET Earlier(2), y \in SUBSET Earlier(3), z \in SUBSET Earlier(4)}

\* An unknown name, a task that depends on itself, an entry without a name, no
\* entry at all; equal names that merge, that close a cycle, or that disagree.
Oddities ==
  {<<Entry(a, {"unknown"}), Entry(b, {})>>,
   <<Entry(a, {}), Entry(b, {a, b})>>,
   <<Entry(a, {}), Entry(NoName, {a})>>,
   <<>>,
   <<Entry(a, {}), Entry(a, {})>>,
   <<Entry(a, {}), Entry(b, {a}), Entry(a, {b})>>,
   <<Entry(b, {}), Entry(a, {}), Entry(b, {a})>>}

WrittenDefinitions == ForwardGraphs \cup Oddities
=============================================================================
