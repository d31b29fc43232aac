------------------------------ MODULE MCStores ------------------------------
(* Stores with interchangeable clients, workflows and tasks. *)
EXTENDS Stores, TLC

Symmetry ==
  Permutations(Clients) \cup Permutations(Workflows) \cup Permutations(Tasks)

\* Bound: at any time at most one workflow's save is left half done.
OneTorn == \A v, w \in torn : v = w
=============================================================================
