----------------------------- MODULE MCDelivery -----------------------------
(* Instances of Delivery for TLC. *)
EXTENDS Delivery, TLC
CONSTANTS h, p1, p2, c1, c2

\* Bound: what a subscriber without a name does to the log has nothing to do with
\* how many clients there are, so that one is enough then.
OneClientIfNameless ==
  nameless # {} => Cardinality({c \in Clients : client[c] # "away"}) <= 1

Symmetry == Permutations(Publications) \cup Permutations(Clients)
=============================================================================
