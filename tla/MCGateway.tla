----------------------------- MODULE MCGateway -----------------------------
(* Instances of Gateway for TLC. *)
EXTENDS Gateway, TLC

CONSTANTS r1, r2, r3, c1, c2, k1, k2, t1

\* k1 and the token have the role that "api" needs; k2 has none.
RolesHeld == k1 :> {"admin"} @@ k2 :> {} @@ t1 :> {"admin"}
ApiNeedsAdmin == [p \in Paths |-> IF p = "api" THEN {"admin"} ELSE {}]
LimitOutside == <<"limit", "auth">>

Symmetry == Permutations(Requests) \cup Permutations(Clients)
=============================================================================
