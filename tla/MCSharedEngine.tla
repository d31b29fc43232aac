--------------------------- MODULE MCSharedEngine ---------------------------
(* Instances of SharedEngine for TLC. *)
EXTENDS SharedEngine, TLC

CONSTANTS v, w, a, b, c, d

Apart == v :> (a :> {} @@ b :> {a}) @@ w :> (c :> {} @@ d :> {c})
SameNames == v :> (a :> {} @@ b :> {a}) @@ w :> (a :> {} @@ b :> {a})
Mixed == v :> (a :> {} @@ b :> {a} @@ c :> {}) @@ w :> (a :> {} @@ d :> {a})

Triple == a :> {} @@ b :> {a} @@ c :> {}
EqualNames == {v :> Triple @@ w :> Triple}
AllLoads == {Apart, SameNames, Mixed}
=============================================================================
