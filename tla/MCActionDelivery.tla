---------------------------- MODULE MCActionDelivery ----------------------------
(* Instances of ActionDelivery for TLC. *)
EXTENDS ActionDelivery, TLC

CONSTANTS a1, a2, k1, k2, c1, c2

\* Requests are alike and so are the connections that carry them.
Alike == Permutations({a1, a2}) \union Permutations({k1, k2})
=============================================================================
