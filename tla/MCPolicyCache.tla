--------------------------- MODULE MCPolicyCache ----------------------------
(* Instances of PolicyCache for TLC. *)
EXTENDS PolicyCache, TLC

CONSTANTS p1, p2, p3, t1, t2

Symmetry == Permutations(Caller) \union Permutations(Token)
=============================================================================
