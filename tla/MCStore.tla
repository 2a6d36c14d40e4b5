------------------------------ MODULE MCStore -------------------------------
(* Instances of Store for TLC. *)
EXTENDS Store, TLC

CONSTANTS u1, c1, c2, p1, p2, t1, t2, x1, x2

Symmetric ==
    Permutations({c1, c2}) \union Permutations({p1, p2}) \union Permutations({t1, t2})
        \union Permutations({x1, x2})
=============================================================================
