------------------------------ MODULE MCWithTx ------------------------------
(* Instances of WithTx for TLC. *)
EXTENDS WithTx, TLC

CONSTANTS c1, c2, c3, r1, r2, v1, v2, k1, k2

\* Functions that write both rows wait for each other when they begin with
\* different ones.
MCPrograms == {[r \in Row |-> v1]}

MCContents == [r \in Row |-> v2]

=============================================================================
