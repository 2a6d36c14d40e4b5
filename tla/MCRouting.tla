----------------------------- MODULE MCRouting ------------------------------
(* Instances of Routing for TLC: short texts over small alphabets. *)
EXTENDS Routing, TLC

Characters == {"/", "*", ".", "a", "b", "A", " "}
MCUpperOf == [c \in Characters |-> IF c = "a" THEN "A" ELSE c]
MCLowerOf == [c \in Characters |-> IF c = "A" THEN "a" ELSE c]

Route(p, m, q, r) == [pattern |-> p, method |-> m, path |-> q, reqMethod |-> r]
Paths == BoundedSeq({"/", "*", "a"}, 4)
LongPaths == {<<"a">> \o p : p \in BoundedSeq({"/", "*", "a"}, 4)}
MCRouteQueries ==
    {Route(p, <<>>, q, <<"A">>) : p \in Paths, q \in Paths} \union
    {Route(p, <<>>, q, <<"A">>) : p \in LongPaths, q \in LongPaths} \union
    {Route(<<"/", "*">>, m, <<"a">>, r) :
        m \in BoundedSeq({"a", "b", "A"}, 2), r \in BoundedSeq({"a", "b", "A"}, 2)}

\* Names with an inner dot, letters of both cases and blanks; every wildcard
\* over up to two characters, the bare one among them.
Wildcards == {<<"*", ".">> \o t : t \in BoundedSeq({"a", "b", "."}, 2)}
Plain == BoundedSeq({"a", "A", " "}, 2) \union {<<"a", ".", "b">>, <<" ", "*", ".", "A">>}
Hosts == BoundedSeq({"a", "b", "."}, 4) \union BoundedSeq({"A", "b", " "}, 3)
MCHostQueries ==
    {[entries |-> <<e>>, host |-> h] : e \in Wildcards \union Plain, h \in Hosts} \union
    {[entries |-> <<e, f>>, host |-> h] :
        e \in {<<"*", ".">>, <<"*", ".", "b">>, <<"a">>},
        f \in Wildcards, h \in BoundedSeq({"a", "b", "."}, 3)}
=============================================================================
