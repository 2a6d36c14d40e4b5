----------------------------- MODULE MCStartup ------------------------------
(* Instances of Startup for TLC: two files, of which each may be anything.  *)
EXTENDS Startup

CONSTANTS p1, p2, t1, t2, k1, e1, e2, a, A, b, w, s, na, nb, nw, ns

\* The host a has two spellings, w is a wildcard that covers s.
MCHostText == {a, A, b, w, s}
MCHostName == {na, nb, nw, ns}
MCCanonical ==
    [h \in MCHostText |-> CASE h \in {a, A} -> na [] h = b -> nb
                             [] h = w -> nw [] h = s -> ns]
MCSuffixed == [h \in {w} |-> {ns}]
MCEndpoint == {"get"}
MCEnv == [k \in {e1, e2} |-> IF k = e1 THEN k1 ELSE NoCred]
MCLexical == [S \in SUBSET {p1, p2} |-> SelectSeq(<<p1, p2>>, LAMBDA p : p \in S)]

Base(host, scheme, key) ==
    [host |-> host, scheme |-> scheme, key |-> key, custom |-> FALSE,
     header |-> FALSE, rules |-> <<>>]

Content(token, ps) ==
    [version |-> TRUE, localToken |-> token, policies |-> ps, defaultAction |-> ""]

\* Two files that go together, whose hosts overlap with different schemes; the
\* second sets a default action.
First  == Content(t1, <<Base(a, "http", e1), Base(b, NoScheme, NoKey), Base(A, "https", e1)>>)
Second == [Content(t2, <<Base(s, "http", NoKey), Base(b, "http", e1), Base(w, "https", e1)>>)
              EXCEPT !.defaultAction = "allow"]
\* The first's token again; then what is missing, one thing each.
SameAgain == Content(t1, <<Base(b, "http", NoKey)>>)
Faulty ==
    {[First EXCEPT !.version = FALSE], [First EXCEPT !.localToken = NoToken],
     [First EXCEPT !.policies = <<>>],
     [First EXCEPT !.policies[2].host = NoHost],
     [First EXCEPT !.policies[3].host = NoUrl],
     [Second EXCEPT !.policies[3].key = e2]}

MCContents == {First, Second, SameAgain} \union Faulty

Given(port, files, dir, db) ==
    [port |-> port, policyGroup |-> files, dir |-> dir, database |-> db]
MCOptions ==
    {Given(8080, files, dir, db) : files \in {<<>>, <<p1>>, <<p2, p1>>},
                                   dir \in Directory, db \in BOOLEAN}
    \union {Given(port, <<p1>>, "none", FALSE) : port \in {0, 1, 65535, 65536}}
=============================================================================
