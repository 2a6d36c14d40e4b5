---------------------------- MODULE MCAbacProxy -----------------------------
(* Instances of AbacProxy for TLC: two connections, two tokens, two tables. *)
EXTENDS AbacProxy

CONSTANTS c1, c2, t1, t2, k1, k2, a, A, b, w, s, na, nb, nw, ns

\* The host a has two spellings, b has one, w is a wildcard that covers s.
MCHostText == {a, A, b, w, s}
MCHostName == {na, nb, nw, ns}
MCCanonical ==
    [h \in MCHostText |-> CASE h \in {a, A} -> na [] h = b -> nb
                             [] h = w -> nw [] h = s -> ns]
MCSuffixed == [h \in {w} |-> {nw, ns}]

\* A read and a write of one path, and a read of another.
MCEndpoint == {"get", "put", "other"}

(* The texts that these stand for: Allowlist and Matcher make of them what  *)
(* the instances below say.                                                 *)
Characters == {"/", "*", ".", "a", "b", "c", "s", "A", "G", "P", "g"}
LowerOf == [x \in Characters |-> CASE x = "A" -> "a" [] x = "G" -> "g" [] OTHER -> x]
UpperOf == [x \in Characters |-> CASE x = "a" -> "A" [] x = "g" -> "G" [] OTHER -> x]
List == INSTANCE Allowlist
Routes == INSTANCE Matcher

Spelling == (a :> <<"a">>) @@ (A :> <<"A">>) @@ (b :> <<"b">>) @@
            (w :> <<"*", ".", "c">>) @@ (s :> <<"s", ".", "c">>)

ASSUME HostsAsInAllowlist ==
    \A h, k \in MCHostText :
        (List!Verdict(Spelling[k], Spelling[h]) = "accept") <=>
            IF k = w THEN MCCanonical[h] \in MCSuffixed[k]
                     ELSE MCCanonical[h] = MCCanonical[k]

Path == [get |-> <<"/", "a">>, put |-> <<"/", "a">>, other |-> <<"/", "b", "/", "a">>]
Method == [get |-> <<"G">>, put |-> <<"P">>, other |-> <<"G">>]
Matched(route, method) ==
    {e \in MCEndpoint : Routes!MatchesWithMethod(route, method, Path[e], Method[e])}

ASSUME EndpointsAsInMatcher ==
    /\ Matched(<<"/", "*">>, <<"g">>) = {"get"}
    /\ Matched(<<"a", "/">>, <<"P">>) = {"put"}
    /\ Matched(<<"*">>, <<>>) = {"get", "put"}

Allow(m)  == [matches |-> m, action |-> "allow", filter |-> FALSE]
Strip(m)  == [matches |-> m, action |-> "allow", filter |-> TRUE]
Deny(m)   == [matches |-> m, action |-> "deny", filter |-> FALSE]
Word(m)   == [matches |-> m, action |-> "other", filter |-> FALSE]

Base(host, scheme, cred, rules) ==
    [host |-> host, scheme |-> scheme, cred |-> cred, custom |-> FALSE,
     header |-> FALSE, rules |-> rules]

\* Overlapping rules: the first match decides.
PolicyA == Base(a, "https", k1,
                <<Deny({"put"}), Strip({"get"}), Allow({"get", "put"})>>)
\* No credential; a second policy for a host that already has one.
PolicyB == Base(b, "https", NoCred, <<Allow({"get"})>>)
PolicyBSecond == Base(b, "http", k2, <<Deny({"get"}), Allow({"put"})>>)
\* A credential in a header of its own, and one whose header is missing.
PolicyCustom == [Base(b, "https", k2, <<Strip({"get", "put"})>>)
                    EXCEPT !.custom = TRUE, !.header = TRUE]
PolicyNoHeader == [Base(A, "https", k2, <<Allow({"get"})>>) EXCEPT !.custom = TRUE]
PolicyNoHost == Base(NoHost, "https", k2, <<Allow({"get", "put"})>>)

Group(ps, d) == [policies |-> ps, defaultAction |-> d]

Table1 == (t1 :> Group(<<PolicyA, PolicyB, PolicyBSecond>>, "")) @@
          (t2 :> Group(<<PolicyNoHost, PolicyCustom>>, "deny"))
\* t1 has lost its policy for a and denies by default; t2 has new policies.
Table2 == (t1 :> Group(<<PolicyBSecond>>, "deny")) @@
          (t2 :> Group(<<PolicyNoHeader, PolicyB>>, "allow"))

MCTables == {Table1, Table2}

\* The allowlist of PolicyA, PolicyB and PolicyBSecond (IsAllowlistOf).
EntryFor(policy) == [host |-> policy.host, scheme |-> policy.scheme]
MCEntries == <<EntryFor(PolicyA), EntryFor(PolicyB)>>

Request(auth, host, endpoint) ==
    [auth |-> auth, host |-> host, endpoint |-> endpoint]
MCRequests ==
    {Request(t1, a, "get"), Request(t1, A, "put"), Request(t1, b, "get"),
     Request(t1, b, "other"), Request(t2, b, "get"), Request(t2, a, "get"),
     Request(t2, b, "other"), Request(OtherAuth, a, "get"),
     Request(t1, s, "get")}

Answer(json, payload, encoded) ==
    [json |-> json, payload |-> payload, encoded |-> encoded]
MCReplies ==
    {Answer(TRUE, "json", FALSE), Answer(TRUE, "json", TRUE),
     Answer(TRUE, "malformed", FALSE), Answer(TRUE, "broken", FALSE),
     Answer(FALSE, "json", FALSE)}

(* What a set of policy files makes: one table, and the allowlist of all of *)
(* its policies.  One rule has a misspelled action.                         *)
PolicyWord == Base(b, "http", k2, <<Word({"get"})>>)

MCDocTables == {(t1 :> Group(<<PolicyA>>, "")) @@ (t2 :> Group(<<PolicyWord>>, ""))}
MCDocEntries == <<EntryFor(PolicyA), EntryFor(PolicyWord)>>
MCDenyRequests == {Request(t1, a, "get"), Request(t1, a, "put")}
MCWordRequests == {Request(t1, a, "get"), Request(t2, b, "get")}
=============================================================================
