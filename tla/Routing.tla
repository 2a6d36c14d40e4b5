------------------------------ MODULE Routing -------------------------------
(***************************************************************************)
(* Where a request belongs: which entry of the allowlist decides about its *)
(* host, and whether the route and the method of a rule match it.  One     *)
(* question is chosen and answered; the properties say what the answer     *)
(* should be without the operators that compute it.                        *)
(***************************************************************************)
EXTENDS Matcher, Allowlist

CONSTANTS
    Character,
    RouteQueries,   \* [pattern, method, path, reqMethod]
    HostQueries,    \* [entries, host]
    NoAnswer

Text == Seq(Character)

\* ToUpper and ToLower change a text character by character; an upper-case
\* letter is its own.
ASSUME RoutingAssumption ==
    /\ {"/", "*", ".", " "} \subseteq Character
    /\ UpperOf \in [Character -> Character]
    /\ LowerOf \in [Character -> Character]
    /\ \A c \in Character : UpperOf[UpperOf[c]] = UpperOf[c]
    /\ RouteQueries \subseteq
         [pattern: Text, method: Text, path: Text, reqMethod: Text]
    /\ HostQueries \subseteq [entries: Seq(Text), host: Text]
    /\ NoAnswer \notin Nat \union BOOLEAN

VARIABLES query, answer

vars == <<query, answer>>

Init == query \in RouteQueries \union HostQueries /\ answer = NoAnswer

IsRouteQuery == "pattern" \in DOMAIN query

AskMatcher ==
    /\ answer = NoAnswer
    /\ IsRouteQuery
    /\ answer' = MatchesWithMethod(query.pattern, query.method, query.path, query.reqMethod)
    /\ UNCHANGED query

AskAllowlist ==
    /\ answer = NoAnswer
    /\ ~IsRouteQuery
    /\ answer' = FindHost(query.entries, query.host)
    /\ UNCHANGED query

Next == AskMatcher \/ AskAllowlist

Spec == Init /\ [][Next]_vars

-----------------------------------------------------------------------------
(* Routes *)

RouteAnswered == answer # NoAnswer /\ IsRouteQuery

\* A letter and those that it is the upper case of.
CasesOf(c) == {c} \union {d \in Character : UpperOf[d] = c}

\* Two texts that differ at most in the case of their letters.
SameLetters(s, t) ==
    /\ Len(s) = Len(t)
    /\ \A i \in DOMAIN s : \E c \in Character : {s[i], t[i]} \subseteq CasesOf(c)

\* The stars that are whole segments: nothing or a slash on either side.
StarsOf(text) ==
    {i \in DOMAIN text : /\ text[i] = "*"
                         /\ i = 1 \/ text[i - 1] = "/"
                         /\ i = Len(text) \/ text[i + 1] = "/"}

\* What a star may stand for in a path.
PiecesOf(path) ==
    {s \in {SubSeq(path, i, j) : i \in 1..Len(path), j \in 0..Len(path)} :
        "/" \notin ToSet(s)}

\* A rule matches exactly the requests whose path is its route with a text
\* without slashes, perhaps an empty one, in the place of each star, and whose
\* method has the letters of its own (Matches, MatchesWithMethod).
RouteStandsForItsPaths ==
    RouteAnswered =>
        LET route == NormalizePath(query.pattern)
            path  == NormalizePath(query.path)
            Filled(f) == FlattenSeq([i \in DOMAIN route |->
                                        IF i \in DOMAIN f THEN f[i] ELSE <<route[i]>>])
        IN  answer <=>
              /\ query.method = <<>> \/ SameLetters(query.method, query.reqMethod)
              /\ \E f \in [StarsOf(route) -> PiecesOf(path)] : Filled(f) = path

\* The same text with a slash where it may be left out: in front, and at the
\* end unless there is one.
WithSlashes(text) ==
    (IF IsPrefix(<<"/">>, text) THEN {} ELSE {<<"/">> \o text}) \union
    (IF IsSuffix(<<"/">>, text) THEN {} ELSE {text \o <<"/">>})

\* A slash that is left out in front, or added at the end, of a route or of a
\* path makes no difference, also for the root (normalizePath).
SlashesAtTheEndsDoNotMatter ==
    RouteAnswered =>
        LET Answer(pattern, path) ==
                MatchesWithMethod(pattern, query.method, path, query.reqMethod)
        IN  /\ \A q \in WithSlashes(query.path) : Answer(query.pattern, q) = answer
            /\ \A p \in WithSlashes(query.pattern) : Answer(p, query.path) = answer

-----------------------------------------------------------------------------
(* Hosts *)

HostAnswered == answer # NoAnswer /\ ~IsRouteQuery

Host == CleanName(query.host)
Names == [i \in DOMAIN query.entries |-> CleanName(query.entries[i])]

Bare(name) == name = <<"*", ".">>

\* An entry names a host: it is the same name, or it is "*." in front of the
\* host or of what follows one of the host's dots.
NamesHost(name, host) ==
    \/ name = host
    \/ /\ IsPrefix(<<"*", ".">>, name) /\ ~Bare(name)
       /\ \/ name = <<"*", ".">> \o host
          \/ \E i \in DOMAIN host :
                host[i] = "." /\ name = <<"*", ".">> \o SubSeq(host, i + 1, Len(host))

\* A host that an entry names, with a wildcard its domain and everything under
\* it, is accepted, unless an entry before it breaks the search off (FindHost).
NamedHostsAreAccepted ==
    HostAnswered =>
        \A i \in DOMAIN Names :
            (NamesHost(Names[i], Host) /\ \A j \in 1..i : ~Bare(Names[j]))
                => /\ answer \in 1..i
                   /\ Verdict(query.entries[answer], query.host) = "accept"

-----------------------------------------------------------------------------
(* The inductive invariant: what was answered is what the code computes. *)

Question == IF IsRouteQuery
              THEN MatchesWithMethod(query.pattern, query.method, query.path, query.reqMethod)
              ELSE FindHost(query.entries, query.host)

AnswerInv ==
    /\ query \in RouteQueries \union HostQueries
    /\ answer # NoAnswer => answer = Question
=============================================================================
