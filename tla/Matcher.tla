------------------------------ MODULE Matcher -------------------------------
(***************************************************************************)
(* How the route and the method of a rule are compared with a request      *)
(* (internal/policy/matcher/matcher.go).  A text is a sequence of          *)
(* one-character strings; only "/" and "*" have a meaning.                 *)
(***************************************************************************)
EXTENDS Naturals, Sequences, SequencesExt

CONSTANT UpperOf    \* UpperOf[c]: strings.ToUpper on one character

ToUpper(text) == [i \in DOMAIN text |-> UpperOf[text[i]]]

\* Faulty variant of NormalizePath: the slash at the end stays.
NormalizeFront(path) == IF IsPrefix(<<"/">>, path) THEN path ELSE <<"/">> \o path

\* A path begins with a slash, and one slash at its end is removed.
NormalizePath(path) ==
    LET rooted == IF IsPrefix(<<"/">>, path) THEN path ELSE <<"/">> \o path
    IN  IF Len(rooted) > 1 /\ Last(rooted) = "/" THEN Front(rooted) ELSE rooted

\* A slash begins a new segment; any other character goes into the last one.
AddCharacter(parts, c) ==
    IF c = "/" THEN Append(parts, <<>>)
    ELSE [parts EXCEPT ![Len(parts)] = Append(@, c)]

\* strings.Split(text, "/")
Segments(text) ==
    LET parts[n \in 0..Len(text)] ==
            IF n = 0 THEN <<<<>>>> ELSE AddCharacter(parts[n - 1], text[n])
    IN  parts[Len(text)]

\* Faulty variant of SegmentsMatch: the last star stands for any rest.
StarTakesRest(pattern, path) ==
    /\ Len(pattern) <= Len(path)
    /\ Len(pattern) < Len(path) => Last(pattern) = <<"*">>
    /\ \A i \in DOMAIN pattern : pattern[i] \in {<<"*">>, path[i]}

SegmentsMatch(pattern, path) ==
    /\ Len(pattern) = Len(path)
    /\ \A i \in DOMAIN pattern : pattern[i] \in {<<"*">>, path[i]}

Matches(pattern, path) ==
    \/ NormalizePath(pattern) = NormalizePath(path)
    \/ SegmentsMatch(Segments(NormalizePath(pattern)), Segments(NormalizePath(path)))

\* A rule without a method is for all.
MatchesMethod(method, reqMethod) ==
    method = <<>> \/ ToUpper(method) = ToUpper(reqMethod)

MatchesWithMethod(pattern, method, path, reqMethod) ==
    MatchesMethod(method, reqMethod) /\ Matches(pattern, path)

=============================================================================
