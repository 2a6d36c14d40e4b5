----------------------------- MODULE Allowlist ------------------------------
(***************************************************************************)
(* Which entry of the allowlist decides about a host, and how              *)
(* (internal/proxy/allowlist/allowlist.go).  A host is a text: a sequence  *)
(* of one-character strings.                                               *)
(***************************************************************************)
EXTENDS Naturals, Sequences, SequencesExt

CONSTANT LowerOf    \* LowerOf[c]: strings.ToLower on one character

\* strings.TrimSpace
TrimSpace(text) ==
    LET first == SelectInSeq(text, LAMBDA c : c # " ")
        last  == SelectLastInSeq(text, LAMBDA c : c # " ")
    IN  IF first = 0 THEN <<>> ELSE SubSeq(text, first, last)

CleanName(text) == LET t == TrimSpace(text) IN [i \in DOMAIN t |-> LowerOf[t[i]]]

IsWildcard(name) == IsPrefix(<<"*", ".">>, name)

\* What is left of a wildcard without "*.".
Suffix(name) == SubSeq(name, 3, Len(name))

\* Faulty variant of SuffixAccepts: the suffix is tested with its dot.
DottedSuffixAccepts(suffix, host) ==
    host = Tail(suffix) \/ IsSuffix(<<".">> \o suffix, host)

\* host == suffix[1:] || strings.HasSuffix(host, suffix)
SuffixAccepts(suffix, host) == host = Tail(suffix) \/ IsSuffix(suffix, host)

\* What one entry says of a host.  suffix[1:] of an empty suffix is out of
\* range.
Verdict(entry, host) ==
    LET name == CleanName(entry)
        accepts == IF IsWildcard(name) THEN SuffixAccepts(Suffix(name), CleanName(host))
                                       ELSE CleanName(host) = name
    IN  IF IsWildcard(name) /\ Suffix(name) = <<>> THEN "panic"
        ELSE IF accepts THEN "accept" ELSE "pass"

\* The index of the entry that ends the search, 0 when none does.
FindHost(entries, host) ==
    SelectInSeq(entries, LAMBDA e : Verdict(e, host) # "pass")

=============================================================================
