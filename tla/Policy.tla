------------------------------- MODULE Policy -------------------------------
(***************************************************************************)
(* The data of the proxy (internal/api/api.go) and the lookups made on it: *)
(* the host allowlist (internal/proxy/allowlist), the policy of a token    *)
(* for a host and the first matching rule (internal/policy/engine), the    *)
(* default action (internal/proxy/interceptor/abac.go).                    *)
(*                                                                         *)
(* A host has a spelling (HostText), which is what a baseUrl or a Host     *)
(* header says, and a canonical name (HostName), what ToLower and          *)
(* TrimSpace make of the spelling.  An endpoint is a path with a method;   *)
(* a rule holds the set of endpoints that its route and method match.      *)
(***************************************************************************)
EXTENDS Naturals, Sequences, SequencesExt

CONSTANTS
    Token,          \* the non-empty tokens a client may present
    NoToken,        \* the empty token ""
    Cred, NoCred,   \* upstream credentials, and the empty one
    HostText,       \* spellings of hosts
    HostName,       \* canonical host names
    NoHost,         \* the host of a baseUrl that has none
    Canonical,      \* Canonical[h]: strings.ToLower(strings.TrimSpace(h))
    WildcardHost,   \* the spellings that begin with "*."
    Suffixed,       \* Suffixed[w]: the names that wildcard w accepts
    Scheme,         \* URL schemes
    Endpoint,       \* pairs of a request path and a method
    Passthrough     \* the flag --passthrough-unspecified

ASSUME PolicyAssumption ==
    /\ NoToken \notin Token
    /\ NoCred \notin Cred
    /\ NoHost \notin HostText
    /\ WildcardHost \subseteq HostText
    /\ Canonical \in [HostText -> HostName]
    /\ Suffixed \in [WildcardHost -> SUBSET HostName]
    /\ Passthrough \in BOOLEAN

-----------------------------------------------------------------------------
(* Types.  Nothing in the code restricts the text of an action: "" is a    *)
(* missing one and "other" stands for any word but allow and deny.         *)

ActionText == {"", "allow", "deny", "other"}

PolicyRule == [matches: SUBSET Endpoint, action: ActionText, filter: BOOLEAN]

\* `custom` is UpstreamTokenType = "custom" and `header` a non-empty
\* UpstreamHeaderString.
UpstreamPolicy ==
    [host: HostText \union {NoHost}, scheme: Scheme, cred: Cred \union {NoCred},
     custom: BOOLEAN, header: BOOLEAN, rules: Seq(PolicyRule)]

PolicyGroup == [policies: Seq(UpstreamPolicy), defaultAction: ActionText]

\* What an implementation of api.Api answers: a group for each known token.
IsTable(T) == DOMAIN T \subseteq Token /\ T \in [DOMAIN T -> PolicyGroup]

HostEntry == [host: HostText, scheme: Scheme]

-----------------------------------------------------------------------------
(* The allowlist *)

EntryAccepts(entry, host) ==
    \/ /\ entry.host \in WildcardHost
       /\ Canonical[host] \in Suffixed[entry.host]
    \/ /\ entry.host \notin WildcardHost
       /\ Canonical[host] = Canonical[entry.host]

\* The index of the entry that decides for a host, 0 when none accepts it.
FindHost(entries, host) ==
    SelectInSeq(entries, LAMBDA e : EntryAccepts(e, host))

\* The policies before which none has the same host.
Firsts(policies) ==
    {i \in 1..Len(policies) : \A j \in 1..(i - 1) : policies[j].host # policies[i].host}

\* The allowlist built at startup from the policies of all files: a host enters
\* it once, with the scheme of the first policy for it, in the order of these.
IsAllowlistOf(entries, policies) ==
    LET Of(k, i) == entries[k] = [host |-> policies[i].host, scheme |-> policies[i].scheme]
    IN  /\ \A i \in Firsts(policies) : \E k \in 1..Len(entries) : Of(k, i)
        /\ \A k \in 1..Len(entries) : \E i \in Firsts(policies) : Of(k, i)
        /\ \A k, l \in 1..Len(entries) : \A i, j \in Firsts(policies) :
              Of(k, i) /\ Of(l, j) => (k < l <=> i < j)

-----------------------------------------------------------------------------
(* The engine *)

ServesHost(policy, host) ==
    /\ policy.host # NoHost
    /\ Canonical[policy.host] = Canonical[host]

\* Faulty variant of GetPolicyData: the host is not compared.
AnyHostPolicy(table, token, host) ==
    IF token \in DOMAIN table /\ table[token].policies # <<>> THEN 1 ELSE 0

\* The index, in the token's group, of the policy for the host; 0 is the
\* error of an unknown token or of a host without a policy.
GetPolicyData(table, token, host) ==
    IF token \in DOMAIN table
      THEN SelectInSeq(table[token].policies, LAMBDA p : ServesHost(p, host))
      ELSE 0

\* Faulty variant of FindMatchingRule: a later rule overrides an earlier one.
LastMatchingRule(rules, endpoint) ==
    SelectLastInSeq(rules, LAMBDA r : endpoint \in r.matches)

\* The index of the first rule that matches, 0 when none does.
FindMatchingRule(rules, endpoint) ==
    SelectInSeq(rules, LAMBDA r : endpoint \in r.matches)

-----------------------------------------------------------------------------
(* The decision *)

\* Faulty variant of DefaultAction: the flag comes before the group's word.
PassthroughFirst(defaultAction) ==
    IF Passthrough THEN "allow"
    ELSE IF defaultAction # "" THEN defaultAction ELSE "deny"

\* The action of a request that no rule matches.
DefaultAction(defaultAction) ==
    IF defaultAction # "" THEN defaultAction
    ELSE IF Passthrough THEN "allow" ELSE "deny"

=============================================================================
