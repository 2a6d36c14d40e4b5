----------------------------- MODULE AbacProxy ------------------------------
(***************************************************************************)
(* The life of requests in the reverse proxy (internal/proxy/proxy.go) and *)
(* its interceptor (internal/proxy/interceptor/abac.go): the allowlist     *)
(* check, InterceptRequest, the Rewrite hook setUpstreamAuth, the exchange *)
(* with the upstream, InterceptResponse and the reply.  Each connection of *)
(* Conn carries one request at a time; the handlers of different           *)
(* connections interleave.  The table an api.Api answers from may change   *)
(* between any two steps, as it does behind the database implementation;   *)
(* with the file implementation Tables has one element.                    *)
(***************************************************************************)
EXTENDS Policy

CONSTANTS
    Conn,           \* the client connections
    NoAuth,         \* no Authorization header
    OtherAuth,      \* one that is not "Bearer <token>"
    Requests,       \* the requests clients may send
    Replies,        \* the responses upstreams may give
    Tables,         \* the tables the api may answer from
    Entries,        \* the allowlist
    NoPolicy,       \* a nil *api.Policy
    Nothing         \* a request not sent, a response not there yet

Incoming == [auth: Token \union {NoAuth, OtherAuth}, host: HostText,
             endpoint: Endpoint]

\* A response of an upstream: is its Content-Type JSON, what a reader of its
\* body finds, does it carry a Content-Encoding.
Reply == [json: BOOLEAN, payload: {"json", "malformed", "broken"},
          encoded: BOOLEAN]

\* The context of a request without a policy, and those with one.
InvalidContext == [valid |-> FALSE, policy |-> NoPolicy, defaultAction |-> ""]

Context == {InvalidContext} \union
           [valid: {TRUE}, policy: UpstreamPolicy, defaultAction: ActionText]

\* agentAuth: the Authorization header is the client's own; bearer, custom:
\* the credential carried by Authorization or by the policy's own header.
Outgoing == [host: HostText, scheme: Scheme, agentAuth: BOOLEAN,
             bearer: Cred \union {NoCred}, custom: Cred \union {NoCred}]

Response == [status: {"upstream", "403", "500", "502"},
             body: {"raw", "filtered", "error", "empty"}, encoded: BOOLEAN]

ASSUME ProxyAssumption ==
    /\ NoAuth \notin Token /\ OtherAuth \notin Token
    /\ Requests \subseteq Incoming
    /\ Replies \subseteq Reply
    /\ \A T \in Tables : IsTable(T)
    /\ Entries \in Seq(HostEntry)
    /\ NoPolicy \notin UpstreamPolicy
    /\ Nothing \notin Incoming \union Outgoing \union Reply \union Response

VARIABLES
    table,          \* what the api answers from now
    pc,             \* pc[c]: how far the request of connection c is
    in,             \* in[c]: the request of the client
    ctx,            \* ctx[c]: the context values InterceptRequest attached
    out,            \* out[c]: the request sent to the upstream
    reply,          \* reply[c]: the response of the upstream
    resp,           \* resp[c]: the response for the client
    tableAt         \* history: the table that InterceptRequest read

vars == <<table, pc, in, ctx, out, reply, resp, tableAt>>

Phase == {"idle", "arrived", "intercepted", "sent", "answered", "done"}

Init ==
    /\ table \in Tables
    /\ pc = [c \in Conn |-> "idle"]
    /\ in = [c \in Conn |-> Nothing]
    /\ ctx = [c \in Conn |-> InvalidContext]
    /\ out = [c \in Conn |-> Nothing]
    /\ reply = [c \in Conn |-> Nothing]
    /\ resp = [c \in Conn |-> Nothing]
    /\ tableAt = [c \in Conn |-> table]

-----------------------------------------------------------------------------
(* What the handlers compute *)

ExtractToken(auth) == IF auth \in Token THEN auth ELSE NoToken

\* Faulty variant of RequestContext: a known token is enough.
TokenOnlyContext(tbl, q) ==
    LET token == ExtractToken(q.auth)
        i     == GetPolicyData(tbl, token, q.host)
    IN  IF token \notin DOMAIN tbl THEN InvalidContext
        ELSE [valid |-> TRUE,
              policy |-> IF i = 0 THEN NoPolicy ELSE tbl[token].policies[i],
              defaultAction |-> tbl[token].defaultAction]

RequestContext(tbl, q) ==
    LET token == ExtractToken(q.auth)
        i     == GetPolicyData(tbl, token, q.host)
    IN  IF i = 0 THEN InvalidContext
        ELSE [valid |-> TRUE, policy |-> tbl[token].policies[i],
              defaultAction |-> tbl[token].defaultAction]

UpstreamToken(x) == IF x.valid THEN x.policy.cred ELSE NoCred

\* Faulty variant of SetUpstreamAuth: the client's Authorization stays beside
\* a credential that has a header of its own.
KeepAgentAuth(q, x) ==
    LET cred == UpstreamToken(x)
        own  == cred # NoCred /\ x.policy.custom /\ x.policy.header
    IN  [host      |-> q.host,
         scheme    |-> Entries[FindHost(Entries, q.host)].scheme,
         agentAuth |-> q.auth # NoAuth,
         bearer    |-> IF own THEN NoCred ELSE cred,
         custom    |-> IF own THEN cred ELSE NoCred]

\* setUpstreamAuth on a copy of the client's request: with a credential, the
\* client's Authorization goes and the credential comes.
SetUpstreamAuth(q, x) ==
    LET cred == UpstreamToken(x)
        own  == cred # NoCred /\ x.policy.custom /\ x.policy.header
    IN  [host      |-> q.host,
         scheme    |-> Entries[FindHost(Entries, q.host)].scheme,
         agentAuth |-> cred = NoCred /\ q.auth # NoAuth,
         bearer    |-> IF own THEN NoCred ELSE cred,
         custom    |-> IF own THEN cred ELSE NoCred]

RuleOf(x, q) == FindMatchingRule(x.policy.rules, q.endpoint)

Action(x, q) ==
    IF RuleOf(x, q) # 0 THEN x.policy.rules[RuleOf(x, q)].action
    ELSE DefaultAction(x.defaultAction)

Filters(x, q) == RuleOf(x, q) # 0 /\ x.policy.rules[RuleOf(x, q)].filter

\* replaceWithError leaves every other header of the response as it was.
ErrorResponse(status, r) ==
    [status |-> status, body |-> "error", encoded |-> r.encoded]

UpstreamResponse(body, r) ==
    [status |-> "upstream", body |-> body, encoded |-> r.encoded]

\* Faulty variant of FilterBody: a body that cannot be filtered is let through.
FilterElseRaw(r) ==
    UpstreamResponse(IF r.payload = "json" /\ ~r.encoded THEN "filtered" ELSE "raw", r)

\* readAndReplaceBody with the filter: the body is read to its end, parsed,
\* filtered and written again; an error of any of these is a 500.
FilterBody(r) ==
    IF r.payload = "json" /\ ~r.encoded THEN UpstreamResponse("filtered", r)
    ELSE ErrorResponse("500", r)

-----------------------------------------------------------------------------
(* Steps *)

\* A client sends its next request.
Arrive(c) ==
    /\ pc[c] \in {"idle", "done"}
    /\ \E q \in Requests : in' = [in EXCEPT ![c] = q]
    /\ pc' = [pc EXCEPT ![c] = "arrived"]
    /\ ctx' = [ctx EXCEPT ![c] = InvalidContext]
    /\ out' = [out EXCEPT ![c] = Nothing]
    /\ reply' = [reply EXCEPT ![c] = Nothing]
    /\ resp' = [resp EXCEPT ![c] = Nothing]
    /\ UNCHANGED <<table, tableAt>>

\* ServeHTTP: the host is not in the allowlist.
RejectHost(c) ==
    /\ pc[c] = "arrived"
    /\ FindHost(Entries, in[c].host) = 0
    /\ resp' = [resp EXCEPT ![c] = [status |-> "403", body |-> "error",
                                    encoded |-> FALSE]]
    /\ pc' = [pc EXCEPT ![c] = "done"]
    /\ UNCHANGED <<table, in, ctx, out, reply, tableAt>>

\* ServeHTTP goes on with InterceptRequest, which never refuses a request: it
\* only records in the context whether a policy was found.
InterceptRequest(c) ==
    /\ pc[c] = "arrived"
    /\ FindHost(Entries, in[c].host) # 0
    /\ ctx' = [ctx EXCEPT ![c] = RequestContext(table, in[c])]
    /\ tableAt' = [tableAt EXCEPT ![c] = table]
    /\ pc' = [pc EXCEPT ![c] = "intercepted"]
    /\ UNCHANGED <<table, in, out, reply, resp>>

\* ReverseProxy.ServeHTTP runs the Rewrite hook and sends the request.
Forward(c) ==
    /\ pc[c] = "intercepted"
    /\ out' = [out EXCEPT ![c] = SetUpstreamAuth(in[c], ctx[c])]
    /\ pc' = [pc EXCEPT ![c] = "sent"]
    /\ UNCHANGED <<table, in, ctx, reply, resp, tableAt>>

\* The upstream answers.
UpstreamAnswer(c) ==
    /\ pc[c] = "sent"
    /\ \E r \in Replies : reply' = [reply EXCEPT ![c] = r]
    /\ pc' = [pc EXCEPT ![c] = "answered"]
    /\ UNCHANGED <<table, in, ctx, out, resp, tableAt>>

\* No answer comes: the connection fails, before or after the upstream has
\* acted on the request, or the client leaves.  ReverseProxy replies 502.
TransportError(c) ==
    /\ pc[c] = "sent"
    /\ resp' = [resp EXCEPT ![c] = [status |-> "502", body |-> "empty",
                                    encoded |-> FALSE]]
    /\ pc' = [pc EXCEPT ![c] = "done"]
    /\ UNCHANGED <<table, in, ctx, out, reply, tableAt>>

\* ReverseProxy calls InterceptResponse, then copies its result to the client.
Respond(c, response) ==
    /\ resp' = [resp EXCEPT ![c] = response]
    /\ pc' = [pc EXCEPT ![c] = "done"]
    /\ UNCHANGED <<table, in, ctx, out, reply, tableAt>>

DenyInvalidToken(c) ==
    /\ pc[c] = "answered"
    /\ ~ctx[c].valid
    /\ Respond(c, ErrorResponse("403", reply[c]))

DenyByPolicy(c) ==
    /\ pc[c] = "answered"
    /\ ctx[c].valid
    /\ Action(ctx[c], in[c]) = "deny"
    /\ Respond(c, ErrorResponse("403", reply[c]))

\* Faulty variant of PassThrough: the policy is looked up again when the
\* response comes, not taken from the context.
PassThroughNow(c) ==
    LET now == RequestContext(table, in[c]) IN
    /\ pc[c] = "answered"
    /\ ctx[c].valid
    /\ IF now.valid THEN Action(now, in[c]) # "deny" /\ ~Filters(now, in[c])
                    ELSE TRUE
    /\ Respond(c, UpstreamResponse("raw", reply[c]))

PassThrough(c) ==
    /\ pc[c] = "answered"
    /\ ctx[c].valid
    /\ Action(ctx[c], in[c]) # "deny"
    /\ ~Filters(ctx[c], in[c])
    /\ Respond(c, UpstreamResponse("raw", reply[c]))

RejectNonJson(c) ==
    /\ pc[c] = "answered"
    /\ ctx[c].valid
    /\ Action(ctx[c], in[c]) # "deny"
    /\ Filters(ctx[c], in[c])
    /\ ~reply[c].json
    /\ Respond(c, ErrorResponse("403", reply[c]))

FilterResponse(c) ==
    /\ pc[c] = "answered"
    /\ ctx[c].valid
    /\ Action(ctx[c], in[c]) # "deny"
    /\ Filters(ctx[c], in[c])
    /\ reply[c].json
    /\ Respond(c, FilterBody(reply[c]))

\* The api answers from another table from now on.
ChangePolicies ==
    /\ table' \in Tables \ {table}
    /\ UNCHANGED <<pc, in, ctx, out, reply, resp, tableAt>>

InterceptResponse(c) ==
    \/ DenyInvalidToken(c)
    \/ DenyByPolicy(c)
    \/ PassThrough(c)
    \/ RejectNonJson(c)
    \/ FilterResponse(c)

\* The steps that the handler of a connection takes by itself.
Handler(c) ==
    \/ RejectHost(c)
    \/ InterceptRequest(c)
    \/ Forward(c)
    \/ InterceptResponse(c)

Next ==
    \/ \E c \in Conn :
        \/ Arrive(c)
        \/ Handler(c)
        \/ UpstreamAnswer(c)
        \/ TransportError(c)
    \/ ChangePolicies

Spec == Init /\ [][Next]_vars

-----------------------------------------------------------------------------
(* Properties.  They are stated on the table, the rules and the request, not *)
(* on the operators above: an index is first when no earlier one qualifies.  *)

TypeOK ==
    /\ table \in Tables
    /\ pc \in [Conn -> Phase]
    /\ in \in [Conn -> Requests \union {Nothing}]
    /\ ctx \in [Conn -> Context]
    /\ out \in [Conn -> Outgoing \union {Nothing}]
    /\ reply \in [Conn -> Replies \union {Nothing}]
    /\ resp \in [Conn -> Response \union {Nothing}]
    /\ tableAt \in [Conn -> Tables]

\* The policies of the group that q's token names, none for an unknown token.
PoliciesFor(T, q) == IF q.auth \in DOMAIN T THEN T[q.auth].policies ELSE <<>>

\* The first of them for the host of q: a set with that policy or none.
Governing(T, q) ==
    LET ps       == PoliciesFor(T, q)
        First(i) == /\ ServesHost(ps[i], q.host)
                    /\ \A j \in 1..(i - 1) : ~ServesHost(ps[j], q.host)
    IN  {ps[i] : i \in {k \in 1..Len(ps) : First(k)}}

\* Rule i of p is the first that matches q.
Decides(p, q, i) ==
    /\ i \in 1..Len(p.rules)
    /\ q.endpoint \in p.rules[i].matches
    /\ \A j \in 1..(i - 1) : q.endpoint \notin p.rules[j].matches

Unmatched(p, q) == \A i \in 1..Len(p.rules) : q.endpoint \notin p.rules[i].matches

\* No rule matches, and the group's default action or else the flag allows.
AllowedByDefault(T, q, p) ==
    /\ Unmatched(p, q)
    /\ LET d == T[q.auth].defaultAction IN
         IF d = "" THEN Passthrough ELSE d = "allow"

\* Rule i decides about q and allows it.
AllowedByRule(p, q, i) == Decides(p, q, i) /\ p.rules[i].action = "allow"

\* The body that table T and policy p entitle q to: what they allow by name.
Entitles(T, q, p, body) ==
    \/ body = "raw" /\ AllowedByDefault(T, q, p)
    \/ \E i \in 1..Len(p.rules) :
          /\ AllowedByRule(p, q, i)
          /\ body = IF p.rules[i].filter THEN "filtered" ELSE "raw"

\* The word that decides about q is one of those that an action may be
\* (README.md:182: "`allow` or `deny`"); a group need not have one.
ActionIsKnown(T, q, p) ==
    /\ \A i \in 1..Len(p.rules) :
          Decides(p, q, i) => p.rules[i].action \in {"allow", "deny"}
    /\ Unmatched(p, q) => T[q.auth].defaultAction \in {"", "allow", "deny"}

\* What a client gets of an upstream's body, raw or filtered, is what the
\* policy for its token and host allows it in the table that was current when
\* its token was looked up, however the table changes while the request is in
\* flight (abac.go: InterceptRequest keeps the policy in the context,
\* InterceptResponse decides with it).  It speaks of the policies whose action
\* is one of the two there are; OnlyAllowIsServed is about any.
OnlyWhatPolicyAllows ==
    \A c \in Conn :
        (pc[c] = "done" /\ resp[c].body \in {"raw", "filtered"}) =>
            \E p \in Governing(tableAt[c], in[c]) :
                ActionIsKnown(tableAt[c], in[c], p)
                    => Entitles(tableAt[c], in[c], p, resp[c].body)

\* The converse: a client whose policy allows the request gets the upstream's
\* answer, with its status, filtered when the rule says so, provided the answer
\* can be filtered (abac.go: no other branch of InterceptResponse refuses it).
AllowedIsServed ==
    \A c \in Conn :
        (pc[c] = "done" /\ reply[c] # Nothing) =>
            \A p \in Governing(tableAt[c], in[c]), body \in {"raw", "filtered"} :
                (/\ Entitles(tableAt[c], in[c], p, body)
                 /\ \/ body = "raw"
                    \/ reply[c].json /\ ~reply[c].encoded /\ reply[c].payload = "json")
                => resp[c].status = "upstream" /\ resp[c].body = body

\* A credential only travels in a request to the host of the policy it belongs
\* to, for a client with the token of that policy's group, and it is the
\* credential of the same policy whose rules decide on the response
\* (engine.go GetPolicyData, proxy.go setUpstreamAuth).
CredentialConfined ==
    \A c \in Conn :
        out[c] # Nothing =>
            \A k \in {out[c].bearer, out[c].custom} \ {NoCred} :
                \E p \in Governing(tableAt[c], in[c]) :
                    /\ p.cred = k
                    /\ Canonical[p.host] = Canonical[out[c].host]
                    /\ ctx[c].policy = p

\* When the policy has a credential, the upstream sees it, in the one header
\* that the policy names, and does not see what the client sent as its
\* Authorization (README.md:43, proxy.go:57-66).
AgentTokenReplaced ==
    \A c \in Conn :
        out[c] # Nothing =>
            \A p \in Governing(tableAt[c], in[c]) :
                p.cred # NoCred =>
                    /\ ~out[c].agentAuth
                    /\ IF p.custom /\ p.header
                       THEN out[c].custom = p.cred /\ out[c].bearer = NoCred
                       ELSE out[c].bearer = p.cred /\ out[c].custom = NoCred

-----------------------------------------------------------------------------
(* The inductive invariant of the proofs in AbacProxyProofs.                *)

\* InterceptResponse has answered with what the context says.
Decided(x, q, r, answer) ==
    \/ /\ ~x.valid
       /\ answer = ErrorResponse("403", r)
    \/ /\ x.valid
       /\ \/ /\ Action(x, q) = "deny"
             /\ answer = ErrorResponse("403", r)
          \/ /\ Action(x, q) # "deny"
             /\ \/ ~Filters(x, q) /\ answer = UpstreamResponse("raw", r)
                \/ Filters(x, q) /\ ~r.json /\ answer = ErrorResponse("403", r)
                \/ Filters(x, q) /\ r.json /\ answer = FilterBody(r)

\* What is there at each point of the life of a request.
ProgressInv(c) ==
    /\ pc[c] # "idle" => in[c] # Nothing
    /\ pc[c] \in {"idle", "arrived", "intercepted"} => out[c] = Nothing
    /\ pc[c] \in {"idle", "arrived", "intercepted", "sent"} => reply[c] = Nothing
    /\ pc[c] \in {"sent", "answered"} => out[c] # Nothing
    /\ pc[c] = "answered" => reply[c] # Nothing
    /\ reply[c] # Nothing => out[c] # Nothing
    /\ pc[c] = "done" => resp[c] # Nothing

\* The context never changes between InterceptRequest and the reply.
ContextInv(c) ==
    (pc[c] = "intercepted" \/ out[c] # Nothing) =>
        /\ FindHost(Entries, in[c].host) # 0
        /\ ctx[c] = RequestContext(tableAt[c], in[c])

OutInv(c) == out[c] # Nothing => out[c] = SetUpstreamAuth(in[c], ctx[c])

ReplyInv(c) ==
    pc[c] = "done" =>
        IF reply[c] = Nothing THEN resp[c].body \in {"error", "empty"}
        ELSE Decided(ctx[c], in[c], reply[c], resp[c])

ConnInv(c) == ProgressInv(c) /\ ContextInv(c) /\ OutInv(c) /\ ReplyInv(c)

IInv == TypeOK /\ \A c \in Conn : ConnInv(c)

-----------------------------------------------------------------------------
(* What the documentation says and the code does otherwise.                *)

\* README.md:268: "Deny by default - anything not explicitly allowed is
\* blocked": no request that the policy blocks reaches the upstream.
BlockedNeverForwarded ==
    \A c \in Conn :
        out[c] # Nothing =>
            \E p \in Governing(tableAt[c], in[c]), body \in {"raw", "filtered"} :
                Entitles(tableAt[c], in[c], p, body)

\* README.md:268: "anything not explicitly allowed is blocked", and :182: an
\* action is "`allow` or `deny`": no body of an upstream gets to a client
\* unless the rule or the default that decides says allow.
OnlyAllowIsServed ==
    \A c \in Conn :
        (pc[c] = "done" /\ resp[c].body \in {"raw", "filtered"}) =>
            \E p \in Governing(tableAt[c], in[c]) :
                Entitles(tableAt[c], in[c], p, resp[c].body)
=============================================================================
