-------------------------- MODULE AbacProxyProofs ---------------------------
(***************************************************************************)
(* Proofs about AbacProxy, for every set of connections, requests, replies *)
(* and tables that satisfies PolicyAssumption and ProxyAssumption.         *)
(***************************************************************************)
EXTENDS AbacProxy, SequenceLemmas

-----------------------------------------------------------------------------
(* Lookups return the first element that qualifies.                        *)

\* The policy that GetPolicyData returns is the first of the token's group
\* that serves the host; it returns none only when there is none.
LEMMA GetPolicyDataIsFirst ==
    ASSUME NEW T, IsTable(T), NEW t, NEW h,
           NEW i, i = GetPolicyData(T, t, h)
    PROVE  \/ /\ i = 0
              /\ t \in DOMAIN T =>
                    \A j \in 1..Len(T[t].policies) : ~ServesHost(T[t].policies[j], h)
           \/ /\ t \in DOMAIN T
              /\ i \in 1..Len(T[t].policies)
              /\ ServesHost(T[t].policies[i], h)
              /\ \A j \in 1..(i - 1) : ~ServesHost(T[t].policies[j], h)
<1>1. CASE t \notin DOMAIN T
  BY <1>1 DEF GetPolicyData
<1>2. CASE t \in DOMAIN T
  <2> DEFINE ps == T[t].policies
             S  == {j \in 1..Len(ps) : ServesHost(ps[j], h)}
  <2>1. Len(ps) \in Nat
    BY <1>2 DEF IsTable, PolicyGroup
  <2>2. i = IF S # {} THEN Min(S) ELSE 0
    BY <1>2 DEF GetPolicyData, SelectInSeq
  <2>3. S \in SUBSET (1..Len(ps))
    OBVIOUS
  <2>4. \/ i = 0 /\ S = {}
        \/ i \in S /\ i # 0 /\ \A j \in 1..(i - 1) : j \notin S
    <3> HIDE DEF S
    <3> QED
      BY <2>1, <2>2, <2>3, FirstPlace
  <2> QED
    BY <1>2, <2>1, <2>4
<1> QED
  BY <1>1, <1>2

\* The rule that FindMatchingRule returns is the first that matches; it
\* returns none only when there is none.
LEMMA FindMatchingRuleIsFirst ==
    ASSUME NEW rules \in Seq(PolicyRule), NEW e,
           NEW i, i = FindMatchingRule(rules, e)
    PROVE  \/ /\ i = 0
              /\ \A j \in 1..Len(rules) : e \notin rules[j].matches
           \/ /\ i \in 1..Len(rules)
              /\ e \in rules[i].matches
              /\ \A j \in 1..(i - 1) : e \notin rules[j].matches
<1> DEFINE S == {j \in 1..Len(rules) : e \in rules[j].matches}
<1>1. Len(rules) \in Nat /\ S \in SUBSET (1..Len(rules))
  OBVIOUS
<1>2. i = IF S # {} THEN Min(S) ELSE 0
  BY DEF FindMatchingRule, SelectInSeq
<1>3. \/ i = 0 /\ S = {}
      \/ i \in S /\ i # 0 /\ \A j \in 1..(i - 1) : j \notin S
  <2> HIDE DEF S
  <2> QED
    BY <1>1, <1>2, FirstPlace
<1> QED
  BY <1>1, <1>3

\* FindHost returns the index of an entry that accepts the host, and 0 only when
\* there is none.
LEMMA FindHostIsEntry ==
    ASSUME NEW entries \in Seq(HostEntry), NEW h
    PROVE  /\ FindHost(entries, h) = 0 =>
                \A k \in 1..Len(entries) : ~EntryAccepts(entries[k], h)
           /\ FindHost(entries, h) # 0 =>
                /\ FindHost(entries, h) \in 1..Len(entries)
                /\ EntryAccepts(entries[FindHost(entries, h)], h)
<1> DEFINE S == {k \in 1..Len(entries) : EntryAccepts(entries[k], h)}
           i == FindHost(entries, h)
<1>1. Len(entries) \in Nat /\ S \in SUBSET (1..Len(entries))
  OBVIOUS
<1>2. i = IF S # {} THEN Min(S) ELSE 0
  BY DEF FindHost, SelectInSeq
<1>3. \/ i = 0 /\ S = {}
      \/ i \in S /\ i # 0
  <2> HIDE DEF S, i
  <2> QED
    BY <1>1, <1>2, FirstPlace
<1> QED
  BY <1>3

-----------------------------------------------------------------------------
(* The context that InterceptRequest attaches.                             *)

\* It is valid exactly when a policy of the token governs the request, and
\* then it holds that policy and the default action of its group.
LEMMA RequestContextGoverns ==
    ASSUME NEW T \in Tables, NEW q \in Requests,
           NEW x, x = RequestContext(T, q)
    PROVE  \/ /\ x = InvalidContext
              /\ Governing(T, q) = {}
           \/ /\ x.valid = TRUE
              /\ x.policy \in UpstreamPolicy
              /\ x.defaultAction \in ActionText
              /\ Governing(T, q) = {x.policy}
              /\ q.auth \in DOMAIN T
              /\ x.defaultAction = T[q.auth].defaultAction
              /\ ServesHost(x.policy, q.host)
<1> DEFINE token == ExtractToken(q.auth)
           i     == GetPolicyData(T, token, q.host)
           ps    == T[q.auth].policies
<1>1. IsTable(T) /\ DOMAIN T \subseteq Token /\ NoToken \notin Token
  BY ProxyAssumption, PolicyAssumption DEF IsTable
<1>2. q.auth \in DOMAIN T <=> token \in DOMAIN T
  BY <1>1 DEF ExtractToken
<1>3. q.auth \in DOMAIN T => token = q.auth
  BY <1>1 DEF ExtractToken
<1>4. CASE q.auth \notin DOMAIN T
  <2>1. i = 0
    BY <1>2, <1>4 DEF GetPolicyData
  <2>2. Governing(T, q) = {}
    BY <1>4 DEF Governing, PoliciesFor
  <2> QED
    BY <2>1, <2>2 DEF RequestContext
<1>5. CASE q.auth \in DOMAIN T /\ i = 0
  <2>1. \A j \in 1..Len(ps) : ~ServesHost(ps[j], q.host)
    BY <1>1, <1>3, <1>5, GetPolicyDataIsFirst
  <2>2. Governing(T, q) = {}
    BY <1>5, <2>1 DEF Governing, PoliciesFor
  <2> QED
    BY <1>5, <2>2 DEF RequestContext
<1>6. CASE q.auth \in DOMAIN T /\ i # 0
  <2>1. /\ i \in 1..Len(ps)
        /\ ServesHost(ps[i], q.host)
        /\ \A j \in 1..(i - 1) : ~ServesHost(ps[j], q.host)
    BY <1>1, <1>3, <1>6, GetPolicyDataIsFirst
  <2>2. T[q.auth] \in PolicyGroup /\ ps \in Seq(UpstreamPolicy)
    BY <1>1, <1>6 DEF IsTable, PolicyGroup
  <2>3. x = [valid |-> TRUE, policy |-> ps[i],
             defaultAction |-> T[q.auth].defaultAction]
    BY <1>3, <1>6 DEF RequestContext
  <2>4. Governing(T, q) = {ps[i]}
    <3>1. ASSUME NEW k \in 1..Len(ps), ServesHost(ps[k], q.host),
                 \A j \in 1..(k - 1) : ~ServesHost(ps[j], q.host)
          PROVE  k = i
      BY <2>1, <2>2, <3>1
    <3> QED
      BY <1>6, <2>1, <3>1 DEF Governing, PoliciesFor
  <2> QED
    <3>1. ps[i] \in UpstreamPolicy
      BY <2>1, <2>2
    <3>2. T[q.auth].defaultAction \in ActionText
      BY <2>2 DEF PolicyGroup
    <3> QED
      BY <1>6, <2>1, <2>3, <2>4, <3>1, <3>2
<1> QED
  BY <1>4, <1>5, <1>6

\* A context has its type.
LEMMA RequestContextType ==
    ASSUME NEW T \in Tables, NEW q \in Requests
    PROVE  RequestContext(T, q) \in Context
<1> DEFINE x == RequestContext(T, q)
<1>1. CASE x = InvalidContext
  BY <1>1 DEF Context
<1>2. CASE x # InvalidContext
  <2>1. x = [valid |-> TRUE, policy |-> x.policy,
             defaultAction |-> x.defaultAction]
    BY <1>2 DEF RequestContext
  <2>2. x.policy \in UpstreamPolicy /\ x.defaultAction \in ActionText
    BY <1>2, RequestContextGoverns
  <2>3. \A p \in UpstreamPolicy, d \in ActionText :
          [valid |-> TRUE, policy |-> p, defaultAction |-> d] \in Context
    BY DEF Context
  <2> QED
    BY <2>1, <2>2, <2>3
<1> QED
  BY <1>1, <1>2

\* The request that setUpstreamAuth makes has its type.
LEMMA SetUpstreamAuthType ==
    ASSUME NEW T \in Tables, NEW q \in Requests, FindHost(Entries, q.host) # 0
    PROVE  SetUpstreamAuth(q, RequestContext(T, q)) \in Outgoing
<1> DEFINE x == RequestContext(T, q)
           o == SetUpstreamAuth(q, x)
<1>1. UpstreamToken(x) \in Cred \union {NoCred}
  <2>1. \A p \in UpstreamPolicy : p.cred \in Cred \union {NoCred}
    BY DEF UpstreamPolicy
  <2>2. x = InvalidContext \/ x.policy \in UpstreamPolicy
    BY RequestContextGoverns
  <2>3. InvalidContext.valid = FALSE
    BY DEF InvalidContext
  <2>4. CASE x = InvalidContext
    BY <2>3, <2>4 DEF UpstreamToken
  <2>5. CASE x.policy \in UpstreamPolicy
    BY <2>1, <2>5 DEF UpstreamToken
  <2> QED
    BY <2>2, <2>4, <2>5
<1>2. Entries[FindHost(Entries, q.host)].scheme \in Scheme
  <2>1. Entries[FindHost(Entries, q.host)] \in HostEntry
    BY FindHostIsEntry, ProxyAssumption
  <2> QED
    BY <2>1 DEF HostEntry
<1>3. q.host \in HostText
  BY ProxyAssumption DEF Incoming
<1>4. (UpstreamToken(x) = NoCred /\ q.auth # NoAuth) \in BOOLEAN
  OBVIOUS
<1> QED
  BY <1>1, <1>2, <1>3, <1>4 DEF SetUpstreamAuth, Outgoing

-----------------------------------------------------------------------------
(* The responses have their type.                                          *)

\* The error, the unfiltered and the filtered response are responses
\* (replaceWithError, readAndReplaceBody).
LEMMA ResponseType ==
    ASSUME NEW r \in Replies
    PROVE  /\ ErrorResponse("403", r) \in Response
           /\ ErrorResponse("500", r) \in Response
           /\ UpstreamResponse("raw", r) \in Response
           /\ UpstreamResponse("filtered", r) \in Response
           /\ FilterBody(r) \in Response
<1>1. r.encoded \in BOOLEAN
  BY ProxyAssumption DEF Reply
<1>2. ErrorResponse("403", r) \in Response
  BY <1>1 DEF ErrorResponse, Response
<1>3. ErrorResponse("500", r) \in Response
  BY <1>1 DEF ErrorResponse, Response
<1>4. UpstreamResponse("raw", r) \in Response
  BY <1>1 DEF UpstreamResponse, Response
<1>5. UpstreamResponse("filtered", r) \in Response
  BY <1>1 DEF UpstreamResponse, Response
<1> QED
  BY <1>2, <1>3, <1>4, <1>5 DEF FilterBody

-----------------------------------------------------------------------------
(* Every step keeps the types.                                             *)

\* The proxy starts with every variable in its type.
LEMMA TypeInit == Init => TypeOK
<1> SUFFICES ASSUME Init PROVE TypeOK
  OBVIOUS
<1>1. InvalidContext \in Context
  BY DEF Context
<1> QED
  BY <1>1 DEF Init, TypeOK, Phase

\* No step of a handler, an upstream, a client or the api leaves the types.
LEMMA TypeNext == IInv /\ [Next]_vars => TypeOK'
<1> SUFFICES ASSUME IInv, [Next]_vars PROVE TypeOK'
  OBVIOUS
<1> USE DEF Phase
<1>1. TypeOK
  BY DEF IInv
<1>2. \A c \in Conn : pc[c] # "idle" => in[c] \in Requests
  BY <1>1 DEF IInv, TypeOK, ConnInv, ProgressInv
<1>3. \A c \in Conn : pc[c] = "answered" => reply[c] \in Replies
  BY <1>1 DEF IInv, TypeOK, ConnInv, ProgressInv
<1>4. InvalidContext \in Context
  BY DEF Context
<1>5. ASSUME NEW c \in Conn, Arrive(c) PROVE TypeOK'
  BY <1>1, <1>4, <1>5 DEF Arrive, TypeOK
<1>6. ASSUME NEW c \in Conn, RejectHost(c) PROVE TypeOK'
  <2>1. [status |-> "403", body |-> "error", encoded |-> FALSE] \in Response
    BY DEF Response
  <2> QED
    BY <1>1, <1>6, <2>1 DEF RejectHost, TypeOK
<1>7. ASSUME NEW c \in Conn, InterceptRequest(c) PROVE TypeOK'
  <2>1. RequestContext(table, in[c]) \in Context
    BY <1>1, <1>2, <1>7, RequestContextType DEF InterceptRequest, TypeOK
  <2> QED
    BY <1>1, <1>7, <2>1 DEF InterceptRequest, TypeOK
<1>8. ASSUME NEW c \in Conn, Forward(c) PROVE TypeOK'
  <2>1. /\ in[c] \in Requests
        /\ tableAt[c] \in Tables
        /\ FindHost(Entries, in[c].host) # 0
        /\ ctx[c] = RequestContext(tableAt[c], in[c])
    BY <1>1, <1>2, <1>8 DEF Forward, IInv, ConnInv, ContextInv, TypeOK
  <2>2. SetUpstreamAuth(in[c], ctx[c]) \in Outgoing
    BY <2>1, SetUpstreamAuthType
  <2> QED
    BY <1>1, <1>8, <2>2 DEF Forward, TypeOK
<1>9. ASSUME NEW c \in Conn, UpstreamAnswer(c) PROVE TypeOK'
  BY <1>1, <1>9 DEF UpstreamAnswer, TypeOK
<1>10. ASSUME NEW c \in Conn, TransportError(c) PROVE TypeOK'
  <2>1. [status |-> "502", body |-> "empty", encoded |-> FALSE] \in Response
    BY DEF Response
  <2> QED
    BY <1>1, <1>10, <2>1 DEF TransportError, TypeOK
<1>11. ASSUME NEW c \in Conn, InterceptResponse(c) PROVE TypeOK'
  <2>1. PICK answer \in Response : Respond(c, answer)
    <3>1. reply[c] \in Replies
      BY <1>3, <1>11 DEF InterceptResponse, DenyInvalidToken, DenyByPolicy,
                         PassThrough, RejectNonJson, FilterResponse
    <3> QED
      BY <1>11, <3>1, ResponseType
      DEF InterceptResponse, DenyInvalidToken, DenyByPolicy, PassThrough,
          RejectNonJson, FilterResponse
  <2> QED
    BY <1>1, <2>1 DEF Respond, TypeOK
<1>12. ASSUME ChangePolicies PROVE TypeOK'
  BY <1>1, <1>12 DEF ChangePolicies, TypeOK
<1>13. ASSUME UNCHANGED vars PROVE TypeOK'
  BY <1>1, <1>13 DEF vars, TypeOK
<1> QED
  BY <1>5, <1>6, <1>7, <1>8, <1>9, <1>10, <1>11, <1>12, <1>13 DEF Next, Handler

-----------------------------------------------------------------------------
(* Every step keeps the invariant of every connection.                     *)

\* A step that leaves a connection alone keeps its invariant.
LEMMA ConnFrame ==
    ASSUME NEW d \in Conn, ConnInv(d),
           pc'[d] = pc[d], in'[d] = in[d], ctx'[d] = ctx[d], out'[d] = out[d],
           reply'[d] = reply[d], resp'[d] = resp[d], tableAt'[d] = tableAt[d]
    PROVE  ConnInv(d)'
BY DEF ConnInv, ProgressInv, ContextInv, OutInv, ReplyInv

\* A connection without a request satisfies its invariant.
LEMMA ConnInit == Init => \A c \in Conn : ConnInv(c)
BY DEF Init, ConnInv, ProgressInv, ContextInv, OutInv, ReplyInv

\* What every branch of InterceptResponse does.
LEMMA RespondIsDecided ==
    ASSUME NEW c \in Conn, InterceptResponse(c), reply[c] \in Replies
    PROVE  /\ pc[c] = "answered"
           /\ \E answer \in Response :
                /\ Respond(c, answer)
                /\ Decided(ctx[c], in[c], reply[c], answer)
BY ResponseType
DEF InterceptResponse, DenyInvalidToken, DenyByPolicy, PassThrough,
    RejectNonJson, FilterResponse, Decided

\* Every step keeps every connection's invariant: its own steps in the order
\* ServeHTTP takes them, and the others, ChangePolicies among them, by ConnFrame.
LEMMA ConnNext ==
    IInv /\ [Next]_vars => \A d \in Conn : ConnInv(d)'
<1> SUFFICES ASSUME IInv, [Next]_vars, NEW d \in Conn
             PROVE  ConnInv(d)'
  OBVIOUS
<1>1. TypeOK /\ ConnInv(d)
  BY DEF IInv
<1>2. /\ \A q \in Requests : q # Nothing
      /\ \A o \in Outgoing : o # Nothing
      /\ \A r \in Replies : r # Nothing
      /\ \A a \in Response : a # Nothing
  BY ProxyAssumption
<1>3. ASSUME NEW c \in Conn, c # d,
             Arrive(c) \/ Handler(c) \/ UpstreamAnswer(c) \/ TransportError(c)
      PROVE  ConnInv(d)'
  <2>1. /\ pc'[d] = pc[d] /\ in'[d] = in[d] /\ ctx'[d] = ctx[d]
        /\ out'[d] = out[d] /\ reply'[d] = reply[d] /\ resp'[d] = resp[d]
        /\ tableAt'[d] = tableAt[d]
    <3>1. CASE Arrive(c)
      BY <1>1, <1>3, <3>1 DEF Arrive, TypeOK
    <3>2. CASE RejectHost(c)
      BY <1>1, <1>3, <3>2 DEF RejectHost, TypeOK
    <3>3. CASE InterceptRequest(c)
      BY <1>1, <1>3, <3>3 DEF InterceptRequest, TypeOK
    <3>4. CASE Forward(c)
      BY <1>1, <1>3, <3>4 DEF Forward, TypeOK
    <3>5. CASE InterceptResponse(c)
      BY <1>1, <1>3, <3>5 DEF InterceptResponse, DenyInvalidToken, DenyByPolicy,
         PassThrough, RejectNonJson, FilterResponse, Respond, TypeOK
    <3>6. CASE UpstreamAnswer(c)
      BY <1>1, <1>3, <3>6 DEF UpstreamAnswer, TypeOK
    <3>7. CASE TransportError(c)
      BY <1>1, <1>3, <3>7 DEF TransportError, TypeOK
    <3> QED
      BY <1>3, <3>1, <3>2, <3>3, <3>4, <3>5, <3>6, <3>7 DEF Handler
  <2> QED
    BY <1>1, <2>1, ConnFrame
<1>4. CASE Arrive(d)
  BY <1>1, <1>2, <1>4
  DEF Arrive, TypeOK, ConnInv, ProgressInv, ContextInv, OutInv, ReplyInv
<1>5. CASE RejectHost(d)
  <2> DEFINE answer == [status |-> "403", body |-> "error", encoded |-> FALSE]
  <2>1. answer \in Response /\ answer.body = "error"
    BY DEF Response
  <2> HIDE DEF answer
  <2>2. resp' = [resp EXCEPT ![d] = answer]
    BY <1>5 DEF RejectHost, answer
  <2> QED
    BY <1>1, <1>2, <1>5, <2>1, <2>2
    DEF RejectHost, TypeOK, ConnInv, ProgressInv, ContextInv, OutInv, ReplyInv
<1>6. CASE InterceptRequest(d)
  BY <1>1, <1>2, <1>6
  DEF InterceptRequest, TypeOK, ConnInv, ProgressInv, ContextInv, OutInv, ReplyInv
<1>7. CASE Forward(d)
  <2>1. /\ in[d] \in Requests
        /\ tableAt[d] \in Tables
        /\ FindHost(Entries, in[d].host) # 0
        /\ ctx[d] = RequestContext(tableAt[d], in[d])
    BY <1>1, <1>7 DEF Forward, ConnInv, ProgressInv, ContextInv, TypeOK
  <2>2. SetUpstreamAuth(in[d], ctx[d]) # Nothing
    BY <1>2, <2>1, SetUpstreamAuthType
  <2> QED
    BY <1>1, <1>7, <2>1, <2>2
    DEF Forward, TypeOK, ConnInv, ProgressInv, ContextInv, OutInv, ReplyInv
<1>8. CASE UpstreamAnswer(d)
  BY <1>1, <1>2, <1>8
  DEF UpstreamAnswer, TypeOK, ConnInv, ProgressInv, ContextInv, OutInv, ReplyInv
<1>9. CASE TransportError(d)
  <2> DEFINE answer == [status |-> "502", body |-> "empty", encoded |-> FALSE]
  <2>1. answer \in Response /\ answer.body = "empty"
    BY DEF Response
  <2> HIDE DEF answer
  <2>2. resp' = [resp EXCEPT ![d] = answer]
    BY <1>9 DEF TransportError, answer
  <2> QED
    BY <1>1, <1>2, <1>9, <2>1, <2>2
    DEF TransportError, TypeOK, ConnInv, ProgressInv, ContextInv, OutInv, ReplyInv
<1>10. CASE InterceptResponse(d)
  <2>1. pc[d] = "answered" /\ reply[d] \in Replies /\ reply[d] # Nothing
    BY <1>1, <1>10
    DEF TypeOK, ConnInv, ProgressInv, InterceptResponse, DenyInvalidToken,
        DenyByPolicy, PassThrough, RejectNonJson, FilterResponse
  <2>2. PICK answer \in Response :
            Respond(d, answer) /\ Decided(ctx[d], in[d], reply[d], answer)
    BY <1>10, <2>1, RespondIsDecided
  <2>3. /\ resp'[d] = answer /\ pc'[d] = "done"
        /\ in'[d] = in[d] /\ ctx'[d] = ctx[d] /\ out'[d] = out[d]
        /\ reply'[d] = reply[d] /\ tableAt'[d] = tableAt[d]
    BY <1>1, <2>2 DEF Respond, TypeOK
  <2>4. ReplyInv(d)'
    BY <2>1, <2>2, <2>3 DEF ReplyInv
  <2>5. ProgressInv(d)' /\ ContextInv(d)' /\ OutInv(d)'
    BY <1>1, <1>2, <2>1, <2>3 DEF ConnInv, ProgressInv, ContextInv, OutInv
  <2> QED
    BY <2>4, <2>5 DEF ConnInv
<1>11. CASE ChangePolicies \/ UNCHANGED vars
  BY <1>1, <1>11, ConnFrame DEF ChangePolicies, vars
<1> QED
  BY <1>3, <1>4, <1>5, <1>6, <1>7, <1>8, <1>9, <1>10, <1>11 DEF Next, Handler

\* The invariant holds in every state the proxy reaches.
LEMMA Invariance == Spec => []IInv
<1>1. Init => IInv
  BY TypeInit, ConnInit DEF IInv
<1>2. IInv /\ [Next]_vars => IInv'
  BY TypeNext, ConnNext DEF IInv
<1> QED
  BY <1>1, <1>2, PTL DEF Spec

-----------------------------------------------------------------------------
(* The decision of InterceptResponse is the one the policy states.         *)

\* What the policy in a context entitles a request to, InterceptResponse does
\* not refuse; and what it does not refuse, the policy entitles the request to
\* when the deciding word is one that an action may be.
LEMMA DecisionEntitles ==
    ASSUME NEW T \in Tables, NEW q \in Requests,
           NEW x, x = RequestContext(T, q), x # InvalidContext
    PROVE  /\ Entitles(T, q, x.policy, "raw") =>
                  (Action(x, q) # "deny" /\ ~Filters(x, q))
           /\ Entitles(T, q, x.policy, "filtered") =>
                  (Action(x, q) # "deny" /\ Filters(x, q))
           /\ (ActionIsKnown(T, q, x.policy) /\ Action(x, q) # "deny") =>
                  Entitles(T, q, x.policy, IF Filters(x, q) THEN "filtered" ELSE "raw")
<1> DEFINE rules == x.policy.rules
           i     == RuleOf(x, q)
<1>1. x.policy \in UpstreamPolicy /\ x.defaultAction = T[q.auth].defaultAction
  BY RequestContextGoverns
<1>2. rules \in Seq(PolicyRule)
  BY <1>1 DEF UpstreamPolicy
<1>3. CASE i = 0
  <2>1. Unmatched(x.policy, q)
    BY <1>2, <1>3, FindMatchingRuleIsFirst DEF RuleOf, Unmatched
  <2>2. ~Filters(x, q) /\ Action(x, q) = DefaultAction(x.defaultAction)
    BY <1>3 DEF Filters, Action
  <2>3. \A j \in 1..Len(rules) : ~Decides(x.policy, q, j)
    BY <2>1 DEF Unmatched, Decides
  <2>4. AllowedByDefault(T, q, x.policy) <=> Action(x, q) = "allow"
    BY <1>1, <2>1, <2>2, PolicyAssumption DEF AllowedByDefault, DefaultAction
  <2>5. ActionIsKnown(T, q, x.policy) => Action(x, q) \in {"allow", "deny"}
    BY <1>1, <2>1, <2>2 DEF ActionIsKnown, DefaultAction
  <2> QED
    BY <2>2, <2>3, <2>4, <2>5 DEF Entitles, AllowedByRule
<1>4. CASE i # 0
  <2>1. /\ i \in 1..Len(rules)
        /\ q.endpoint \in rules[i].matches
        /\ \A j \in 1..(i - 1) : q.endpoint \notin rules[j].matches
    BY <1>2, <1>4, FindMatchingRuleIsFirst DEF RuleOf
  <2>2. Decides(x.policy, q, i) /\ ~Unmatched(x.policy, q)
    BY <2>1 DEF Decides, Unmatched
  <2>3. ASSUME NEW j \in 1..Len(rules), Decides(x.policy, q, j)
        PROVE  j = i
    BY <1>2, <2>1, <2>3 DEF Decides
  <2>4. Action(x, q) = rules[i].action /\ (Filters(x, q) <=> rules[i].filter)
    BY <1>4 DEF Action, Filters
  <2>5. ~AllowedByDefault(T, q, x.policy)
    BY <2>2 DEF AllowedByDefault
  <2>6. AllowedByRule(x.policy, q, i) <=> Action(x, q) = "allow"
    BY <2>2, <2>4 DEF AllowedByRule
  <2>7. \A j \in 1..Len(rules) : AllowedByRule(x.policy, q, j) => j = i
    BY <2>3 DEF AllowedByRule
  <2>8. ActionIsKnown(T, q, x.policy) => Action(x, q) \in {"allow", "deny"}
    BY <2>1, <2>2, <2>4 DEF ActionIsKnown
  <2> QED
    BY <2>1, <2>4, <2>5, <2>6, <2>7, <2>8 DEF Entitles
<1> QED
  BY <1>3, <1>4

-----------------------------------------------------------------------------
(* The properties.                                                         *)

\* Every variable keeps its type.
THEOREM TypeCorrect == Spec => []TypeOK
<1>1. IInv => TypeOK
  BY DEF IInv
<1> QED
  BY <1>1, Invariance, PTL

\* The facts that the property theorems start from.
LEMMA LookedUp ==
    ASSUME IInv, NEW c \in Conn, out[c] # Nothing
    PROVE  /\ in[c] \in Requests
           /\ tableAt[c] \in Tables
           /\ ctx[c] = RequestContext(tableAt[c], in[c])
           /\ out[c] = SetUpstreamAuth(in[c], ctx[c])
<1>1. pc[c] # "idle"
  BY DEF IInv, ConnInv, ProgressInv
<1> QED
  BY <1>1 DEF IInv, TypeOK, ConnInv, ProgressInv, ContextInv, OutInv

\* A credential travels only for its own policy, with whose rules the
\* response is decided: the context that setUpstreamAuth and InterceptResponse
\* read is one and the same lookup in one table.
THEOREM CredentialsConfined == Spec => []CredentialConfined
<1>1. IInv => CredentialConfined
  <2> SUFFICES ASSUME IInv, NEW c \in Conn, out[c] # Nothing,
                      NEW k \in {out[c].bearer, out[c].custom} \ {NoCred}
               PROVE  \E p \in Governing(tableAt[c], in[c]) :
                         /\ p.cred = k
                         /\ Canonical[p.host] = Canonical[out[c].host]
                         /\ ctx[c].policy = p
    BY DEF CredentialConfined
  <2>1. /\ in[c] \in Requests /\ tableAt[c] \in Tables
        /\ ctx[c] = RequestContext(tableAt[c], in[c])
        /\ out[c] = SetUpstreamAuth(in[c], ctx[c])
    BY LookedUp
  <2>2. UpstreamToken(ctx[c]) = k /\ out[c].host = in[c].host
    BY <2>1 DEF SetUpstreamAuth
  <2>3. InvalidContext.valid = FALSE
    BY DEF InvalidContext
  <2>4. ctx[c] # InvalidContext
    BY <2>2, <2>3 DEF UpstreamToken
  <2>5. /\ ctx[c].valid = TRUE
        /\ Governing(tableAt[c], in[c]) = {ctx[c].policy}
        /\ ServesHost(ctx[c].policy, in[c].host)
    BY <2>1, <2>4, RequestContextGoverns
  <2>6. ctx[c].policy.cred = k
    BY <2>2, <2>5 DEF UpstreamToken
  <2> QED
    BY <2>2, <2>5, <2>6 DEF ServesHost
<1> QED
  BY <1>1, Invariance, PTL

\* When the policy has a credential, it replaces the client's Authorization.
THEOREM AgentTokensReplaced == Spec => []AgentTokenReplaced
<1>1. IInv => AgentTokenReplaced
  <2> SUFFICES ASSUME IInv, NEW c \in Conn, out[c] # Nothing,
                      NEW p \in Governing(tableAt[c], in[c]), p.cred # NoCred
               PROVE  /\ ~out[c].agentAuth
                      /\ IF p.custom /\ p.header
                         THEN out[c].custom = p.cred /\ out[c].bearer = NoCred
                         ELSE out[c].bearer = p.cred /\ out[c].custom = NoCred
    BY DEF AgentTokenReplaced
  <2>1. /\ in[c] \in Requests /\ tableAt[c] \in Tables
        /\ ctx[c] = RequestContext(tableAt[c], in[c])
        /\ out[c] = SetUpstreamAuth(in[c], ctx[c])
    BY LookedUp
  <2>2. ctx[c].valid = TRUE /\ ctx[c].policy = p
    <3>1. \/ Governing(tableAt[c], in[c]) = {}
          \/ /\ ctx[c].valid = TRUE
             /\ Governing(tableAt[c], in[c]) = {ctx[c].policy}
      BY <2>1, RequestContextGoverns
    <3> QED
      BY <3>1
  <2>3. UpstreamToken(ctx[c]) = p.cred
    BY <2>2 DEF UpstreamToken
  <2>4. out[c].agentAuth = (UpstreamToken(ctx[c]) = NoCred /\ in[c].auth # NoAuth)
    BY <2>1 DEF SetUpstreamAuth
  <2>5. ~out[c].agentAuth
    BY <2>3, <2>4
  <2>6. IF p.custom /\ p.header
        THEN out[c].custom = p.cred /\ out[c].bearer = NoCred
        ELSE out[c].bearer = p.cred /\ out[c].custom = NoCred
    BY <2>1, <2>2, <2>3 DEF SetUpstreamAuth
  <2> QED
    BY <2>5, <2>6
<1> QED
  BY <1>1, Invariance, PTL

\* The client gets of an upstream's body only what the policy entitles it to,
\* whenever the word that decides is a known action.
THEOREM NothingBeyondPolicy == Spec => []OnlyWhatPolicyAllows
<1>1. IInv => OnlyWhatPolicyAllows
  <2> SUFFICES ASSUME IInv, NEW c \in Conn, pc[c] = "done",
                      resp[c].body \in {"raw", "filtered"}
               PROVE  \E p \in Governing(tableAt[c], in[c]) :
                         ActionIsKnown(tableAt[c], in[c], p)
                             => Entitles(tableAt[c], in[c], p, resp[c].body)
    BY DEF OnlyWhatPolicyAllows
  <2> DEFINE x == ctx[c]
             r == reply[c]
  <2>1. r # Nothing /\ Decided(x, in[c], r, resp[c])
    BY DEF IInv, ConnInv, ReplyInv
  <2>2. out[c] # Nothing
    BY <2>1 DEF IInv, ConnInv, ProgressInv
  <2>3. /\ in[c] \in Requests /\ tableAt[c] \in Tables
        /\ x = RequestContext(tableAt[c], in[c])
    BY <2>2, LookedUp
  <2>4. /\ ErrorResponse("403", r).body = "error"
        /\ ErrorResponse("500", r).body = "error"
        /\ UpstreamResponse("raw", r).body = "raw"
        /\ UpstreamResponse("filtered", r).body = "filtered"
    BY DEF ErrorResponse, UpstreamResponse
  <2>5. FilterBody(r).body \in {"filtered", "error"}
    BY <2>4 DEF FilterBody
  <2>6. /\ x.valid /\ Action(x, in[c]) # "deny"
        /\ resp[c].body = IF Filters(x, in[c]) THEN "filtered" ELSE "raw"
    BY <2>1, <2>4, <2>5 DEF Decided
  <2>7. x # InvalidContext /\ Governing(tableAt[c], in[c]) = {x.policy}
    <3>1. InvalidContext.valid = FALSE
      BY DEF InvalidContext
    <3> QED
      BY <2>3, <2>6, <3>1, RequestContextGoverns
  <2> QED
    BY <2>3, <2>6, <2>7, DecisionEntitles
<1> QED
  BY <1>1, Invariance, PTL

\* A client whose policy allows the request gets the upstream's answer.
THEOREM AllowedAreServed == Spec => []AllowedIsServed
<1>1. IInv => AllowedIsServed
  <2> SUFFICES ASSUME IInv, NEW c \in Conn, pc[c] = "done", reply[c] # Nothing,
                      NEW p \in Governing(tableAt[c], in[c]),
                      NEW body \in {"raw", "filtered"},
                      Entitles(tableAt[c], in[c], p, body),
                      \/ body = "raw"
                      \/ /\ reply[c].json /\ ~reply[c].encoded
                         /\ reply[c].payload = "json"
               PROVE  resp[c].status = "upstream" /\ resp[c].body = body
    BY DEF AllowedIsServed
  <2> DEFINE x == ctx[c]
             r == reply[c]
  <2>1. out[c] # Nothing /\ Decided(x, in[c], r, resp[c])
    BY DEF IInv, ConnInv, ProgressInv, ReplyInv
  <2>2. /\ in[c] \in Requests /\ tableAt[c] \in Tables
        /\ x = RequestContext(tableAt[c], in[c])
    BY <2>1, LookedUp
  <2>3. x # InvalidContext /\ x.valid = TRUE /\ x.policy = p
    <3>1. InvalidContext.valid = FALSE
      BY DEF InvalidContext
    <3>2. \/ Governing(tableAt[c], in[c]) = {}
          \/ /\ x.valid = TRUE
             /\ Governing(tableAt[c], in[c]) = {x.policy}
      BY <2>2, RequestContextGoverns
    <3> QED
      BY <3>1, <3>2
  <2>4. \A b \in {"raw", "filtered"} :
          /\ UpstreamResponse(b, r).status = "upstream"
          /\ UpstreamResponse(b, r).body = b
    BY DEF UpstreamResponse
  <2>5. Action(x, in[c]) # "deny" /\ (Filters(x, in[c]) <=> body = "filtered")
    BY <2>2, <2>3, DecisionEntitles
  <2>6. CASE body = "raw"
    BY <2>1, <2>3, <2>4, <2>5, <2>6 DEF Decided
  <2>7. CASE body = "filtered"
    BY <2>1, <2>3, <2>4, <2>5, <2>7 DEF Decided, FilterBody
  <2> QED
    BY <2>6, <2>7
<1> QED
  BY <1>1, Invariance, PTL
=============================================================================
