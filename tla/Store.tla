------------------------------- MODULE Store --------------------------------
(***************************************************************************)
(* The database: the tables as the migrations (infra/migrations) make them *)
(* and the statements of internal/db/*.sql.go change them.  A migration    *)
(* and its rollback are one transaction each; a statement that the schema  *)
(* of the moment or a constraint refuses changes nothing, so it is no      *)
(* step.  Ids are never used twice.  The names of rows (UNIQUE per user,   *)
(* or per policy), timestamps and the columns that no query tests are left *)
(* out.                                                                    *)
(***************************************************************************)
EXTENDS Naturals, Functions

CONSTANTS
    User, Cred, Policy, Token,      \* the ids of the rows of the four tables
    Text,                           \* upstream tokens and hashes
    Null

ASSUME StoreAssumption == Null \notin Cred \union Text

VARIABLES
    version,        \* how many migrations are recorded as applied
    objects,        \* the tables, columns and indexes there are
    users,          \* the ids that have a row
    creds,          \* creds[c], for the ids c that have a row
    policies,
    tokens

vars == <<version, objects, users, creds, policies, tokens>>
schema == <<version, objects>>

Expiry == {"never", "later", "past"}
CredRow == [user : User, token : Text, expires : Expiry]
PolicyRow == [user : User, cred : Cred \union {Null}, token : Text \union {Null},
              active : BOOLEAN]
TokenRow == [policy : Policy, hash : Text, revoked : BOOLEAN, expires : Expiry]

Empty == <<>>
Insert(table, id, row) == [i \in DOMAIN table \union {id} |-> IF i = id THEN row ELSE table[i]]
Without(table, id) == Restrict(table, DOMAIN table \ {id})

Init ==
    /\ version = 0 /\ objects = {}
    /\ users = {}
    /\ creds = Empty /\ policies = Empty /\ tokens = Empty

-----------------------------------------------------------------------------
(* The schema *)

Schema == <<{"users", "policies", "policies.token", "one_active"},
            {"users", "policies", "policies.token", "one_active", "creds", "tokens"},
            {"users", "policies", "policies.cred", "one_active", "creds", "tokens"},
            {"users", "policies", "policies.cred", "creds", "tokens"},
            {"users", "policies", "policies.cred", "creds", "tokens", "creds.header"}>>

\* What migration n creates and drops, and what has to be there for it.
Creates(n) == Schema[n] \ IF n = 1 THEN {} ELSE Schema[n - 1]
Drops(n) == IF n = 1 THEN {} ELSE Schema[n - 1] \ Schema[n]
Refers(n) == CASE n = 3 -> {"policies.token", "creds", "tokens"}
               [] n = 5 -> {"creds"}
               [] OTHER -> {}

Applies(n) ==
    /\ version = n - 1
    /\ Refers(n) \subseteq objects
    /\ version' = n
    /\ objects' = (objects \union Creates(n)) \ Drops(n)

\* initial_schema, add_credential_tables, drop_user_active_constraint,
\* add_header_string: rows stay as they are.
MigrateSchema(n) ==
    /\ Applies(n)
    /\ UNCHANGED <<users, creds, policies, tokens>>

\* A credential (made[p]) and a token row (issued[p]) for each policy, both with
\* the policy's token, beside the rows that there are.
MigratesRows(made, issued) ==
    /\ creds' = [c \in DOMAIN creds \union Range(made) |->
          IF c \in DOMAIN creds THEN creds[c] ELSE
              LET p == CHOOSE q \in DOMAIN policies : made[q] = c
              IN [user |-> policies[p].user, token |-> policies[p].token, expires |-> "never"]]
    /\ tokens' = [t \in DOMAIN tokens \union Range(issued) |->
          IF t \in DOMAIN tokens THEN tokens[t] ELSE
              LET p == CHOOSE q \in DOMAIN policies : issued[q] = t
              IN [policy |-> p, hash |-> policies[p].token, revoked |-> FALSE,
                  expires |-> "never"]]

\* Each policy refers to the credential cred[p], and loses its token.
RefersTo(cred) ==
    policies' = [p \in DOMAIN policies |-> [policies[p] EXCEPT !.cred = cred[p], !.token = Null]]

\* Faulty variant of MigratePolicies: the join leaves out the name.
MigrateByUser ==
    /\ Applies(3)
    /\ \E made \in Injection(DOMAIN policies, Cred \ DOMAIN creds),
          issued \in Injection(DOMAIN policies, Token \ DOMAIN tokens) :
        /\ MigratesRows(made, issued)
        /\ \E cred \in [DOMAIN policies -> DOMAIN creds'] :
            /\ \A p \in DOMAIN policies : creds'[cred[p]].user = policies[p].user
            /\ RefersTo(cred)
    /\ UNCHANGED users

\* migrate_policies_to_credentials: the join of the UPDATE, by user and by a
\* name that holds the policy's id, finds the credential just made for it.
MigratePolicies ==
    /\ Applies(3)
    /\ \E made \in Injection(DOMAIN policies, Cred \ DOMAIN creds),
          issued \in Injection(DOMAIN policies, Token \ DOMAIN tokens) :
        MigratesRows(made, issued) /\ RefersTo(made)
    /\ UNCHANGED users

RollsBack(n) ==
    /\ version = n
    /\ version' = n - 1

\* DROP ... IF EXISTS.
RollbackInitial ==
    /\ RollsBack(1)
    /\ objects' = objects \ {"users", "policies", "policies.token", "one_active"}
    /\ users' = {} /\ policies' = Empty
    /\ UNCHANGED <<creds, tokens>>

\* DROP TABLE, of tables that have to be there.
RollbackTables ==
    /\ RollsBack(2)
    /\ {"creds", "tokens"} \subseteq objects
    /\ objects' = objects \ {"creds", "tokens"}
    /\ creds' = Empty /\ tokens' = Empty
    /\ UNCHANGED <<users, policies>>

\* Policies get the token of their credential; the tables of the migration
\* before go too.
RollbackPolicies ==
    /\ RollsBack(3)
    /\ objects' = (objects \union {"policies.token"}) \ {"policies.cred", "creds", "tokens"}
    /\ policies' = [p \in DOMAIN policies |->
                       [policies[p] EXCEPT !.token = creds[policies[p].cred].token, !.cred = Null]]
    /\ creds' = Empty /\ tokens' = Empty
    /\ UNCHANGED users

\* CREATE UNIQUE INDEX fails when a user has several active policies.
RollbackConstraint ==
    /\ RollsBack(4)
    /\ \A p, q \in DOMAIN policies :
          policies[p].active /\ policies[q].active /\ p # q => policies[p].user # policies[q].user
    /\ objects' = objects \union {"one_active"}
    /\ UNCHANGED <<users, creds, policies, tokens>>

RollbackHeader ==
    /\ RollsBack(5)
    /\ objects' = objects \ {"creds.header"}
    /\ UNCHANGED <<users, creds, policies, tokens>>

Migrate == (\E n \in {1, 2, 4, 5} : MigrateSchema(n)) \/ MigratePolicies
Rollback ==
    RollbackInitial \/ RollbackTables \/ RollbackPolicies \/ RollbackConstraint \/ RollbackHeader

-----------------------------------------------------------------------------
(* The statements, each for the schema it was written for *)

CreateUser(u) ==
    /\ "users" \in objects
    /\ u \notin users
    /\ users' = users \union {u}
    /\ UNCHANGED <<schema, creds, policies, tokens>>

\* The unique index, while there is one.
MayBeActive(p, u) ==
    "one_active" \in objects =>
        \A q \in DOMAIN policies \ {p} : policies[q].user = u => ~policies[q].active

\* The program of the schema of 2026-03-15 stores policies with their token.
CreatePolicyWithToken(p, u, x, active) ==
    /\ "policies.token" \in objects
    /\ p \notin DOMAIN policies /\ u \in users
    /\ active => MayBeActive(p, u)
    /\ policies' = Insert(policies, p, [user |-> u, cred |-> Null, token |-> x, active |-> active])
    /\ UNCHANGED <<schema, users, creds, tokens>>

\* The credential's user need not be the policy's.
CreatePolicy(p, u, c, active) ==
    /\ "policies.cred" \in objects
    /\ p \notin DOMAIN policies /\ u \in users /\ c \in DOMAIN creds
    /\ active => MayBeActive(p, u)
    /\ policies' = Insert(policies, p, [user |-> u, cred |-> c, token |-> Null, active |-> active])
    /\ UNCHANGED <<schema, users, creds, tokens>>

ActivatePolicy(p) ==
    /\ p \in DOMAIN policies
    /\ MayBeActive(p, policies[p].user)
    /\ policies' = [policies EXCEPT ![p].active = TRUE]
    /\ UNCHANGED <<schema, users, creds, tokens>>

DeactivateUserPolicies(u) ==
    /\ policies' = [p \in DOMAIN policies |->
          IF policies[p].user = u THEN [policies[p] EXCEPT !.active = FALSE] ELSE policies[p]]
    /\ UNCHANGED <<schema, users, creds, tokens>>

CreateUpstreamCredential(c, u, x, expires) ==
    /\ "creds.header" \in objects
    /\ c \notin DOMAIN creds /\ u \in users
    /\ creds' = Insert(creds, c, [user |-> u, token |-> x, expires |-> expires])
    /\ UNCHANGED <<schema, users, policies, tokens>>

\* The statement of scripts/add-policy.sh when it is given no header: it names no
\* column header_string, so it runs as soon as there is the table.
AddCredential(c, u, x) ==
    /\ "creds" \in objects
    /\ c \notin DOMAIN creds /\ u \in users
    /\ creds' = Insert(creds, c, [user |-> u, token |-> x, expires |-> "never"])
    /\ UNCHANGED <<schema, users, policies, tokens>>

\* COALESCE: Null keeps what is there, so an expiry can be moved, not removed.
UpdateUpstreamCredential(c, x, expires) ==
    /\ "creds.header" \in objects
    /\ c \in DOMAIN creds
    /\ creds' = [creds EXCEPT ![c].token = IF x = Null THEN @ ELSE x,
                              ![c].expires = IF expires = Null THEN @ ELSE expires]
    /\ UNCHANGED <<schema, users, policies, tokens>>

\* Faulty variant of DeleteUpstreamCredential: no reference, so no refusal.
DeleteReferredTo(c) ==
    /\ c \in DOMAIN creds
    /\ creds' = Without(creds, c)
    /\ UNCHANGED <<schema, users, policies, tokens>>

\* Faulty variant of DeleteUpstreamCredential: the reference is declared with
\* ON DELETE CASCADE, as all the others are.
DeleteCascades(c) ==
    /\ c \in DOMAIN creds
    /\ creds' = Without(creds, c)
    /\ policies' = RestrictDomain(policies, LAMBDA p : policies[p].cred # c)
    /\ tokens' = RestrictDomain(tokens, LAMBDA t : policies[tokens[t].policy].cred # c)
    /\ UNCHANGED <<schema, users>>

\* Refused while a policy refers to the credential.
DeleteUpstreamCredential(c) ==
    /\ c \in DOMAIN creds
    /\ \A p \in DOMAIN policies : policies[p].cred # c
    /\ creds' = Without(creds, c)
    /\ UNCHANGED <<schema, users, policies, tokens>>

CreateDownstreamToken(t, p, x, expires) ==
    /\ "tokens" \in objects
    /\ t \notin DOMAIN tokens /\ p \in DOMAIN policies
    /\ tokens' = Insert(tokens, t, [policy |-> p, hash |-> x, revoked |-> FALSE,
                                    expires |-> expires])
    /\ UNCHANGED <<schema, users, creds, policies>>

RevokeDownstreamToken(t) ==
    /\ t \in DOMAIN tokens
    /\ tokens' = [tokens EXCEPT ![t].revoked = TRUE]
    /\ UNCHANGED <<schema, users, creds, policies>>

DeleteDownstreamToken(t) ==
    /\ t \in DOMAIN tokens
    /\ tokens' = Without(tokens, t)
    /\ UNCHANGED <<schema, users, creds, policies>>

\* NOW() passes an expiry.
Expire ==
    /\ \/ \E t \in DOMAIN tokens :
            /\ tokens[t].expires = "later"
            /\ tokens' = [tokens EXCEPT ![t].expires = "past"]
            /\ UNCHANGED creds
       \/ \E c \in DOMAIN creds :
            /\ creds[c].expires = "later"
            /\ creds' = [creds EXCEPT ![c].expires = "past"]
            /\ UNCHANGED tokens
    /\ UNCHANGED <<schema, users, policies>>

Statement ==
    \/ \E u \in User : CreateUser(u) \/ DeactivateUserPolicies(u)
    \/ \E p \in Policy, active \in BOOLEAN, u \in User :
        \/ \E x \in Text : CreatePolicyWithToken(p, u, x, active)
        \/ \E c \in Cred : CreatePolicy(p, u, c, active)
    \/ \E p \in Policy : ActivatePolicy(p)
    \/ \E c \in Cred :
        \/ \E u \in User, x \in Text, e \in Expiry : CreateUpstreamCredential(c, u, x, e)
        \/ \E u \in User, x \in Text : AddCredential(c, u, x)
        \/ \E x \in Text \union {Null}, e \in {Null, "later", "past"} :
            UpdateUpstreamCredential(c, x, e)
        \/ DeleteUpstreamCredential(c)
    \/ \E t \in Token :
        \/ \E p \in Policy, x \in Text, e \in Expiry : CreateDownstreamToken(t, p, x, e)
        \/ RevokeDownstreamToken(t) \/ DeleteDownstreamToken(t)

Next == Migrate \/ Rollback \/ Statement \/ Expire

Spec == Init /\ [][Next]_vars

-----------------------------------------------------------------------------
(* What the rows mean *)

Live(t) == ~tokens[t].revoked /\ tokens[t].expires # "past"

\* The rows that the query finds for a hash; it answers with one of them.
GetDownstreamTokenByHash(x) ==
    {t \in DOMAIN tokens :
        LET p == policies[tokens[t].policy] IN
        /\ tokens[t].hash = x /\ Live(t)
        /\ p.active
        /\ creds[p.cred].expires # "past"}

\* Who is let in: the hash, the policy that applies, and what goes upstream.
Access ==
    {<<tokens[t].hash, tokens[t].policy, creds[policies[tokens[t].policy].cred].token>> :
        t \in UNION {GetDownstreamTokenByHash(x) : x \in Text}}

\* Before there were credentials, the token of an active policy was both; rows
\* issued in advance are to let in too.
Admitted(p) ==
    {policies[p].token} \union
        {tokens[t].hash : t \in {s \in DOMAIN tokens : tokens[s].policy = p /\ Live(s)}}

AccessByPolicy ==
    UNION {{<<x, p, policies[p].token>> : x \in Admitted(p)} :
              p \in {q \in DOMAIN policies : policies[q].active}}

-----------------------------------------------------------------------------
(* Properties *)

\* Every row is of its type and refers to rows there are, whichever migrations
\* and rollbacks have moved it.
TypeOK ==
    /\ version \in 0..5
    /\ objects \subseteq UNION Range(Schema)
    /\ users \subseteq User
    /\ DOMAIN creds \subseteq Cred /\ Range(creds) \subseteq CredRow
    /\ DOMAIN policies \subseteq Policy /\ Range(policies) \subseteq PolicyRow
    /\ DOMAIN tokens \subseteq Token /\ Range(tokens) \subseteq TokenRow
    /\ \A c \in DOMAIN creds : creds[c].user \in users
    /\ \A p \in DOMAIN policies :
        /\ policies[p].user \in users
        /\ IF version < 3 THEN policies[p].token # Null ELSE policies[p].cred \in DOMAIN creds
    /\ \A t \in DOMAIN tokens : tokens[t].policy \in DOMAIN policies

Grants ==
    \/ \E p \in Policy : ActivatePolicy(p)
    \/ \E c \in Cred, x \in Text \union {Null}, e \in {Null, "later", "past"} :
        UpdateUpstreamCredential(c, x, e)
    \/ \E t \in Token, p \in Policy, x \in Text, e \in Expiry : CreateDownstreamToken(t, p, x, e)

Withdraws ==
    \/ \E u \in User : DeactivateUserPolicies(u)
    \/ \E c \in Cred, x \in Text \union {Null}, e \in {Null, "later", "past"} :
        UpdateUpstreamCredential(c, x, e)
    \/ \E t \in Token : RevokeDownstreamToken(t) \/ DeleteDownstreamToken(t)
    \/ Expire

\* Nobody is let in but by issuing a token, activating a policy or updating its
\* credential, and nobody is shut out but by withdrawing one of the three or by
\* time: not by inserting policies, deleting credentials, or migrating.
AccessChangesOnPurpose ==
    [][version >= 3 /\ version' >= 3 =>
          /\ Access' \subseteq Access \/ Grants
          /\ Access \subseteq Access' \/ Withdraws]_vars

\* When tokens move out of the policies, the same clients get in, under the same
\* policies and with the same upstream tokens (migration 20260316000002).
MigrationKeepsAccess == [][version = 2 /\ version' = 3 => Access' = AccessByPolicy]_vars

\* Rolling a migration back leaves the schema of the migration before it: the
\* `migrate:down` sections, which say they undo what the `migrate:up` ones do.
RollbackWorks == version > 0 => objects = Schema[version]

-----------------------------------------------------------------------------
(* The inductive invariant of the proofs in StoreProofs.                    *)

\* What there is at most after each migration; a rollback may leave less.
SchemaInv ==
    /\ "users" \in objects => version >= 1
    /\ "policies.token" \in objects => version \in {1, 2}
    /\ {"creds", "tokens"} \intersect objects # {} => version >= 2
    /\ "policies.cred" \in objects => version >= 3
    /\ "creds.header" \in objects => version = 5

\* No rows without their table.
RowsInv ==
    /\ version = 0 => users = {}
    /\ version < 2 => DOMAIN creds = {} /\ DOMAIN tokens = {}

IInv == TypeOK /\ SchemaInv /\ RowsInv

=============================================================================
