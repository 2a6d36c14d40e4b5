---------------------------- MODULE StoreProofs ----------------------------
(***************************************************************************)
(* Proofs about Store: its type invariant with the references between rows *)
(* across migrations and rollbacks, and that access changes only on        *)
(* purpose, for any users, rows and texts.                                 *)
(***************************************************************************)
EXTENDS Store, TLAPS

-----------------------------------------------------------------------------
(* The schema *)

LEMMA SchemaIs ==
    /\ DOMAIN Schema = 1..5
    /\ Schema[1] = {"users", "policies", "policies.token", "one_active"}
    /\ Schema[2] = {"users", "policies", "policies.token", "one_active", "creds", "tokens"}
    /\ Schema[3] = {"users", "policies", "policies.cred", "one_active", "creds", "tokens"}
    /\ Schema[4] = {"users", "policies", "policies.cred", "creds", "tokens"}
    /\ Schema[5] = {"users", "policies", "policies.cred", "creds", "tokens", "creds.header"}
  BY DEF Schema

Objects == UNION Range(Schema)

LEMMA SchemaInObjects ==
    /\ \A n \in 1..5 : Schema[n] \subseteq Objects
    /\ {"policies.token", "one_active"} \subseteq Objects
<1>1. \A n \in 1..5 : Schema[n] \subseteq Objects
  BY SchemaIs DEF Objects, Range
<1> QED
  BY <1>1, SchemaIs

\* A migration adds and drops what it names.
LEMMA MigrationSteps ==
    ASSUME IInv, NEW n \in 1..5, Applies(n)
    PROVE  objects' \subseteq Objects /\ SchemaInv'
<1>1. objects \subseteq Objects /\ SchemaInv
  BY DEF IInv, TypeOK, Objects
<1>2. CASE n = 1
  BY <1>1, <1>2, SchemaIs, SchemaInObjects DEF Applies, Creates, Drops, SchemaInv
<1>3. CASE n = 2
  BY <1>1, <1>3, SchemaIs, SchemaInObjects DEF Applies, Creates, Drops, SchemaInv
<1>4. CASE n = 3
  BY <1>1, <1>4, SchemaIs, SchemaInObjects DEF Applies, Creates, Drops, SchemaInv
<1>5. CASE n = 4
  BY <1>1, <1>5, SchemaIs, SchemaInObjects DEF Applies, Creates, Drops, SchemaInv
<1>6. CASE n = 5
  BY <1>1, <1>6, SchemaIs, SchemaInObjects DEF Applies, Creates, Drops, SchemaInv
<1> QED
  BY <1>2, <1>3, <1>4, <1>5, <1>6

LEMMA RollbackSteps ==
    ASSUME IInv, Rollback
    PROVE  version' \in 0..5 /\ objects' \subseteq Objects /\ SchemaInv'
<1>1. objects \subseteq Objects /\ SchemaInv /\ version \in 0..5
  BY DEF IInv, TypeOK, Objects
<1>2. CASE RollbackInitial
  BY <1>1, <1>2 DEF RollbackInitial, RollsBack, SchemaInv
<1>3. CASE RollbackTables
  BY <1>1, <1>3 DEF RollbackTables, RollsBack, SchemaInv
<1>4. CASE RollbackPolicies
  <2>1. /\ version = 3 /\ version' = 3 - 1
        /\ objects' = (objects \union {"policies.token"}) \ {"policies.cred", "creds", "tokens"}
    BY <1>4, Zenon DEF RollbackPolicies, RollsBack
  <2> QED
    BY <1>1, <2>1, SchemaInObjects DEF SchemaInv
<1>5. CASE RollbackConstraint
  BY <1>1, <1>5, SchemaInObjects DEF RollbackConstraint, RollsBack, SchemaInv
<1>6. CASE RollbackHeader
  BY <1>1, <1>6 DEF RollbackHeader, RollsBack, SchemaInv
<1> QED
  BY <1>2, <1>3, <1>4, <1>5, <1>6 DEF Rollback

-----------------------------------------------------------------------------
(* Rows and references *)

LEMMA RangeIn == \A f, S : Range(f) \subseteq S <=> \A x \in DOMAIN f : f[x] \in S
  BY DEF Range

CredsOK ==
    /\ DOMAIN creds \subseteq Cred
    /\ \A c \in DOMAIN creds : creds[c] \in CredRow /\ creds[c].user \in users

PoliciesOK ==
    /\ DOMAIN policies \subseteq Policy
    /\ \A p \in DOMAIN policies :
        /\ policies[p] \in PolicyRow
        /\ policies[p].user \in users
        /\ version < 3 => policies[p].token # Null
        /\ ~(version < 3) => policies[p].cred \in DOMAIN creds

TokensOK ==
    /\ DOMAIN tokens \subseteq Token
    /\ \A t \in DOMAIN tokens :
        tokens[t] \in TokenRow /\ tokens[t].policy \in DOMAIN policies

RowsOK == users \subseteq User /\ CredsOK /\ PoliciesOK /\ TokensOK /\ RowsInv

\* The type invariant, row by row.
LEMMA RowByRow == IInv <=> version \in 0..5 /\ objects \subseteq Objects /\ SchemaInv /\ RowsOK
  BY RangeIn DEF IInv, TypeOK, Objects, RowsOK, CredsOK, PoliciesOK, TokensOK

LEMMA RowByRowNext ==
    (version \in 0..5 /\ objects \subseteq Objects /\ SchemaInv /\ RowsOK)' => IInv'
  BY RangeIn DEF IInv, TypeOK, Objects, RowsOK, CredsOK, PoliciesOK, TokensOK

\* Rows of an injective map have one origin.
LEMMA Origin ==
    ASSUME NEW S, NEW T, NEW f \in Injection(S, T), NEW s \in S
    PROVE  (CHOOSE q \in S : f[q] = f[s]) = s
  BY DEF Injection

LEMMA WithoutIs ==
    ASSUME NEW table, NEW id
    PROVE  /\ DOMAIN Without(table, id) = DOMAIN table \ {id}
           /\ \A i \in DOMAIN table \ {id} : Without(table, id)[i] = table[i]
  BY DEF Without, Restrict

\* The rows that MigratePolicies makes for a policy.
CredOf(p) ==
    [user |-> policies[p].user, token |-> policies[p].token, expires |-> "never"]
TokenOf(p) ==
    [policy |-> p, hash |-> policies[p].token, revoked |-> FALSE, expires |-> "never"]

\* What MigratePolicies makes of the rows.
LEMMA MigratedRows ==
    ASSUME NEW made \in Injection(DOMAIN policies, Cred \ DOMAIN creds),
           NEW issued \in Injection(DOMAIN policies, Token \ DOMAIN tokens),
           MigratesRows(made, issued), RefersTo(made)
    PROVE  /\ DOMAIN creds' = DOMAIN creds \union Range(made)
           /\ \A c \in DOMAIN creds : creds'[c] = creds[c]
           /\ DOMAIN policies' = DOMAIN policies
           /\ DOMAIN tokens' = DOMAIN tokens \union Range(issued)
           /\ \A t \in DOMAIN tokens : tokens'[t] = tokens[t]
  BY DEF MigratesRows, RefersTo

LEMMA MigratedPolicy ==
    ASSUME NEW made \in Injection(DOMAIN policies, Cred \ DOMAIN creds),
           NEW issued \in Injection(DOMAIN policies, Token \ DOMAIN tokens),
           MigratesRows(made, issued), RefersTo(made), NEW p \in DOMAIN policies
    PROVE  /\ made[p] \in Range(made) /\ issued[p] \in Range(issued)
           /\ creds'[made[p]] = CredOf(p)
           /\ policies'[p] = [policies[p] EXCEPT !.cred = made[p], !.token = Null]
           /\ tokens'[issued[p]] = TokenOf(p)
<1>1. DOMAIN made = DOMAIN policies /\ DOMAIN issued = DOMAIN policies
      /\ made[p] \notin DOMAIN creds /\ issued[p] \notin DOMAIN tokens
  BY DEF Injection
<1>2. made[p] \in Range(made) /\ issued[p] \in Range(issued)
  BY <1>1 DEF Range
<1>3. creds'[made[p]] = CredOf(p)
  <2> DEFINE o == CHOOSE q \in DOMAIN policies : made[q] = made[p]
  <2>1. creds'[made[p]] = [user |-> policies[o].user, token |-> policies[o].token,
                           expires |-> "never"]
    BY <1>1, <1>2 DEF MigratesRows
  <2>2. o = p
    BY Origin
  <2> QED
    BY <2>1, <2>2 DEF CredOf
<1>4. tokens'[issued[p]] = TokenOf(p)
  BY <1>1, <1>2, Origin DEF MigratesRows, TokenOf
<1>5. policies'[p] = [policies[p] EXCEPT !.cred = made[p], !.token = Null]
  BY DEF RefersTo
<1> QED
  BY <1>2, <1>3, <1>4, <1>5

\* Migrating the policies keeps rows and references in order.
LEMMA MigratePoliciesNext == IInv /\ MigratePolicies => IInv'
<1> SUFFICES ASSUME IInv, MigratePolicies PROVE IInv'
  OBVIOUS
<1>1. PICK made \in Injection(DOMAIN policies, Cred \ DOMAIN creds),
           issued \in Injection(DOMAIN policies, Token \ DOMAIN tokens) :
        MigratesRows(made, issued) /\ RefersTo(made)
  BY Zenon DEF MigratePolicies
<1>2. version = 2 /\ version' = 3 /\ users' = users
  <2>1. version = 3 - 1 /\ version' = 3 /\ users' = users
    BY Zenon DEF MigratePolicies, Applies
  <2> QED
    BY <2>1
<1>3. objects' \subseteq Objects /\ SchemaInv'
  BY MigrationSteps DEF MigratePolicies
<1>4. RowsOK
  BY RowByRow
<1>5. Range(made) \subseteq Cred /\ Range(issued) \subseteq Token
  BY DEF Injection, Range
<1>6. \A c \in Range(made) : \E p \in DOMAIN policies : c = made[p]
  BY DEF Injection, Range
<1>7. \A t \in Range(issued) : \E p \in DOMAIN policies : t = issued[p]
  BY DEF Injection, Range
<1>8. CredsOK'
  <2>1. ASSUME NEW c \in DOMAIN creds' PROVE creds'[c] \in CredRow /\ creds'[c].user \in users'
    <3>1. CASE c \in DOMAIN creds
      BY <1>1, <1>2, <1>4, <3>1, MigratedRows DEF RowsOK, CredsOK
    <3>2. CASE c \in Range(made)
      <4>1. PICK p \in DOMAIN policies : c = made[p]
        BY <1>6, <3>2
      <4>2. creds'[c] = CredOf(p)
        BY <1>1, <4>1, MigratedPolicy
      <4>3. policies[p] \in PolicyRow /\ policies[p].token # Null /\ policies[p].user \in users
        BY <1>2, <1>4 DEF RowsOK, PoliciesOK
      <4> QED
        BY <1>2, <4>2, <4>3 DEF CredOf, CredRow, PolicyRow, Expiry
    <3> QED
      BY <1>1, <3>1, <3>2, MigratedRows
  <2> QED
    BY <1>1, <1>4, <1>5, <2>1, MigratedRows DEF RowsOK, CredsOK
<1>9. PoliciesOK'
  <2>1. ASSUME NEW p \in DOMAIN policies
        PROVE  policies'[p] \in PolicyRow /\ policies'[p].user \in users
               /\ policies'[p].cred \in DOMAIN creds'
    <3>1. /\ policies'[p] = [policies[p] EXCEPT !.cred = made[p], !.token = Null]
          /\ made[p] \in Range(made) /\ DOMAIN creds' = DOMAIN creds \union Range(made)
      BY <1>1, MigratedRows, MigratedPolicy
    <3>2. policies[p] \in PolicyRow /\ policies[p].user \in users
      BY <1>4 DEF RowsOK, PoliciesOK
    <3> QED
      BY <1>5, <3>1, <3>2 DEF PolicyRow
  <2>2. DOMAIN policies' = DOMAIN policies
    BY <1>1, MigratedRows
  <2>3. DOMAIN policies \subseteq Policy
    BY <1>4 DEF RowsOK, PoliciesOK
  <2> QED
    BY <1>2, <2>1, <2>2, <2>3 DEF PoliciesOK
<1>10. DOMAIN policies' = DOMAIN policies
  BY <1>1, MigratedRows
<1>11. TokensOK'
  <2>1. ASSUME NEW t \in DOMAIN tokens'
        PROVE  tokens'[t] \in TokenRow /\ tokens'[t].policy \in DOMAIN policies'
    <3>1. CASE t \in DOMAIN tokens
      BY <1>1, <1>4, <3>1, MigratedRows DEF RowsOK, TokensOK
    <3>2. CASE t \in Range(issued)
      <4>1. PICK p \in DOMAIN policies : t = issued[p]
        BY <1>7, <3>2
      <4>2. tokens'[issued[p]] = TokenOf(p)
        BY <1>1, MigratedPolicy
      <4>3. policies[p].token \in Text /\ p \in Policy
        BY <1>2, <1>4 DEF RowsOK, PoliciesOK, PolicyRow
      <4> QED
        BY <1>10, <4>1, <4>2, <4>3 DEF TokenOf, TokenRow, Expiry
    <3> QED
      BY <1>1, <3>1, <3>2, MigratedRows
  <2> QED
    BY <1>1, <1>4, <1>5, <2>1, MigratedRows DEF RowsOK, TokensOK
<1>12. RowsInv'
  BY <1>2 DEF RowsInv
<1> QED
  BY <1>2, <1>3, <1>4, <1>8, <1>9, <1>11, <1>12, RowByRowNext DEF RowsOK

LEMMA RollbackNext == IInv /\ Rollback => IInv'
<1> SUFFICES ASSUME IInv, Rollback PROVE IInv'
  OBVIOUS
<1>1. version' \in 0..5 /\ objects' \subseteq Objects /\ SchemaInv'
  BY RollbackSteps
<1>2. RowsOK /\ version \in 0..5
  BY RowByRow
<1>3. DOMAIN Empty = {}
  BY DEF Empty
<1>4. CASE RollbackInitial
  BY <1>1, <1>2, <1>3, <1>4, RowByRowNext
  DEF RollbackInitial, RollsBack, RowsOK, CredsOK, PoliciesOK, TokensOK, RowsInv
<1>5. CASE RollbackTables
  BY <1>1, <1>2, <1>3, <1>5, RowByRowNext
  DEF RollbackTables, RollsBack, RowsOK, CredsOK, PoliciesOK, TokensOK, RowsInv
<1>6. CASE RollbackPolicies
  <2>1. /\ version = 3 /\ version' = 3 - 1
        /\ creds' = Empty /\ tokens' = Empty /\ users' = users
    BY <1>6, Zenon DEF RollbackPolicies, RollsBack
  <2>6. policies' = [p \in DOMAIN policies |->
              [policies[p] EXCEPT !.token = creds[policies[p].cred].token, !.cred = Null]]
    BY <1>6, Zenon DEF RollbackPolicies
  <2>0. version = 3 /\ version' = 2
    BY <2>1
  <2>2. ASSUME NEW p \in DOMAIN policies
        PROVE  /\ policies'[p] \in PolicyRow /\ policies'[p].user \in users
               /\ policies'[p].token # Null
    <3>1. policies[p] \in PolicyRow /\ policies[p].user \in users
          /\ policies[p].cred \in DOMAIN creds
      BY <1>2, <2>0 DEF RowsOK, PoliciesOK
    <3>2. creds[policies[p].cred].token \in Text
      BY <1>2, <3>1 DEF RowsOK, CredsOK, CredRow
    <3>3. policies'[p] = [policies[p] EXCEPT !.token = creds[policies[p].cred].token, !.cred = Null]
      BY <2>6
    <3> QED
      BY <3>1, <3>2, <3>3, StoreAssumption DEF PolicyRow
  <2>3. DOMAIN policies' = DOMAIN policies
    BY <2>6
  <2>4. PoliciesOK'
    <3>1. DOMAIN policies \subseteq Policy
      BY <1>2 DEF RowsOK, PoliciesOK
    <3> QED
      <4>1. DOMAIN policies' \subseteq Policy
        BY <2>3, <3>1
      <4>2. ASSUME NEW p \in DOMAIN policies'
            PROVE  /\ policies'[p] \in PolicyRow /\ policies'[p].user \in users'
                   /\ policies'[p].token # Null
        BY <2>1, <2>2, <2>3
      <4>3. version' < 3
        BY <2>0
      <4> QED
        BY <4>1, <4>2, <4>3 DEF PoliciesOK
  <2>5. CredsOK' /\ TokensOK' /\ RowsInv' /\ users' \subseteq User
    BY <1>2, <1>3, <2>0, <2>1 DEF RowsOK, CredsOK, TokensOK, RowsInv
  <2> QED
    BY <1>1, <2>4, <2>5, RowByRowNext DEF RowsOK
<1>7. CASE RollbackConstraint \/ RollbackHeader
  BY <1>1, <1>2, <1>7, RowByRowNext
  DEF RollbackConstraint, RollbackHeader, RollsBack, RowsOK, CredsOK, PoliciesOK, TokensOK, RowsInv
<1> QED
  BY <1>4, <1>5, <1>6, <1>7 DEF Rollback

LEMMA MigrateSchemaNext == ASSUME IInv, NEW n \in {1, 2, 4, 5}, MigrateSchema(n) PROVE IInv'
<1>1. version = n - 1 /\ version' = n
  BY DEF MigrateSchema, Applies
<1>2. objects' \subseteq Objects /\ SchemaInv'
  BY MigrationSteps DEF MigrateSchema
<1>3. RowsOK
  BY RowByRow
<1>4. UNCHANGED <<users, creds, policies, tokens>>
  BY DEF MigrateSchema
<1> QED
  BY <1>1, <1>2, <1>3, <1>4, RowByRowNext
  DEF RowsOK, CredsOK, PoliciesOK, TokensOK, RowsInv

LEMMA RollbackVersion == ASSUME Rollback PROVE version' = version - 1
<1>1. RollbackPolicies => version = 3 /\ version' = 3 - 1
  BY Zenon DEF RollbackPolicies, RollsBack
<1> QED
  BY <1>1
  DEF Rollback, RollbackInitial, RollbackTables, RollbackConstraint, RollbackHeader, RollsBack

LEMMA StatementKeepsSchema == Statement \/ Expire => UNCHANGED schema
  BY Zenon
  DEF Statement, Expire, CreateUser, DeactivateUserPolicies, CreatePolicyWithToken,
      CreatePolicy, ActivatePolicy, CreateUpstreamCredential, UpdateUpstreamCredential,
      AddCredential, DeleteUpstreamCredential, CreateDownstreamToken,
      RevokeDownstreamToken, DeleteDownstreamToken

\* Statements leave the schema alone; what they insert refers to rows there are,
\* and what they delete nobody refers to.
LEMMA StatementNext == IInv /\ (Statement \/ Expire) => IInv'
<1> SUFFICES ASSUME IInv, Statement \/ Expire PROVE IInv'
  OBVIOUS
<1>0. version \in 0..5 /\ objects \subseteq Objects /\ SchemaInv /\ RowsOK
  BY RowByRow
<1> SUFFICES version' = version /\ objects' = objects /\ RowsOK'
  BY <1>0, RowByRowNext DEF SchemaInv
<1> USE DEF RowsOK, CredsOK, PoliciesOK, TokensOK, RowsInv, schema
<1>1. ASSUME NEW u \in User, CreateUser(u)
      PROVE  version' = version /\ objects' = objects /\ RowsOK'
  BY <1>0, <1>1 DEF CreateUser, SchemaInv
<1>2. ASSUME NEW u \in User, DeactivateUserPolicies(u)
      PROVE  version' = version /\ objects' = objects /\ RowsOK'
  <2>1. ASSUME NEW p \in DOMAIN policies
        PROVE  /\ policies'[p] \in PolicyRow /\ policies'[p].user = policies[p].user
               /\ policies'[p].token = policies[p].token /\ policies'[p].cred = policies[p].cred
    BY <1>0, <1>2 DEF DeactivateUserPolicies, PolicyRow
  <2>2. DOMAIN policies' = DOMAIN policies /\ UNCHANGED <<schema, users, creds, tokens>>
    BY <1>2 DEF DeactivateUserPolicies
  <2> QED
    BY <1>0, <2>1, <2>2
<1>3. ASSUME NEW p \in Policy, NEW u \in User, NEW x \in Text, NEW active \in BOOLEAN,
             CreatePolicyWithToken(p, u, x, active)
      PROVE  version' = version /\ objects' = objects /\ RowsOK'
  <2> DEFINE row == [user |-> u, cred |-> Null, token |-> x, active |-> active]
  <2>1. row \in PolicyRow /\ row.user \in users /\ row.token # Null /\ u \in users
    BY <1>3, StoreAssumption DEF CreatePolicyWithToken, PolicyRow
  <2>2. /\ version < 3 /\ policies' = Insert(policies, p, row)
        /\ UNCHANGED <<schema, users, creds, tokens>> /\ p \notin DOMAIN policies
    BY <1>0, <1>3 DEF CreatePolicyWithToken, SchemaInv
  <2> HIDE DEF row
  <2>3. /\ DOMAIN policies' = DOMAIN policies \union {p} /\ policies'[p] = row
        /\ \A i \in DOMAIN policies : policies'[i] = policies[i]
    BY <2>2 DEF Insert
  <2> QED
    BY <1>0, <2>1, <2>2, <2>3
<1>4. ASSUME NEW p \in Policy, NEW u \in User, NEW c \in Cred, NEW active \in BOOLEAN,
             CreatePolicy(p, u, c, active)
      PROVE  version' = version /\ objects' = objects /\ RowsOK'
  <2> DEFINE row == [user |-> u, cred |-> c, token |-> Null, active |-> active]
  <2>1. row \in PolicyRow /\ row.user \in users /\ row.cred \in DOMAIN creds
    BY <1>4 DEF CreatePolicy, PolicyRow
  <2>2. /\ version >= 3 /\ policies' = Insert(policies, p, row)
        /\ UNCHANGED <<schema, users, creds, tokens>> /\ p \notin DOMAIN policies
    BY <1>0, <1>4 DEF CreatePolicy, SchemaInv
  <2> HIDE DEF row
  <2>3. /\ DOMAIN policies' = DOMAIN policies \union {p} /\ policies'[p] = row
        /\ \A i \in DOMAIN policies : policies'[i] = policies[i]
    BY <2>2 DEF Insert
  <2> QED
    BY <1>0, <2>1, <2>2, <2>3
<1>5. ASSUME NEW p \in Policy, ActivatePolicy(p)
      PROVE  version' = version /\ objects' = objects /\ RowsOK'
  <2>1. ASSUME NEW q \in DOMAIN policies
        PROVE  /\ policies'[q] \in PolicyRow /\ policies'[q].user = policies[q].user
               /\ policies'[q].token = policies[q].token /\ policies'[q].cred = policies[q].cred
    BY <1>0, <1>5 DEF ActivatePolicy, PolicyRow
  <2>2. DOMAIN policies' = DOMAIN policies /\ UNCHANGED <<schema, users, creds, tokens>>
    BY <1>5 DEF ActivatePolicy
  <2> QED
    BY <1>0, <2>1, <2>2
<1>6. ASSUME NEW c \in Cred, NEW u \in User, NEW x \in Text, NEW e \in Expiry,
             CreateUpstreamCredential(c, u, x, e) \/ (e = "never" /\ AddCredential(c, u, x))
      PROVE  version' = version /\ objects' = objects /\ RowsOK'
  <2> DEFINE row == [user |-> u, token |-> x, expires |-> e]
  <2>1. row \in CredRow /\ row.user \in users
    BY <1>6 DEF CreateUpstreamCredential, AddCredential, CredRow
  <2>2. /\ version >= 2 /\ creds' = Insert(creds, c, row)
        /\ UNCHANGED <<schema, users, policies, tokens>> /\ c \notin DOMAIN creds
    BY <1>0, <1>6 DEF CreateUpstreamCredential, AddCredential, SchemaInv
  <2> HIDE DEF row
  <2>3. /\ DOMAIN creds' = DOMAIN creds \union {c} /\ creds'[c] = row
        /\ \A i \in DOMAIN creds : creds'[i] = creds[i]
    BY <2>2 DEF Insert
  <2> QED
    BY <1>0, <2>1, <2>2, <2>3
<1>7. ASSUME NEW c \in Cred, NEW u \in User, NEW x \in Text, AddCredential(c, u, x)
      PROVE  version' = version /\ objects' = objects /\ RowsOK'
  BY <1>6, <1>7 DEF Expiry
<1>8. ASSUME NEW c \in Cred, NEW x \in Text \union {Null}, NEW e \in {Null, "later", "past"},
             UpdateUpstreamCredential(c, x, e)
      PROVE  version' = version /\ objects' = objects /\ RowsOK'
  <2>1. ASSUME NEW d \in DOMAIN creds
        PROVE  creds'[d] \in CredRow /\ creds'[d].user = creds[d].user
    <3>1. creds[d] \in CredRow /\ DOMAIN creds' = DOMAIN creds
      BY <1>0, <1>8 DEF UpdateUpstreamCredential
    <3>2. creds'[d] = IF d = c THEN [creds[d] EXCEPT !.token = IF x = Null THEN @ ELSE x,
                                                     !.expires = IF e = Null THEN @ ELSE e]
                               ELSE creds[d]
      BY <1>8 DEF UpdateUpstreamCredential
    <3> QED
      BY <3>1, <3>2 DEF CredRow, Expiry
  <2>2. DOMAIN creds' = DOMAIN creds /\ UNCHANGED <<schema, users, policies, tokens>>
    BY <1>8 DEF UpdateUpstreamCredential
  <2> QED
    BY <1>0, <2>1, <2>2
<1>9. ASSUME NEW c \in Cred, DeleteUpstreamCredential(c)
      PROVE  version' = version /\ objects' = objects /\ RowsOK'
  <2>1. /\ creds' = Without(creds, c) /\ UNCHANGED <<schema, users, policies, tokens>>
        /\ \A p \in DOMAIN policies : policies[p].cred # c
    BY <1>9 DEF DeleteUpstreamCredential
  <2>2. /\ DOMAIN creds' = DOMAIN creds \ {c}
        /\ \A i \in DOMAIN creds' : creds'[i] = creds[i]
    BY <2>1, WithoutIs
  <2> QED
    BY <1>0, <2>1, <2>2
<1>10. ASSUME NEW t \in Token, NEW p \in Policy, NEW x \in Text, NEW e \in Expiry,
             CreateDownstreamToken(t, p, x, e)
      PROVE  version' = version /\ objects' = objects /\ RowsOK'
  <2> DEFINE row == [policy |-> p, hash |-> x, revoked |-> FALSE, expires |-> e]
  <2>1. row \in TokenRow /\ row.policy \in DOMAIN policies
    BY <1>10 DEF CreateDownstreamToken, TokenRow
  <2>2. /\ version >= 2 /\ tokens' = Insert(tokens, t, row)
        /\ UNCHANGED <<schema, users, creds, policies>> /\ t \notin DOMAIN tokens
    BY <1>0, <1>10 DEF CreateDownstreamToken, SchemaInv
  <2> HIDE DEF row
  <2>3. /\ DOMAIN tokens' = DOMAIN tokens \union {t} /\ tokens'[t] = row
        /\ \A i \in DOMAIN tokens : tokens'[i] = tokens[i]
    BY <2>2 DEF Insert
  <2> QED
    BY <1>0, <2>1, <2>2, <2>3
<1>11. ASSUME NEW t \in Token, RevokeDownstreamToken(t)
       PROVE  version' = version /\ objects' = objects /\ RowsOK'
  <2>1. ASSUME NEW s \in DOMAIN tokens
        PROVE  tokens'[s] \in TokenRow /\ tokens'[s].policy = tokens[s].policy
    BY <1>0, <1>11 DEF RevokeDownstreamToken, TokenRow
  <2>2. DOMAIN tokens' = DOMAIN tokens /\ UNCHANGED <<schema, users, creds, policies>>
    BY <1>11 DEF RevokeDownstreamToken
  <2> QED
    BY <1>0, <2>1, <2>2
<1>12. ASSUME NEW t \in Token, DeleteDownstreamToken(t)
       PROVE  version' = version /\ objects' = objects /\ RowsOK'
  <2>1. tokens' = Without(tokens, t) /\ UNCHANGED <<schema, users, creds, policies>>
    BY <1>12 DEF DeleteDownstreamToken
  <2>2. /\ DOMAIN tokens' = DOMAIN tokens \ {t}
        /\ \A i \in DOMAIN tokens' : tokens'[i] = tokens[i]
    BY <2>1, WithoutIs
  <2> QED
    BY <1>0, <2>1, <2>2
<1>13. ASSUME Expire
       PROVE  version' = version /\ objects' = objects /\ RowsOK'
  <2>1. ASSUME NEW s \in DOMAIN tokens
        PROVE  tokens'[s] \in TokenRow /\ tokens'[s].policy = tokens[s].policy
    BY <1>0, <1>13 DEF Expire, TokenRow, Expiry
  <2>2. ASSUME NEW d \in DOMAIN creds
        PROVE  creds'[d] \in CredRow /\ creds'[d].user = creds[d].user
    BY <1>0, <1>13 DEF Expire, CredRow, Expiry
  <2>3. /\ DOMAIN tokens' = DOMAIN tokens /\ DOMAIN creds' = DOMAIN creds
        /\ UNCHANGED <<schema, users, policies>>
    BY <1>13 DEF Expire
  <2> QED
    BY <1>0, <2>1, <2>2, <2>3
<1> QED
  BY <1>1, <1>2, <1>3, <1>4, <1>5, <1>6, <1>8, <1>9, <1>10, <1>11, <1>12, <1>13, <1>7
  DEF Statement

LEMMA InvInit == Init => IInv
<1>1. DOMAIN Empty = {}
  BY DEF Empty
<1> QED
  BY <1>1, RowByRow DEF Init, SchemaInv, RowsOK, CredsOK, PoliciesOK, TokensOK, RowsInv

LEMMA InvNext == IInv /\ [Next]_vars => IInv'
<1>1. CASE UNCHANGED vars
  BY <1>1, RowByRow, RowByRowNext
  DEF vars, SchemaInv, RowsOK, CredsOK, PoliciesOK, TokensOK, RowsInv
<1> QED
  BY <1>1, MigrateSchemaNext, MigratePoliciesNext, RollbackNext, StatementNext
  DEF Next, Migrate

\* The invariant holds in every state.
THEOREM Invariant == Spec => []IInv
  BY InvInit, InvNext, PTL DEF Spec

\* Every row is of its type and refers to rows there are, whatever statements,
\* migrations and rollbacks came in whatever order, for any number of rows.
THEOREM TypeCorrect == Spec => []TypeOK
<1>1. IInv => TypeOK
  BY DEF IInv
<1> QED
  BY Invariant, <1>1, PTL

-----------------------------------------------------------------------------
(* Access *)

\* What token t opens, and whether it does.
Opens(t) ==
    /\ ~tokens[t].revoked /\ tokens[t].expires # "past"
    /\ policies[tokens[t].policy].active
    /\ creds[policies[tokens[t].policy].cred].expires # "past"
Entry(t) ==
    <<tokens[t].hash, tokens[t].policy, creds[policies[tokens[t].policy].cred].token>>

LEMMA AccessByTokens == IInv => Access = {Entry(t) : t \in {s \in DOMAIN tokens : Opens(s)}}
<1> SUFFICES ASSUME IInv PROVE Access = {Entry(t) : t \in {s \in DOMAIN tokens : Opens(s)}}
  OBVIOUS
<1>1. \A t \in DOMAIN tokens : tokens[t].hash \in Text
  BY RowByRow DEF RowsOK, TokensOK, TokenRow
<1>2. UNION {GetDownstreamTokenByHash(x) : x \in Text} = {s \in DOMAIN tokens : Opens(s)}
  BY <1>1 DEF GetDownstreamTokenByHash, Live, Opens
<1> QED
  BY <1>2 DEF Access, Entry

LEMMA AccessByTokensNext ==
    IInv' => Access' = {Entry(t)' : t \in {s \in DOMAIN tokens' : Opens(s)'}}
<1> SUFFICES ASSUME IInv'
             PROVE  Access' = {Entry(t)' : t \in {s \in DOMAIN tokens' : Opens(s)'}}
  OBVIOUS
<1>1. \A t \in DOMAIN tokens' : tokens'[t].hash \in Text
  BY RangeIn DEF IInv, TypeOK, TokenRow
<1>2. (UNION {GetDownstreamTokenByHash(x) : x \in Text})' = {s \in DOMAIN tokens' : Opens(s)'}
  BY <1>1 DEF GetDownstreamTokenByHash, Live, Opens
<1> QED
  BY <1>2 DEF Access, Entry

\* Nobody is shut out when every token opens what it did.
LEMMA AccessKept ==
    ASSUME IInv, IInv',
           \A t \in DOMAIN tokens :
              Opens(t) => t \in DOMAIN tokens' /\ Opens(t)' /\ Entry(t)' = Entry(t)
    PROVE  Access \subseteq Access'
  BY AccessByTokens, AccessByTokensNext

\* Nobody is let in when every token opened it before.
LEMMA AccessNotGained ==
    ASSUME IInv, IInv',
           \A t \in DOMAIN tokens' :
              Opens(t)' => t \in DOMAIN tokens /\ Opens(t) /\ Entry(t)' = Entry(t)
    PROVE  Access' \subseteq Access
  BY AccessByTokens, AccessByTokensNext

\* The rows that a token leads to.
LEMMA References ==
    ASSUME IInv, version >= 3, NEW t \in DOMAIN tokens
    PROVE  /\ tokens[t] \in TokenRow
           /\ tokens[t].policy \in DOMAIN policies
           /\ policies[tokens[t].policy] \in PolicyRow
           /\ policies[tokens[t].policy].cred \in DOMAIN creds
           /\ creds[policies[tokens[t].policy].cred] \in CredRow
<1>1. version \in 0..5 /\ RowsOK
  BY RowByRow
<1> QED
  BY <1>1 DEF RowsOK, CredsOK, PoliciesOK, TokensOK

\* What no token leads to may come and go.
LEMMA AccessUnchanged ==
    ASSUME IInv, IInv', version >= 3, UNCHANGED tokens,
           \A p \in DOMAIN policies : policies'[p] = policies[p],
           \A t \in DOMAIN tokens : LET c == policies[tokens[t].policy].cred IN
                creds'[c].token = creds[c].token /\ creds'[c].expires = creds[c].expires
    PROVE  Access' = Access
<1>1. ASSUME NEW t \in DOMAIN tokens PROVE Opens(t)' = Opens(t) /\ Entry(t)' = Entry(t)
  <2>1. policies'[tokens[t].policy] = policies[tokens[t].policy]
    BY References
  <2> QED
    BY <2>1 DEF Opens, Entry
<1> QED
  BY <1>1, AccessKept, AccessNotGained

LEMMA AccessNext ==
    ASSUME IInv, IInv', Next, version >= 3, version' >= 3
    PROVE  (Access' \subseteq Access \/ Grants) /\ (Access \subseteq Access' \/ Withdraws)
<1>0. version \in 0..5 /\ SchemaInv
  BY RowByRow
<1>1. CASE Migrate
  <2>1. ASSUME NEW n \in {1, 2, 4, 5}, MigrateSchema(n) PROVE Access' = Access
    BY <2>1, AccessUnchanged DEF MigrateSchema
  <2>2. ~MigratePolicies
    <3>1. MigratePolicies => version = 3 - 1
      BY Zenon DEF MigratePolicies, Applies
    <3> QED
      BY <3>1
  <2> QED
    BY <1>1, <2>1, <2>2 DEF Migrate
<1>2. CASE Rollback
  <2>1. RollbackConstraint \/ RollbackHeader
    <3>1. RollbackInitial \/ RollbackTables \/ RollbackPolicies =>
             version' \in {1 - 1, 2 - 1, 3 - 1}
      BY Zenon DEF RollbackInitial, RollbackTables, RollbackPolicies, RollsBack
    <3> QED
      BY <1>2, <3>1 DEF Rollback
  <2>2. UNCHANGED <<creds, policies, tokens>>
    BY <2>1 DEF RollbackConstraint, RollbackHeader
  <2> QED
    BY <2>2, AccessUnchanged
<1>3. ASSUME NEW u \in User, CreateUser(u) PROVE Access' = Access
  BY <1>3, AccessUnchanged DEF CreateUser
<1>4. ASSUME NEW u \in User, DeactivateUserPolicies(u) PROVE Access' \subseteq Access
  <2>1. /\ UNCHANGED <<creds, tokens>>
        /\ \A p \in DOMAIN policies : policies'[p].cred = policies[p].cred
        /\ \A p \in DOMAIN policies : policies'[p].active => policies[p].active
    BY <1>4, RowByRow DEF DeactivateUserPolicies, RowsOK, PoliciesOK, PolicyRow
  <2> QED
    BY <2>1, References, AccessNotGained DEF Opens, Entry
<1>5. ASSUME NEW p \in Policy, NEW u \in User, NEW x \in Text, NEW active \in BOOLEAN
      PROVE  ~CreatePolicyWithToken(p, u, x, active)
  BY <1>0 DEF CreatePolicyWithToken, SchemaInv
<1>6. ASSUME NEW p \in Policy, NEW u \in User, NEW c \in Cred, NEW active \in BOOLEAN,
             CreatePolicy(p, u, c, active)
      PROVE  Access' = Access
  <2>1. \A q \in DOMAIN policies : policies'[q] = policies[q]
    BY <1>6 DEF CreatePolicy, Insert
  <2>2. UNCHANGED <<creds, tokens>>
    BY <1>6 DEF CreatePolicy
  <2> QED
    BY <2>1, <2>2, AccessUnchanged
<1>7. ASSUME NEW p \in Policy, ActivatePolicy(p) PROVE Access \subseteq Access'
  <2>1. /\ UNCHANGED <<creds, tokens>>
        /\ \A q \in DOMAIN policies : policies'[q].cred = policies[q].cred
        /\ \A q \in DOMAIN policies : policies[q].active => policies'[q].active
    BY <1>7, RowByRow DEF ActivatePolicy, RowsOK, PoliciesOK, PolicyRow
  <2> QED
    BY <2>1, References, AccessKept DEF Opens, Entry
<1>8. ASSUME NEW c \in Cred, NEW u \in User, NEW x \in Text, NEW e \in Expiry,
             CreateUpstreamCredential(c, u, x, e)
      PROVE  Access' = Access
  <2>1. \A d \in DOMAIN creds : creds'[d] = creds[d]
    BY <1>8 DEF CreateUpstreamCredential, Insert
  <2>2. UNCHANGED <<policies, tokens>>
    BY <1>8 DEF CreateUpstreamCredential
  <2> QED
    BY <2>1, <2>2, References, AccessUnchanged
<1>9. ASSUME NEW c \in Cred, NEW u \in User, NEW x \in Text, AddCredential(c, u, x)
       PROVE  Access' = Access
  <2>1. \A d \in DOMAIN creds : creds'[d] = creds[d]
    BY <1>9 DEF AddCredential, Insert
  <2>2. UNCHANGED <<policies, tokens>>
    BY <1>9 DEF AddCredential
  <2> QED
    BY <2>1, <2>2, References, AccessUnchanged
<1>10. ASSUME NEW c \in Cred, DeleteUpstreamCredential(c) PROVE Access' = Access
  <2>1. /\ \A p \in DOMAIN policies : policies[p].cred # c
        /\ \A d \in DOMAIN creds : d # c => creds'[d] = creds[d]
    BY <1>10, WithoutIs DEF DeleteUpstreamCredential
  <2>2. UNCHANGED <<policies, tokens>>
    BY <1>10 DEF DeleteUpstreamCredential
  <2> QED
    BY <2>1, <2>2, References, AccessUnchanged
<1>11. ASSUME NEW t \in Token, NEW p \in Policy, NEW x \in Text, NEW e \in Expiry,
              CreateDownstreamToken(t, p, x, e)
       PROVE  Access \subseteq Access'
  <2>1. /\ DOMAIN tokens \subseteq DOMAIN tokens'
        /\ \A s \in DOMAIN tokens : tokens'[s] = tokens[s]
    BY <1>11 DEF CreateDownstreamToken, Insert
  <2>2. UNCHANGED <<policies, creds>>
    BY <1>11 DEF CreateDownstreamToken
  <2> QED
    BY <2>1, <2>2, AccessKept DEF Opens, Entry
<1>12. ASSUME NEW t \in Token, RevokeDownstreamToken(t) \/ DeleteDownstreamToken(t)
       PROVE  Access' \subseteq Access
  <2>1. CASE RevokeDownstreamToken(t)
    <3>1. /\ DOMAIN tokens' = DOMAIN tokens /\ UNCHANGED <<policies, creds>>
          /\ \A s \in DOMAIN tokens' : tokens'[s].revoked \/ tokens'[s] = tokens[s]
      BY <2>1, References DEF RevokeDownstreamToken, TokenRow
    <3> QED
      BY <3>1, AccessNotGained DEF Opens, Entry
  <2>2. CASE DeleteDownstreamToken(t)
    <3>1. /\ DOMAIN tokens' \subseteq DOMAIN tokens /\ UNCHANGED <<policies, creds>>
          /\ \A s \in DOMAIN tokens' : tokens'[s] = tokens[s]
      BY <2>2, WithoutIs DEF DeleteDownstreamToken
    <3> QED
      BY <3>1, AccessNotGained DEF Opens, Entry
  <2> QED
    BY <1>12, <2>1, <2>2
<1>13. CASE Expire
  <2>1. /\ DOMAIN tokens' = DOMAIN tokens /\ UNCHANGED policies
        /\ \A s \in DOMAIN tokens : tokens'[s].expires = "past" \/ tokens'[s] = tokens[s]
        /\ \A d \in DOMAIN creds : creds'[d].expires = "past" \/ creds'[d] = creds[d]
    BY <1>13, RowByRow DEF Expire, RowsOK, CredsOK, TokensOK, CredRow, TokenRow
  <2>2. Access' \subseteq Access
    BY <2>1, References, AccessNotGained DEF Opens, Entry
  <2> QED
    BY <1>13, <2>2 DEF Withdraws
<1>14. ASSUME NEW c \in Cred, NEW x \in Text \union {Null}, NEW e \in {Null, "later", "past"},
              UpdateUpstreamCredential(c, x, e)
       PROVE  Grants /\ Withdraws
  BY <1>14 DEF Grants, Withdraws
<1>15. CASE Statement
  <2>1. CASE \E u \in User : CreateUser(u) \/ DeactivateUserPolicies(u)
    BY <1>3, <1>4, <2>1 DEF Withdraws
  <2>2. CASE \E p \in Policy, active \in BOOLEAN, u \in User :
                \/ \E x \in Text : CreatePolicyWithToken(p, u, x, active)
                \/ \E c \in Cred : CreatePolicy(p, u, c, active)
    BY <1>5, <1>6, <2>2
  <2>3. CASE \E p \in Policy : ActivatePolicy(p)
    BY <1>7, <2>3 DEF Grants
  <2>4. CASE \E c \in Cred :
                \/ \E u \in User, x \in Text, e \in Expiry : CreateUpstreamCredential(c, u, x, e)
                \/ \E u \in User, x \in Text : AddCredential(c, u, x)
                \/ \E x \in Text \union {Null}, e \in {Null, "later", "past"} :
                      UpdateUpstreamCredential(c, x, e)
                \/ DeleteUpstreamCredential(c)
    BY <1>8, <1>10, <1>14, <1>9, <2>4
  <2>5. CASE \E t \in Token, p \in Policy, x \in Text, e \in Expiry :
                CreateDownstreamToken(t, p, x, e)
    BY <1>11, <2>5 DEF Grants
  <2>6. CASE \E t \in Token : RevokeDownstreamToken(t) \/ DeleteDownstreamToken(t)
    BY <1>12, <2>6 DEF Withdraws
  <2> QED
    BY <1>15, <2>1, <2>2, <2>3, <2>4, <2>5, <2>6 DEF Statement
<1> QED
  BY <1>1, <1>2, <1>13, <1>15 DEF Next

\* Nobody is let in or shut out but by a statement meant for it or by time, for
\* any number of users, policies, credentials and tokens.
THEOREM AccessOnPurpose == Spec => AccessChangesOnPurpose
<1>1. IInv /\ IInv' /\ [Next]_vars =>
        [version >= 3 /\ version' >= 3 =>
            /\ Access' \subseteq Access \/ Grants
            /\ Access \subseteq Access' \/ Withdraws]_vars
  BY AccessNext
<1> QED
  BY <1>1, Invariant, PTL DEF Spec, AccessChangesOnPurpose

\* After the migration every token of an active policy opens what the policy's
\* own token did.
LEMMA MigratedToken ==
    ASSUME IInv, NEW made \in Injection(DOMAIN policies, Cred \ DOMAIN creds),
           NEW issued \in Injection(DOMAIN policies, Token \ DOMAIN tokens),
           MigratesRows(made, issued), RefersTo(made),
           NEW t \in DOMAIN tokens', NEW p \in DOMAIN policies, tokens'[t].policy = p
    PROVE  /\ Entry(t)' = <<tokens'[t].hash, p, policies[p].token>>
           /\ Opens(t)' <=> /\ ~tokens'[t].revoked /\ tokens'[t].expires # "past"
                            /\ policies[p].active
<1>1. policies[p] \in PolicyRow
  BY RowByRow DEF RowsOK, PoliciesOK
<1>2. /\ policies'[p] = [policies[p] EXCEPT !.cred = made[p], !.token = Null]
      /\ creds'[made[p]] = CredOf(p)
  BY MigratedPolicy
<1>3. policies'[p].cred = made[p] /\ policies'[p].active = policies[p].active
  BY <1>1, <1>2 DEF PolicyRow
<1> QED
  BY <1>2, <1>3 DEF Entry, Opens, CredOf

LEMMA MigrationAccess == IInv /\ IInv' /\ MigratePolicies => Access' = AccessByPolicy
<1> SUFFICES ASSUME IInv, IInv', MigratePolicies PROVE Access' = AccessByPolicy
  OBVIOUS
<1>1. PICK made \in Injection(DOMAIN policies, Cred \ DOMAIN creds),
           issued \in Injection(DOMAIN policies, Token \ DOMAIN tokens) :
        MigratesRows(made, issued) /\ RefersTo(made)
  BY Zenon DEF MigratePolicies
<1>2. /\ DOMAIN tokens' = DOMAIN tokens \union Range(issued)
      /\ \A t \in DOMAIN tokens : tokens'[t] = tokens[t]
      /\ \A t \in DOMAIN tokens : tokens[t].policy \in DOMAIN policies
  BY <1>1, MigratedRows, RowByRow DEF RowsOK, TokensOK
<1>3. ASSUME NEW p \in DOMAIN policies
      PROVE  /\ issued[p] \in DOMAIN tokens' /\ tokens'[issued[p]].policy = p
             /\ tokens'[issued[p]].hash = policies[p].token
             /\ ~tokens'[issued[p]].revoked /\ tokens'[issued[p]].expires # "past"
  <2>1. tokens'[issued[p]] = TokenOf(p)
    BY <1>1, MigratedPolicy
  <2>2. issued[p] \in Range(issued)
    BY <1>1, MigratedPolicy
  <2> QED
    BY <1>2, <2>1, <2>2 DEF TokenOf
<1>4. \A t \in Range(issued) : \E p \in DOMAIN policies : t = issued[p]
  BY DEF Injection, Range
<1>5. ASSUME NEW t \in DOMAIN tokens', Opens(t)' PROVE Entry(t)' \in AccessByPolicy
  <2>1. CASE t \in DOMAIN tokens
    <3>1. PICK p \in DOMAIN policies : p = tokens[t].policy
      BY <1>2, <2>1
    <3>2. Entry(t)' = <<tokens[t].hash, p, policies[p].token>> /\ policies[p].active /\ Live(t)
      BY <1>1, <1>2, <1>5, <2>1, <3>1, MigratedToken DEF Live
    <3>3. tokens[t].hash \in Admitted(p)
      BY <2>1, <3>1, <3>2 DEF Admitted
    <3> QED
      BY <3>2, <3>3 DEF AccessByPolicy
  <2>2. CASE t \in Range(issued)
    <3>1. PICK p \in DOMAIN policies : t = issued[p]
      BY <1>4, <2>2
    <3>2. tokens'[t].policy = p /\ tokens'[t].hash = policies[p].token
      BY <1>3, <3>1
    <3>3. Entry(t)' = <<policies[p].token, p, policies[p].token>> /\ policies[p].active
      BY <1>1, <1>5, <3>2, MigratedToken
    <3> QED
      BY <3>3 DEF AccessByPolicy, Admitted
  <2> QED
    BY <1>2, <2>1, <2>2
<1>6. ASSUME NEW p \in DOMAIN policies, policies[p].active, NEW x \in Admitted(p)
      PROVE  \E t \in DOMAIN tokens' : Opens(t)' /\ Entry(t)' = <<x, p, policies[p].token>>
  <2>1. CASE x = policies[p].token
    <3>1. /\ issued[p] \in DOMAIN tokens' /\ tokens'[issued[p]].policy = p
          /\ tokens'[issued[p]].hash = x /\ ~tokens'[issued[p]].revoked
          /\ tokens'[issued[p]].expires # "past"
      BY <1>3, <2>1
    <3> QED
      BY <1>1, <1>6, <3>1, MigratedToken
  <2>2. CASE \E t \in DOMAIN tokens : tokens[t].policy = p /\ Live(t) /\ tokens[t].hash = x
    <3>1. PICK t \in DOMAIN tokens : tokens[t].policy = p /\ Live(t) /\ tokens[t].hash = x
      BY <2>2
    <3>2. t \in DOMAIN tokens' /\ tokens'[t] = tokens[t]
      BY <1>2
    <3> QED
      BY <1>1, <1>6, <3>1, <3>2, MigratedToken DEF Live
  <2> QED
    BY <2>1, <2>2 DEF Admitted
<1>7. Access' = {Entry(t)' : t \in {s \in DOMAIN tokens' : Opens(s)'}}
  BY AccessByTokensNext
<1>8. Access' \subseteq AccessByPolicy
  BY <1>5, <1>7
<1>9. AccessByPolicy \subseteq Access'
  BY <1>6, <1>7 DEF AccessByPolicy
<1> QED
  BY <1>8, <1>9

\* The migration that moves tokens out of the policies lets the same clients in,
\* under the same policies, with the same upstream tokens, whatever the rows.
THEOREM MigrationIsFaithful == Spec => MigrationKeepsAccess
<1>1. ASSUME IInv, Next, version = 2, version' = 3 PROVE MigratePolicies
  <2>1. MigrateSchema(1) \/ MigrateSchema(2) \/ MigrateSchema(4) \/ MigrateSchema(5)
           => version' \in {1, 2, 4, 5}
    BY Zenon DEF MigrateSchema, Applies
  <2>2. Rollback => version' = version - 1
    BY RollbackVersion
  <2>3. Statement \/ Expire => version' = version
    BY StatementKeepsSchema DEF schema
  <2> QED
    BY <1>1, <2>1, <2>2, <2>3 DEF Next, Migrate
<1>2. IInv /\ IInv' /\ [Next]_vars => [version = 2 /\ version' = 3 => Access' = AccessByPolicy]_vars
  BY <1>1, MigrationAccess
<1> QED
  BY <1>2, Invariant, PTL DEF Spec, MigrationKeepsAccess

=============================================================================
