# A TLA+ verification of abac-proxy

abac-proxy is a reverse proxy between agents and upstream APIs. An agent
presents a proxy token; the proxy finds the policy of that token for the
requested host, forwards the request with the policy's own credential, and
denies, passes on or filters the response. This directory models the parts of
the program in which order, interleaving or the choice between overlapping
rules matters, checks them with TLC and proves the main results with TLAPS.
Paths below are relative to the root of the repository.

## The system

| Part | Source | State it keeps | Operations |
| --- | --- | --- | --- |
| proxy server | `internal/proxy/proxy.go` | none of its own; each request carries a context | `ServeHTTP`, Rewrite hook `setUpstreamAuth`, `modifyResponse`, `Start` |
| interceptor | `internal/proxy/interceptor/abac.go` | the request context (`tokenValid`, policy, default action); the flag | `InterceptRequest`, `InterceptResponse` |
| policy engine | `internal/policy/engine/engine.go` | none | `GetPolicyData`, `FindMatchingRule`, `ApplyFilter` |
| path matcher | `internal/policy/matcher/matcher.go` | none | `Matches`, `MatchesWithMethod` |
| response filter | `internal/policy/filter/filter.go` | none | `Apply` (include, exclude) |
| allowlist | `internal/proxy/allowlist/allowlist.go` | entries, fixed at startup | `FromEntries`, `FindHost` |
| file api | `internal/api/fs/fs.go` | groups and hosts, fixed at startup | `New`, `GetPolicyData`; `Invalidate*` do nothing |
| database api | `internal/api/db/db.go` | cache map, RWMutex | `GetPolicyData`, `loadFromDB`, `Invalidate`, `InvalidateAll` |
| queries | `internal/db/*.sql.go` | the rows | sqlc statements |
| pool | `internal/db/pool.go` | connections | `WithTx` |
| schema | `db/schema.sql`, `infra/migrations` | tables, indexes | migrations up and down |
| token hashing | `internal/auth/token_hash.go` | none | `HashToken` (the identity), `ValidateToken` (equality) |
| startup | `cmd/proxy/cmd/config.go`, `root.go` | options | `Populate`, `Validate`, `Run` |
| logging | `internal/log/log.go` | the logger | - |
| scripts, CI | `run.sh`, `scripts`, `.github` | the rows that `add-policy.sh` inserts | `add-policy.sh` |

How they interact. `net/http` runs `ServeHTTP` in one goroutine per request.
It asks the allowlist, then the interceptor, which asks the engine, which asks
`api.Api` for the group of the token. The result goes into the request's
context. `httputil.ReverseProxy` calls the Rewrite hook, exchanges the request
with the upstream, and calls `modifyResponse`, which reads the same context.
The goroutines share two things: the pointers that `api.Api` hands out and, in
the database implementation, one map under one `sync.RWMutex`, whose write lock
is held while the database is queried.

What is hard, and what correctness means for each part:

* *Requests.* The decision on a response is taken long after the policy was
  looked up, and the table may have changed in between. Credential, rules and
  default action must come from one lookup. The first matching rule must
  decide, then the group's default action, then the flag. No error branch may
  leak the body that it could not filter.
* *The cache.* Between the read unlock and the write lock anything may happen.
  An invalidation during a query must not be undone by its result. A failed
  query must free the lock and leave no entry. Entries must age.
* *The file loader and startup.* Several files, one allowlist; a failure half
  way must leave nothing.
* *Matcher and filter.* Small recursive algorithms whose corner cases (trailing
  slashes, arrays in arrays, a field beside a wildcard) are hard to enumerate.
* *Transactions.* A statement, the function, the rollback, the commit or the
  connection may fail, each at any time: the writes must be all there or all
  gone, and the connection must not return to the pool with them.
* *Store and migrations.* Who is let in depends on rows of four tables that
  separate statements change; migrations move those rows and can be undone.

PROJECT.json lists the hazards at their lines.

## The modules

**Policy** has the data and the pure lookups. A host has a spelling (the text
of a baseUrl or a Host header) and a canonical name (`Canonical`, the lower
case); an *endpoint* is a path with a method, and a rule holds the set of
endpoints it matches. `FindHost` is the allowlist, `IsAllowlistOf` what the
file loader builds for it, `GetPolicyData` and `FindMatchingRule` are the
engine's, `DefaultAction` the interceptor's. A credential is a value or
`NoCred`; the action of a rule is any word, since nothing in the code restricts
it (`"other"` stands for all but allow, deny and none).

**AbacProxy** EXTENDS Policy and is the life of a request on each connection:

| Action | Code |
| --- | --- |
| `Arrive` | a client sends a request |
| `RejectHost` | `ServeHTTP`, host not in the allowlist |
| `InterceptRequest` | `ServeHTTP` and `InterceptRequest`: context attached |
| `Forward` | Rewrite hook `setUpstreamAuth`, request sent |
| `UpstreamAnswer`, `TransportError` | the transport; an error is a 502 |
| `DenyInvalidToken`, `DenyByPolicy`, `PassThrough`, `RejectNonJson`, `FilterResponse` | the branches of `InterceptResponse` |
| `ChangePolicies` | what `api.Api` answers changes |

`table` is what `api.Api` answers from, `ctx[c]` the context values, `out[c]`
the request as the upstream sees it, `reply[c]` the upstream's response and
`resp[c]` the client's. `tableAt[c]` is a history variable: the table at the
lookup. With the file implementation the table never changes (`Tables` has one
element) and no group has a default action, because the file format has no such
field; the runs use two tables, as behind the database implementation.

**PolicyApi** is the abstract specification of `api.Api` over a database that
others change: a call is answered with a version of the row no older than
anything that an earlier call was answered with or refused for, and no older
than the row at the last invalidation. It has no locks, clocks or queries.

**PolicyCache** is `dbApi` in detail, one action per step at which a goroutine
can be interrupted: `RLock`, `Look` (check and `RUnlock`; a reader's section
reads only, so it is one step), `Announce` and `Acquire` (the two halves of
`RWMutex.Lock`: new readers are kept out, then the old ones leave),
`RecheckHit`, `Ask`, `Evaluate`, `Store`, `RefuseRow`, `QueryFails`,
`BeginInvalidate`, `Delete`. Around it `ChangeRow` (somebody changes, revokes
or restores a row, or it expires) and `Tick`. A row is good, or bad: its rules
do not parse, the validator refuses, or it is gone. Its contents are numbered
and stamped with the time they came. The detached goroutine that updates
`last_used_at` changes nothing that is read. `HashToken` is the identity, so a
token stands for its hash; its error path returns before any state is touched.
`floor` is a history variable shared with PolicyApi. `Api == INSTANCE PolicyApi
WITH log <- apiLog` is the refinement mapping: the log without its times.

**Startup** EXTENDS Policy and is the program from its options to a server that
listens, with the files changing under it (`ChangeFile`):

| Action | Code |
| --- | --- |
| `Validate` | `Validate` of `config.go`, with the listing of the directory |
| `Run` | `Run`, and database mode, which ends in an error |
| `ReadFile` | one turn of the loop of `fs.New`: read, parse, validate, look for the token |
| `LoadPolicy` | one turn of its inner loop: host, allowlist, environment variable |
| `AddGroup` | the end of the turn |
| `FromEntries`, `Start` | `runFileMode` after `New`: allowlist, `ListenAndServe` |

The directory may be text that is no pattern, which `Glob` refuses. A file is
absent, unreadable (which includes JSON that does not fit) or a record
with the fields that `policyGroupFile` has, and `defaultAction`, which it has
not. `read` is what the files read so far had: the loop's index, its current
file and its history in one. `groups` and `hosts` are the fields of `fileApi`;
`groups` is the `table`, and `hosts` the `Entries`, that AbacProxy starts from.
An error carries no state: the program ends, so what New had made by then is
never seen.

**Filter** is `Apply` of the response filter, for one response: `data` and
`filter` are chosen, `ApplyFilter` gives `result`. A document is a null, a value,
an object or an array, nested at most `MaxDepth` deep (`Documents`; encoding/json
has such a limit, too). What an object has is a function on all keys that is
`Absent` where it has none. The tree of an include list is the set of what is
left of the fields at a node (`Child`, `IsTerminal`). `FilterWithTree` and the
function `exclude` of `ExcludeRecursive` are recursive functions on documents, as
in the code; `match[j][i]` of `MatchPathSegments` is the code's call with these
indices. The properties are written on the paths that lead to the values of a
document (`Leaves`, `Covers`, `Denotes`) and share nothing with the operators but
the parsing of a field. An object key may contain dots, which an exclude list
reads as a path (`Split`). Two keys are left out (`FilterAssumption`): the empty
one, because `excludeRecursive` cannot tell its path from that of the top of the
document (`filter.go:140`), and `[]`, which stands for an array in the paths.
Field text is a sequence of names, `*`, `[]` and dots in which no two names
stand side by side (`a*` is a name of its own).

**Matcher** and **Allowlist** are the two comparisons of texts that Policy takes
as data: the route and method of a rule with those of a request, and an entry of
the allowlist with a host. A text is a sequence of characters. **Routing** asks
them one question and answers it, so that their properties, written on the texts
and without their operators, are invariants. `MCAbacProxy` assumes, and TLC
evaluates, that the sets by which its rules and entries stand for texts are what
Matcher and Allowlist compute for such texts (`EndpointsAsInMatcher`,
`HostsAsInAllowlist`); that Policy's `FindHost` abstracts Allowlist's is also
proved, for all texts.

**AtomicWrites** is what a caller of `Store.WithTx` may rely on: writes take
effect at once or not at all, all of them when the call returns nil, none when
the function failed. A failed commit promises no more than "at once or not at
all": it may even come later.

**WithTx** is that function over the pool and the server it uses. `Begin` waits
for one of `MaxConns` connections; the function writes rows in any order
(`Exec`), and a row that another session has written is locked; then
`FnReturnsNil` and `Commit`, or `FnReturnsError` and `Rollback`. A statement may
fail (`ExecFails`), which aborts the transaction although the function may go
on; a connection may break (`Disconnect`, `RollbackFails`, `CommitLost`,
`CommitAnswerLost`), and the server finds out later (`Notice`), perhaps after it
has read the COMMIT (`CommitLate`); deadlocks are broken (`BreakDeadlock`). A
session of the server and a connection of the pool are one thing here, until the
connection breaks. What pgx and PostgreSQL do is marked external in the map. The
refinement mapping takes a call to have taken effect when it is `committed`.

**Store** is the database behind it all: the four tables, one action per
statement of `internal/db/*.sql.go` that changes what a token gives access to,
and one per migration and rollback. A statement that the schema or a constraint
refuses changes nothing, so constraints are guards (`MayBeActive` for the
unique index, the reference in `DeleteUpstreamCredential`). `objects` is the
schema there is and `version` the migrations recorded as applied; they are kept
apart because they can come apart. `scripts/add-policy.sh` inserts a credential
without a `header_string`, so it can run before that column is there
(`AddCredential`); what it inserts before `20260316000002` that migration
keeps. `Access` is what `GetDownstreamTokenByHash` means: the hash that is let
in, the policy that applies, and the upstream token. Names of rows are left
out, so is the refusal of a second row of the same name; the join on
`migrated-<id>` finds the one credential made for the policy.

**AbacProxyProofs**, **PolicyCacheProofs**, **StartupProofs**, **FilterProofs**,
**RoutingProofs**, **WithTxProofs** and **StoreProofs** hold the proofs, and
**SequenceLemmas** the induction and recursion that they share; **MCAbacProxy**,
**MCPolicyCache**, **MCStartup**, **MCFilter**, **MCRouting**, **MCWithTx** and
**MCStore** give the constants their values. Definitions commented
"Faulty variant" are plausible bugs of the definition that follows them. No
action uses them; putting one in the place of its original breaks the property
that PROJECT.json names beside it.

## The runs

| Run | Question | Result |
| --- | --- | --- |
| `proxy` | Do two requests that interleave with a change of all policies get what the policies looked up first say, no more and no less, and does each credential travel only where it belongs? | holds |
| `cache` | Three goroutines, one token: no race on the map, no double load, bounded staleness, PolicyApi implemented | holds |
| `cache_two_tokens` | Calls and invalidations for two tokens, and `InvalidateAll`, on one map; does every call return although the callers never stop? | holds |
| `startup` | Every combination of options with two files, of which each may be complete, faulty in one way, or change at any time: what is served, what is refused, what is in the allowlist? | holds |
| `filter` | Include and exclude lists of up to two fields on documents of up to three levels: does what stays, and what goes, follow from the fields and the paths of the document? | holds |
| `routing` | Does a rule match exactly the paths its route stands for, and is a host that an entry names accepted? | holds |
| `store` | Statements, migrations and expiries in every order: who is let in, and why no longer? | holds |
| `withtx` | Three transactions for two connections and the same rows, everything failing: all or nothing, no connection left with a transaction, every call returns? | holds |
| `doc_BlockedNeverForwarded` | `README.md:268` "anything not explicitly allowed is blocked" | violated: a denied request is sent upstream, its response is replaced |
| `doc_OnlyAllowIsServed` | `README.md:268` again, and `:182`: an action is "`allow` or `deny`" | violated: a rule whose action is another word, a misspelled one say, lets the answer through (`abac.go:111`) |
| `doc_ListedIsRemoved` | `README.md:213` "remove listed fields" | violated: an exclude field that ends in `[]` removes nothing (`filter.go:181`) |
| `doc_RollbackWorks` | `20260316000001_add_credential_tables.sql:38`, the `migrate:down` that drops the tables its `migrate:up` made | violated: rolling `20260316000002` back has dropped them already (its lines 54 and 55), so neither that rollback nor the migration itself can run again |

The `doc_` runs say where the documentation and the code differ; whether the
words or the code should change is for the maintainers. Smaller differences were
met and have no run of their own:

* "Wildcard subdomain support" (`README.md:51`) ends at the allowlist: it accepts
  what a wildcard covers, but the engine compares hosts for equality and finds no
  policy (`engine.go:50`), so the request is sent and its answer becomes a 403.
* `*.example.com` accepts `notexample.com` and `xample.com`, which are no
  subdomains (`README.md:270`): the suffix is tested without its dot, and
  `suffix[1:]` cuts its first letter (`allowlist.go:73`, `SuffixAccepts`). An
  entry `*.` ends the search in a panic.
* A `defaultAction` in a file, which `README.md:229` lets come first, is not read
  (`fs.go:13`), so the flag decides (`AddGroup`).
* `ServeHTTP` takes the scheme from the allowlist, so a baseUrl whose host
  another one named before is called with that one's scheme (`fs.go:67`,
  `proxy.go:89`; `AllowlistInOrder` says which entry that is).
* A JSON answer with a Content-Encoding becomes a 500 where a rule filters
  (`abac.go:141`; `FilterBody`).
* An include list does not always "keep" what it lists (`README.md:212`): with
  `*.a` and `b.b`, b.a is dropped, since a name hides the wildcard beside it
  (`filter.go:49`; `Overridden`), and with `a[]` the objects and arrays in the
  list a are (`filter.go:82`; `StopsAtItems`).
* The route `/a/*` does not match `/a/`, whose slash is removed first
  (`matcher.go:60`), but `/*` matches `/`; `//` in a path is a segment too.
* `UpdateUpstreamCredential` cannot take an expiry away, as NULL keeps what is
  there, and `CreateUpstreamCredential` cannot set `header_string`; rolling back
  `20260316000004` loses it.
* `run.sh --seed` runs `infra/seed.sql`, which is not in the repository.

### What the properties say

`OnlyWhatPolicyAllows` and `AllowedIsServed` are two directions of one
statement, written on the table and the request without the operators of the
model: the *governing* policy is the first for the host, the *deciding* rule
the first that matches, and `Entitles` says which body they give, by the word
`allow` only. `OnlyWhatPolicyAllows` leaves out policies whose deciding word is
none of the two documented ones (`ActionIsKnown`); `doc_OnlyAllowIsServed` is
about them.
`CredentialConfined` ties the credential in the request to the policy that
decides on the response. `AgentTokenReplaced` is about headers: the client's
Authorization is gone and the credential is in exactly one.

`BoundedStaleness` is weaker than "no older than the TTL", because the code
starts the clock of an entry when the query has been answered (`db.go:73`), not
when the row was read: the latency of a query comes on top. `ImplementsApi`
contains that an invalidation is not undone by a query under way and that calls
never go back in time.

`ServesWhatItRead` and `FailsForAReason` are again two directions: a server
serves all files it was given, each as it was when it was read, and a start
that fails has a cause in a file, or in options that may be refused
(`Refusable`). `AllowlistServesPolicies` relates what two components are given:
whatever the engine can find, the allowlist lets through, and the reverse; it
leaves out wildcard hosts, about which they disagree. `AllowlistInOrder` says
which list the loop builds over all files, without the loop (`IsAllowlistOf`);
it determines the list, and the instances of AbacProxy have the list of their
policies.

`RouteStandsForItsPaths` says what a route means without splitting it: the path
is the route with a text without slashes in the place of each star.
`NamedHostsAreAccepted` bounds what an entry accepts from below: the domain and
everything under it. From above nothing holds but what the comparison says.

`ConnectionsComeBackClean` is about the pool, `ImplementsAtomicWrites` about the
rows, and neither gives the other: a transaction left open in the pool has
written nothing yet. `IInv`, here and in Store, is checked because it is what the
proofs rest on.

`AccessChangesOnPurpose` looks at both ends of a step: new access comes from
issuing a token, activating a policy or updating a credential only, and access
is lost by withdrawing one of these or by time only; inserting a policy or a
credential, deleting a credential, and the migrations after `20260316000002`
change nothing for clients. Since `Access` holds every row the query may
choose, it covers two live rows of one hash. `MigrationKeepsAccess` compares
what policies gave before `20260316000002` with what the rows give after it.
Before it no statement of this repository reads policies by token; that the
policy's own token was both what clients presented and what went upstream is
read from the migration, which makes both rows from it.

`OnlyListedIsIncluded` bounds an include list from above for all fields, in the
values and in their order; `ExactlyListedIsIncluded` says which values stay, so
also which of a name and a wildcard decides. It asks that no field stops at items
of an array that have more in them. `ExactlyNamedIsExcluded` says exactly what an
exclude list does if none of its fields ends in an array; `doc_ListedIsRemoved`
is about one that does. `FilteredStays` says that filtering twice is
filtering once: what was left out has no part in what stays.

### Bounds

* `Proxy.cfg`: two connections (two handlers share nothing but the table, so a
  third adds no new pair), nine requests that reach every branch, five upstream
  answers, two tables that differ in policies, rules, credentials and default
  actions. The flag is TRUE; the documentation runs have it FALSE, and the
  proofs cover both.
* `Cache.cfg`: three goroutines are the least for a reader, a writer that holds
  the lock and a writer that waits; two contents of the row, the first good or
  not; a TTL of two ticks, so that an entry may be fresh, fresh for the last
  tick, and expired, and a query may last one tick. `CacheTwoTokens.cfg` has two
  goroutines, two tokens, rows that are always good, no clock, and no symmetry,
  since it checks liveness. `MaxVersion` and `MaxTime` only stop the counters.
* `MaxLatency` bounds `Tick` while a query is under way. The code sets no
  timeout of its own on the query, so this is an assumption on the database
  (and the meaning of `BoundedStaleness`: the TTL plus however long that is).
* `Startup.cfg`: two files, since files meet only through their tokens and hosts
  and both can be shared by two; a file is one of two complete ones with hosts in
  common under different schemes, a third with a token again, or faulty in each
  of the ways that the code looks for. The options are all combinations of given
  files, directory (none, one, or no pattern) and database, and ports at the
  limits. One of the complete files sets a default action.
* `Filter.cfg`: two keys and one with a dot, arrays of up to two items, three
  levels; nine fields that mix names, wildcards and arrays, in lists of up to two.
  Two fields are enough for one to hide another, three levels for a list to end
  above, at and below a value. The proofs are for any depth, size and list.
* `Routing.cfg`: paths and routes of up to four characters (slash, star, one
  letter), and of five behind a letter; methods of up to two letters of both
  cases; hosts of up to four characters; all wildcards over up to two, the bare
  one among them, in lists of one and two. Three segments and two dots are enough
  for a star or a suffix to be in front, between and at the end.
* `WithTx.cfg`: three callers, two connections, two rows: two functions wait for
  each other's row while a third call waits for the pool. The function writes
  both rows, in any order, and returns an error at any point, so calls overlap in
  every way; that writes may differ from call to call, and what the rows hold at
  first, matter to no action and are general in the proof. A second function
  takes the liveness check past five minutes.
* `Store.cfg`: one user (no property relates two), two each of credentials,
  policies, tokens and texts: two policies of a user can be active at once or
  share a credential, two tokens can share a hash, and a policy can have two.
  The ids are symmetric. One policy migrated beside a credential of
  `add-policy.sh` is among the cases. After the rollback of `20260316000002` the
  schema is stuck, as `doc_RollbackWorks` says.

Goroutines and tokens are symmetric in the safety runs of the cache.

### Fairness

* `WF(Step(p))`: the Go scheduler runs every goroutine that can run. For
  requests no progress is claimed: the proxy sets no timeout, so an upstream that
  neither answers nor fails, or stops within a body, holds its client for ever.
* `SF(Announce(p))`: a goroutine that waits for the writer's mutex gets it in
  the end although others take it in between. `sync.Mutex` promises this by its
  starvation mode. Weak fairness would not do: the mutex is taken and freed
  again and again.
* `WF(Answer(p))`: the database answers or fails every query.
* `SF(Advance(c))` in WithTx: the pool gives connections to those who wait in
  turn (puddle's queue), and the server gives a row's lock to those who wait in
  turn; other callers come between, so weak fairness would not do. The server
  looks for deadlocks and answers commits and rollbacks, or the connection fails.
  The function itself ends, and may end with an error at any time.
* `WF(Notice \/ CommitLate)`: the server finds out about closed connections (TCP
  keep-alive).
* Nothing is assumed of clients, callers, the rows or the clock.

## The proofs

All proofs are for arbitrary values of the constants under the assumption that
the module states on them: `PolicyAssumption` and `ProxyAssumption` for AbacProxy,
`CacheAssumption` (which asks for a positive TTL; the program uses 15 s) for
PolicyCache, and those named below.

`AbacProxyProofs`: `TypeCorrect`, `NothingBeyondPolicy` (OnlyWhatPolicyAllows),
`AllowedAreServed`, `CredentialsConfined`, `AgentTokensReplaced`. None of the
properties is inductive: each says something at the end of a request about a
table that was read at its beginning. The invariant `IInv` says, for each
connection, how far its request has come (`ProgressInv`), that the context is
still what `InterceptRequest` computed from `tableAt` (`ContextInv`), that what
was sent is what `setUpstreamAuth` makes of request and context (`OutInv`), and
that the response is one of the decisions of `InterceptResponse` (`ReplyInv`).
A step of one connection leaves the others' variables alone (`ConnFrame`); that
`ChangePolicies` does not disturb `ContextInv` is the heart of it. The rest is
about data: the lookups return the first element that qualifies
(`GetPolicyDataIsFirst`, `FindMatchingRuleIsFirst`, from the least element of a
set of naturals), so a context holds the governing policy
(`RequestContextGoverns`) and the decision is the one that `Entitles` states
(`DecisionEntitles`).

`PolicyCacheProofs`: `TypeCorrect`, `MapIsRaceFree`, `LoadsAreNotDuplicated`,
`StalenessIsBounded` and `CacheImplementsApi`. The invariant `IInv` of
PolicyCache has four parts. `LockInv`: the writer is the goroutine between
`Announce` and `Unlock`, and no reader is in while it works on the map.
`CallInv`: where a goroutine is agrees with what it called, and the floor it
was promised is not above the present one. `QueryInv`: a query is for a token
without a fresh entry, and what it read is no older than the floor; this stays
true because nobody else can read or write the map (`OneAtATime`).
`CacheInv`: a fresh entry is no older than the floor, and was present at most
`MaxLatency` before it was stored. The refinement proof maps `Look` with a hit,
`RecheckHit` and `Store` to `Serve`, `RefuseRow` to `Refuse`, `QueryFails` to
`Fail`, `Delete` to `EndInvalidate`, and every step of the lock, the query and
the clock to a stutter.

`StartupProofs`: `TypeCorrect`, `ServedAsRead` (ServesWhatItRead),
`FailuresHaveReasons` (FailsForAReason), `ServedPoliciesAreReachable`
(AllowlistServesPolicies) and `AllowlistIsInOrder` (AllowlistInOrder). The
properties speak of the end of a loop, the invariant of its middle: `FilesInv`
says that the groups are those of the files New is through with, `CurrentInv`
that the current file is well-formed and its policies so far are its own,
`HostsInv` that the allowlist and the policies so far cover each other.
`PhaseInv` carries the count of files. `OrderInv`, proved on top of them, says
that the allowlist is at every point the one of the policies loaded so far, in
their order (`LoadedInOrder`): the end of a file moves its policies from the
current ones to those of the files done and changes nothing else, and
`AddHostInOrder` is one turn of the inner loop. No assumption is made on what
the files have, so the theorems hold whatever is written to them meanwhile.
`TypeCorrect` gives `IsTable(groups)`, which ProxyAssumption asks of the tables
of AbacProxy. `StartupAssumption` says how the constants are coded.

`WithTxProofs`: `Invariant` (IInv), `TypeCorrect`, `TransactionsAreEnded`
(ConnectionsComeBackClean) and `CallsAreAtomic` (ImplementsAtomicWrites).
`HeldInv` ties a call's place to the state of its session. `DraftInv` says that
an open transaction has written what its function has sent, and that this is
everything when the function has returned nil; so `Commit`, which looks only at
the session, applies the call's writes in full, whatever statements failed
before, since a failed one makes the transaction `aborted`. In the refinement
`Commit` is `Apply`, the returns are `Return`, `CommitLost` is `GiveUp`,
`CommitLate` and `Notice` are `ApplyLate` and `DropLate`, and all that happens
inside the transaction is a stutter. `TxAssumption` says only that the two null
values are no values, and that functions write and rows hold values.

`StoreProofs`: `Invariant` (IInv), `TypeCorrect`, `AccessOnPurpose`
(AccessChangesOnPurpose) and `MigrationIsFaithful` (MigrationKeepsAccess).
`TypeOK` says that rows refer to rows there are, but not which statements can
run: a policy stored with its token after the third migration would have no
credential. `SchemaInv` says which tables and columns there are at most after
each migration, and so rules that out, although a rollback may leave less than
it should (`doc_RollbackWorks`); `RowsInv` says that there are no rows of a
table that no migration has made yet, so that the rollbacks that drop one lose
no reference. On top of it, `Access` is what the tokens open (`Opens`,
`Entry`); a step that leaves what every token leads to alone leaves `Access`
alone, and each statement is compared with that. `MigratedToken` says what a
token opens after `20260316000002`. `StoreAssumption` says that NULL is no id
of a credential and no text.

`RoutingProofs`: `RoutesStandForTheirPaths` (RouteStandsForItsPaths),
`SlashesDoNotMatter` (SlashesAtTheEndsDoNotMatter), `NamedHostsAreServed`
(NamedHostsAreAccepted)
and `AllowlistIsAbstracted`. The invariant (`AnswerInv`) is simple, since one
question is answered: all is in the texts, which may have any length. Splitting is
injective and never empty (`SegmentsInjective`, by induction on the text), so
two texts are equal when their segments are. A route with texts in the place of
its stars has the segments of the route with these texts among them
(`SegmentsOfFilled`, by induction on the prefix of the route, since a star is one
only if the characters on both sides say so); so the segments match if and only
if some filling gives the path (`SegmentsMatchFilled`). For hosts, a wildcard is
"*." and its suffix (`WildcardAndSuffix`), what is left of a host behind a dot is
a suffix of it (`RestIsSuffix`), and the search ends at the first entry that does
not pass the host on (`FindHostIsFirst`). `AllowlistIsAbstracted` is an instance
of Policy: with the lower case of a text for `Canonical` and the texts that a
wildcard accepts for `Suffixed`, its `FindHost` and the one on texts find the same
entry, so the proxy's modules lose nothing of the allowlist but the bare `*.`,
which panics. `RoutingAssumption` says that the upper case of a letter is its own
upper case, and of which type the constants are.

`FilterProofs`: `NothingUnlistedIsIncluded` (OnlyListedIsIncluded),
`ExactlyWhatIsListedIsIncluded` (ExactlyListedIsIncluded),
`ExactlyWhatIsNamedIsExcluded` (ExactlyNamedIsExcluded) and
`FilteringTwiceIsFilteringOnce` (FilteredStays). The invariant only says that
the result is what `Apply` makes of the document (`Inv`): the proofs are about
the recursion. Documents are made level by level (`DocumentsUnfold`), and what
is inside one is a level lower (`InsideIsNestedLess`), so what passes from what
is inside a document to the document holds for all (`DocumentInduction`), and a
function defined in that way exists (`DocumentRecursion`); so `FilterWithTree`,
`ExcludeRecursive`, `Leaves` and `PartOf` have the values that their
definitions say (the lemmas named `...Unfold...`). An include list: a value
stays below a node if and only if the tree leads to it from there
(`IncludedIsReached`, by induction on the document), and the result is a part of what
was there, since `Without` keeps the order of an array's items
(`WithoutKeepsOrder`); the theorem on what is listed says of the fields what the
tree leads to. An exclude list: a pattern matches the
names of a path if and only if it does not end in an array and, without its
arrays, is as long as the names, or shorter with a star at its end, and agrees
with them (`MatchIsNamed`, by induction from the end of the pattern); so a
value stays if and only if no key on its way is named (`RestIsWhatStays`).
`FilterAssumption` says how documents and keys are coded, and leaves out the
two keys named above.

`SequenceLemmas`: TLAPS cannot apply an induction principle that takes a predicate
as a parameter, so `InductionUpTo` and `InductionOnSequences` speak of the set of
numbers, or sequences, that have a property, and `RecursionExists` of a function
whose every value is made of the one before; `LevelRecursionExists` is the same
for a set that is made level by level. They follow from the least element of a
set of naturals (`MinOfNat`), and so does `FirstPlace`: the first place of a
sequence that qualifies, which is what the lookups of policies, rules and hosts
return. With them the recursive functions `Segments`
and `FlattenSeq` are shown to have the values that their definitions say
(`SegmentsUnfolds`, `FlattenSeqUnfolds`).

TLC checked the invariants on the instances of the runs before they were
proved, and the filter's four properties on the documents of `Filter.cfg`. All
invariants and action properties of the passing runs and both refinements are
proved. Only model-checked: `EveryCallReturns` of the cache and of
transactions, since liveness under fairness is out of the prover's reach, and
the documentation runs, which need a counterexample.

## What is not modelled

* Request bodies and headers other than the Authorization and the credential's;
  a response is JSON or not, readable or not, encoded or not. Upgraded
  connections (101) are not modelled.
* The nil-policy branch of `InterceptResponse`: a valid token always has one.
* AbacProxy knows a filtered body as one value; what is in it is the matter of
  Filter. Texts have the letters, blanks and marks that Routing's bounds name;
  percent-encoding and ports in a host are not among them.
* A function given to `WithTx` that panics: there is no deferred rollback, so its
  connection and locks would stay taken. Nobody calls `WithTx` yet. Reads inside
  a transaction, and so isolation, are not modelled, only what is written.
* The queries that only list rows, which nobody calls (`GetActivePolicyForUser`
  answers with any of several since the unique index is gone), and the update of
  `last_used_at`. `allowlist.New` and `GetHostList` are not used.
* Store and PolicyCache are not composed: `ChangeRow` lets a row change in any
  way, which includes what the statements do.
* How viper merges flags, defaults and environment into the options.
* The database mode of the program does not start yet: `runDBMode` returns an
  error (`cmd/proxy/cmd/config.go:119`) and `GetAllowedHosts` of the database
  api is nil. PolicyCache models the api as it is written, and AbacProxy lets
  its table change as it would behind it, with an allowlist given. Nobody in the
  program calls `Invalidate` yet; the model calls it at any time.
* Logging, `run.sh` and CI.

## Plan

In the order of their weight for the program:

1. (done) `Policy`, `AbacProxy`, `PolicyApi`, `PolicyCache` and their proofs.
2. (done) `Startup`: options, the loop of `fs.New`, the server, and its proofs.
3. (done) `Filter`: include and exclude lists, and its proofs.
4. (done) `Matcher`, `Allowlist` and `Routing`, and their tie to AbacProxy.
5. (done) `WithTx` with its abstract specification and proofs; `Store` with the
   migrations, and its proofs.
6. (left out) A composition of AbacProxy with PolicyApi in the place of `table`.
   The program does not run the two together yet, and the table of AbacProxy
   changes to any other table between any two steps, which includes what the
   cache answers to successive calls; so the theorems on requests hold behind
   it, and those of PolicyCache say how old its answers are. The composition is
   worth writing when `runDBMode` serves requests.
