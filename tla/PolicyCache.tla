---------------------------- MODULE PolicyCache -----------------------------
(***************************************************************************)
(* The database implementation of api.Api (internal/api/db/db.go): a map   *)
(* of cached policy groups under one sync.RWMutex, filled by a query that  *)
(* runs while the mutex is held for writing, and emptied by Invalidate and *)
(* InvalidateAll.  Rows of the database change at any moment, time passes, *)
(* queries fail.                                                           *)
(*                                                                         *)
(* The RWMutex is modelled as the Go library implements it: a writer that  *)
(* asks for it keeps new readers out, waits for the readers that are in,   *)
(* and when it unlocks, the readers that waited go in before any other     *)
(* writer.                                                                 *)
(***************************************************************************)
EXTENDS Integers, Sequences

CONSTANTS
    Token,          \* the tokens, each with a hash of its own
    Caller,         \* the goroutines that call the api
    Row,            \* what a row may be: "good", it serves, or "bad", it is
                    \* not there, revoked, expired, inactive or ill-formed
    TTL,            \* how long an entry is fresh
    MaxVersion,     \* bound: how many contents a row may have in turn
    MaxTime,        \* bound: how far the clock goes
    MaxLatency,     \* bound: how long the database takes to answer a query
    NoOne,          \* no writer
    Absent          \* no entry

Entry == [version: Nat, loadedAt: Nat]

ASSUME CacheAssumption ==
    /\ TTL \in Nat \ {0} /\ MaxTime \in Nat /\ MaxLatency \in Nat
    /\ MaxVersion \in Nat \ {0}
    /\ Row \subseteq {"good", "bad"}
    /\ NoOne \notin Caller
    /\ Absent \notin Entry

VARIABLES
    now,            \* the clock
    log,            \* log[t]: the contents of the row of t, and since when
    cache,          \* cache[t]: the entry under the hash of t
    writer,         \* who has, or waits for readers to leave, the write lock
    pc,             \* pc[p]: where p is
    call,           \* call[p]: what p called, as in PolicyApi
    query,          \* query[p]: when p sent its query, which version it read
    ret,            \* ret[p]: the version p's last call returned, 0: an error
    floor           \* history, as in PolicyApi

vars == <<now, log, cache, writer, pc, call, query, ret, floor>>

Waiting == {"rlock", "parked", "wlock", "drain"}
Writing == {"recheck", "query", "answered", "delete"}
Place   == {"idle", "look"} \union Waiting \union Writing

Readers == {p \in Caller : pc[p] = "look"}

Idle == [op |-> "idle", tokens |-> {}, low |-> 0]
NoQuery == [asked |-> 0, seen |-> 0]

Larger(m, n) == IF m < n THEN n ELSE m

Init ==
    /\ now = 0
    /\ log \in [Token -> {<<[row |-> r, from |-> 0]>> : r \in Row}]
    /\ cache = [t \in Token |-> Absent]
    /\ writer = NoOne
    /\ pc = [p \in Caller |-> "idle"]
    /\ call = [p \in Caller |-> Idle]
    /\ query = [p \in Caller |-> NoQuery]
    /\ ret = [p \in Caller |-> 0]
    /\ floor = [t \in Token |-> 0]

-----------------------------------------------------------------------------
(* sync.RWMutex                                                            *)

Goto(p, place) == pc' = [pc EXCEPT ![p] = place]

\* RLock: goes in when no writer has the lock or waits for it, else is parked.
RLock(p) ==
    /\ pc[p] = "rlock"
    /\ Goto(p, IF writer = NoOne THEN "look" ELSE "parked")
    /\ UNCHANGED <<now, log, cache, writer, call, query, ret, floor>>

\* Lock, first part: one writer at a time announces itself.
Announce(p) ==
    /\ pc[p] = "wlock"
    /\ writer = NoOne
    /\ writer' = p
    /\ Goto(p, "drain")
    /\ UNCHANGED <<now, log, cache, call, query, ret, floor>>

\* Lock, second part: the readers that were in have left.
Acquire(p) ==
    /\ pc[p] = "drain"
    /\ Readers = {}
    /\ Goto(p, IF call[p].op = "get" THEN "recheck" ELSE "delete")
    /\ UNCHANGED <<now, log, cache, writer, call, query, ret, floor>>

\* Unlock, and the call returns: parked readers go in.
UnlockAndReturn(p) ==
    /\ writer' = NoOne
    /\ pc' = [q \in Caller |-> IF q = p THEN "idle"
                               ELSE IF pc[q] = "parked" THEN "look" ELSE pc[q]]
    /\ call' = [call EXCEPT ![p] = Idle]
    /\ query' = [query EXCEPT ![p] = NoQuery]

-----------------------------------------------------------------------------
(* GetPolicyData                                                           *)

Get(p, t) ==
    /\ pc[p] = "idle"
    /\ Goto(p, "rlock")
    /\ call' = [call EXCEPT ![p] = [op |-> "get", tokens |-> {t}, low |-> floor[t]]]
    /\ ret' = [ret EXCEPT ![p] = 0]
    /\ UNCHANGED <<now, log, cache, writer, query, floor>>

\* Faulty variant of Fresh: an entry lives one tick longer.
FreshInclusive(t) == cache[t] # Absent /\ now - cache[t].loadedAt <= TTL

Fresh(t) == cache[t] # Absent /\ now - cache[t].loadedAt < TTL

\* The cached group is what the call returns.
ReturnCached(p, t) ==
    /\ ret' = [ret EXCEPT ![p] = cache[t].version]
    /\ floor' = [floor EXCEPT ![t] = Larger(@, cache[t].version)]

\* Under the read lock: a fresh entry answers, else the lock is exchanged for
\* the write lock, and is free in between.
Look(p, t) ==
    /\ pc[p] = "look" /\ call[p].tokens = {t}
    /\ \/ /\ Fresh(t)
          /\ Goto(p, "idle")
          /\ call' = [call EXCEPT ![p] = Idle]
          /\ ReturnCached(p, t)
       \/ /\ ~Fresh(t)
          /\ Goto(p, "wlock")
          /\ UNCHANGED <<call, ret, floor>>
    /\ UNCHANGED <<now, log, cache, writer, query>>

\* Under the write lock: somebody else may have filled the entry meanwhile.
RecheckHit(p, t) ==
    /\ pc[p] = "recheck" /\ call[p].tokens = {t}
    /\ Fresh(t)
    /\ ReturnCached(p, t)
    /\ UnlockAndReturn(p)
    /\ UNCHANGED <<now, log, cache>>

\* Faulty variant of Ask: the entry is not looked at again.
AskAnyway(p, t) ==
    /\ pc[p] = "recheck" /\ call[p].tokens = {t}
    /\ query' = [query EXCEPT ![p].asked = now]
    /\ Goto(p, "query")
    /\ UNCHANGED <<now, log, cache, writer, call, ret, floor>>

\* Faulty variant of Ask: the lock is not held during the query.
AskUnlocked(p, t) ==
    /\ pc[p] = "recheck" /\ call[p].tokens = {t}
    /\ ~Fresh(t)
    /\ query' = [query EXCEPT ![p].asked = now]
    /\ writer' = NoOne
    /\ pc' = [q \in Caller |-> IF q = p THEN "query"
                               ELSE IF pc[q] = "parked" THEN "look" ELSE pc[q]]
    /\ UNCHANGED <<now, log, cache, call, ret, floor>>

\* loadFromDB sends GetDownstreamTokenByHash; the write lock stays held.
Ask(p, t) ==
    /\ pc[p] = "recheck" /\ call[p].tokens = {t}
    /\ ~Fresh(t)
    /\ query' = [query EXCEPT ![p].asked = now]
    /\ Goto(p, "query")
    /\ UNCHANGED <<now, log, cache, writer, call, ret, floor>>

\* The database evaluates the query.
Evaluate(p, t) ==
    /\ pc[p] = "query" /\ call[p].tokens = {t}
    /\ query' = [query EXCEPT ![p].seen = Len(log[t])]
    /\ Goto(p, "answered")
    /\ UNCHANGED <<now, log, cache, writer, call, ret, floor>>

\* Faulty variant of QueryFails: the query is sent again until it succeeds.
QueryRetried(p) ==
    /\ pc[p] \in {"query", "answered"}
    /\ Goto(p, "recheck")
    /\ UNCHANGED <<now, log, cache, writer, call, query, ret, floor>>

\* The query fails: the database is away, or the context of the call ended.
QueryFails(p) ==
    /\ pc[p] \in {"query", "answered"}
    /\ UnlockAndReturn(p)
    /\ UNCHANGED <<now, log, cache, ret, floor>>

\* Faulty variant of Store: loadedAt is not set to the present.
StoreBornExpired(p, t) ==
    /\ pc[p] = "answered" /\ call[p].tokens = {t}
    /\ log[t][query[p].seen].row = "good"
    /\ cache' = [cache EXCEPT ![t] = [version |-> query[p].seen,
                                     loadedAt |-> now - TTL]]
    /\ ret' = [ret EXCEPT ![p] = query[p].seen]
    /\ floor' = [floor EXCEPT ![t] = Larger(@, query[p].seen)]
    /\ UnlockAndReturn(p)
    /\ UNCHANGED <<now, log>>

\* The row is there, its token is valid and its rules parse: a goroutine is
\* started to update last_used_at, and the group is cached from now.
Store(p, t) ==
    /\ pc[p] = "answered" /\ call[p].tokens = {t}
    /\ log[t][query[p].seen].row = "good"
    /\ cache' = [cache EXCEPT ![t] = [version |-> query[p].seen, loadedAt |-> now]]
    /\ ret' = [ret EXCEPT ![p] = query[p].seen]
    /\ floor' = [floor EXCEPT ![t] = Larger(@, query[p].seen)]
    /\ UnlockAndReturn(p)
    /\ UNCHANGED <<now, log>>

\* No row, or one that is no use: an error, and the entry stays as it is.
RefuseRow(p, t) ==
    /\ pc[p] = "answered" /\ call[p].tokens = {t}
    /\ log[t][query[p].seen].row # "good"
    /\ floor' = [floor EXCEPT ![t] = Larger(@, query[p].seen)]
    /\ UnlockAndReturn(p)
    /\ UNCHANGED <<now, log, cache, ret>>

-----------------------------------------------------------------------------
(* Invalidate and InvalidateAll                                            *)

\* Faulty variant of BeginInvalidate: the map is changed without the lock.
InvalidateUnlocked(p, T) ==
    /\ pc[p] = "idle"
    /\ Goto(p, "delete")
    /\ call' = [call EXCEPT ![p] = [op |-> "invalidate", tokens |-> T, low |-> 0]]
    /\ ret' = [ret EXCEPT ![p] = 0]
    /\ UNCHANGED <<now, log, cache, writer, query, floor>>

BeginInvalidate(p, T) ==
    /\ pc[p] = "idle"
    /\ Goto(p, "wlock")
    /\ call' = [call EXCEPT ![p] = [op |-> "invalidate", tokens |-> T, low |-> 0]]
    /\ ret' = [ret EXCEPT ![p] = 0]
    /\ UNCHANGED <<now, log, cache, writer, query, floor>>

\* Faulty variant of Delete: InvalidateAll drops a copy of the map.
DeleteOneOnly(p) ==
    /\ pc[p] = "delete"
    /\ cache' = [t \in Token |-> IF call[p].tokens = {t} THEN Absent ELSE cache[t]]
    /\ floor' = [t \in Token |-> IF t \in call[p].tokens THEN Len(log[t]) ELSE floor[t]]
    /\ UnlockAndReturn(p)
    /\ UNCHANGED <<now, log, ret>>

\* delete, or a new map; defer Unlock.
Delete(p) ==
    /\ pc[p] = "delete"
    /\ cache' = [t \in Token |-> IF t \in call[p].tokens THEN Absent ELSE cache[t]]
    /\ floor' = [t \in Token |-> IF t \in call[p].tokens THEN Len(log[t]) ELSE floor[t]]
    /\ UnlockAndReturn(p)
    /\ UNCHANGED <<now, log, ret>>

-----------------------------------------------------------------------------
(* The world around.  The goroutine that updates last_used_at (db.go:132)   *)
(* writes what nothing here reads: it is a statement of Store.              *)

\* Somebody changes, revokes or restores the row of t, or it expires.
ChangeRow(t) ==
    /\ Len(log[t]) < MaxVersion
    /\ \E r \in Row : log' = [log EXCEPT ![t] = Append(@, [row |-> r, from |-> now])]
    /\ UNCHANGED <<now, cache, writer, pc, call, query, ret, floor>>

\* Time passes, but no query takes longer than MaxLatency.
Tick ==
    /\ now < MaxTime
    /\ \A p \in Caller : pc[p] \in {"query", "answered"} => now - query[p].asked < MaxLatency
    /\ now' = now + 1
    /\ UNCHANGED <<log, cache, writer, pc, call, query, ret, floor>>

\* What a goroutine does by itself once it has called.
Step(p) ==
    \/ RLock(p)
    \/ Acquire(p)
    \/ \E t \in Token :
        Look(p, t) \/ RecheckHit(p, t) \/ Ask(p, t) \/ Store(p, t) \/ RefuseRow(p, t)
    \/ Delete(p)

\* What the database does for it.
Answer(p) == QueryFails(p) \/ \E t \in Token : Evaluate(p, t)

Next ==
    \/ \E p \in Caller :
        \/ \E t \in Token : Get(p, t) \/ BeginInvalidate(p, {t})
        \/ BeginInvalidate(p, Token)
        \/ Step(p)
        \/ Announce(p)
        \/ Answer(p)
    \/ \E t \in Token : ChangeRow(t)
    \/ Tick

Spec == Init /\ [][Next]_vars

\* Goroutines run; a writer that waits gets the mutex in the end although
\* others take it in between (the starvation mode of sync.Mutex); the database
\* answers or fails every query.
Fairness ==
    \A p \in Caller : WF_vars(Step(p)) /\ SF_vars(Announce(p)) /\ WF_vars(Answer(p))

FairSpec == Spec /\ Fairness

-----------------------------------------------------------------------------
(* Properties *)

TypeOK ==
    /\ now \in 0..MaxTime
    /\ log \in [Token -> Seq([row: Row, from: 0..MaxTime])]
    /\ cache \in [Token -> Entry \union {Absent}]
    /\ writer \in Caller \union {NoOne}
    /\ pc \in [Caller -> Place]
    /\ call \in [Caller -> [op: {"idle", "get", "invalidate"},
                            tokens: SUBSET Token, low: Nat]]
    /\ query \in [Caller -> [asked: 0..MaxTime, seen: Nat]]
    /\ ret \in [Caller -> Nat]
    /\ floor \in [Token -> Nat]

\* The map is never written while another goroutine reads or writes it (in Go
\* that ends the process), and so at most one query is under way.
NoMapRace ==
    \A p, q \in Caller :
        (p # q /\ pc[p] \in Writing) => pc[q] \notin Writing \union {"look"}

\* Callers that miss together cause one query: a stored entry replaces another
\* only when that one had expired (db.go:62, the second check).
NoDuplicateLoad ==
    [][\A t \in Token :
        (cache[t] # Absent /\ cache'[t] # Absent /\ cache'[t] # cache[t])
            => cache'[t].loadedAt - cache[t].loadedAt >= TTL]_vars

\* A version that a call returns is in the database still, or was replaced
\* less than TTL and the latency of one query ago: the clock of an entry starts
\* when its query is answered (db.go:73), not when the row was read.
BoundedStaleness ==
    [][\A p \in Caller :
        (pc[p] # "idle" /\ pc'[p] = "idle" /\ ret'[p] # 0) =>
            \E t \in call[p].tokens :
                \/ ret'[p] = Len(log[t])
                \/ now - log[t][ret'[p] + 1].from < TTL + MaxLatency]_vars

\* Every call returns, whoever else holds the lock and however often callers
\* come, as long as the database answers or fails every query.
EveryCallReturns ==
    \A p \in Caller : pc[p] # "idle" ~> pc[p] = "idle"

-----------------------------------------------------------------------------
(* The cache implements PolicyApi.                                         *)

apiLog == [t \in Token |-> [i \in 1..Len(log[t]) |-> log[t][i].row]]

Api == INSTANCE PolicyApi WITH log <- apiLog

\* No call is answered from a version older than what an earlier call was
\* answered with or refused for, or than the row at the last invalidation: an
\* entry that a query was loading when Invalidate was called, or that another
\* goroutine is about to return, never outlives it.
ImplementsApi == Api!Spec

-----------------------------------------------------------------------------
(* The inductive invariant of the proofs in PolicyCacheProofs.              *)

\* The writer is the goroutine between Announce and Unlock, and no reader is
\* in while it works on the map.
LockInv ==
    /\ \A p \in Caller : writer = p <=> pc[p] \in {"drain"} \union Writing
    /\ \A p \in Caller : pc[p] \in Writing => Readers = {}

\* What a goroutine does agrees with what it called.
CallInv(p) ==
    /\ pc[p] = "idle" <=> call[p] = Idle
    /\ pc[p] # "idle" => ret[p] = 0
    /\ pc[p] \in {"rlock", "parked", "look", "recheck", "query", "answered"} =>
          call[p].op = "get"
    /\ pc[p] = "delete" => call[p].op = "invalidate"
    /\ pc[p] \in {"wlock", "drain"} => call[p].op # "idle"
    /\ call[p].op = "get" =>
          \E t \in Token : call[p].tokens = {t} /\ call[p].low <= floor[t]

\* Version v of the row of t was the present one at some time from `since` on.
PresentSince(t, v, since) == v = Len(log[t]) \/ log[t][v + 1].from >= since

\* Entries hold good rows; a fresh one is no older than the floor, and was
\* present in the database at most MaxLatency before it was stored.
CacheInv(t) ==
    /\ floor[t] <= Len(log[t])
    /\ cache[t] # Absent =>
          /\ cache[t].version \in 1..Len(log[t])
          /\ log[t][cache[t].version].row = "good"
          /\ cache[t].loadedAt <= now
          /\ PresentSince(t, cache[t].version, cache[t].loadedAt - MaxLatency)
    /\ Fresh(t) => floor[t] <= cache[t].version

\* A query is for a token without a fresh entry, takes at most MaxLatency, and
\* what it read is no older than the floor.
QueryInv(p) ==
    pc[p] \in {"query", "answered"} =>
        /\ query[p].asked <= now /\ now <= query[p].asked + MaxLatency
        /\ \A t \in Token :
              call[p].tokens = {t} =>
                /\ ~Fresh(t)
                /\ pc[p] = "answered" =>
                      /\ query[p].seen \in 1..Len(log[t])
                      /\ floor[t] <= query[p].seen
                      /\ PresentSince(t, query[p].seen, query[p].asked)

IInv ==
    /\ TypeOK
    /\ \A t \in Token : Len(log[t]) > 0
    /\ LockInv
    /\ \A p \in Caller : CallInv(p) /\ QueryInv(p)
    /\ \A t \in Token : CacheInv(t)

=============================================================================
