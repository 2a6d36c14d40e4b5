------------------------------- MODULE WithTx -------------------------------
(***************************************************************************)
(* Store.WithTx (internal/db/pool.go): a function runs in a transaction    *)
(* that is committed when it returns nil and rolled back when it returns   *)
(* an error.  Around it, as the code relies on them: the pool, which hands *)
(* out at most MaxConns connections, and the database server, which locks  *)
(* the rows that a session has written, aborts a transaction in which a    *)
(* statement failed, breaks deadlocks, and rolls back a session whose      *)
(* connection it finds closed.  Statements fail, functions fail, and       *)
(* connections break at any moment.                                        *)
(***************************************************************************)
EXTENDS Naturals, FiniteSets

CONSTANTS
    Caller,         \* the goroutines that call WithTx
    Row,            \* the rows of the database
    Value,          \* what a row may hold
    Unwritten,      \* what a call does not write
    Contents,       \* what the rows hold at first
    Session,        \* the sessions of the database server
    Programs,       \* what functions write when they return nil
    MaxConns,       \* the size of the pool
    NoSession

Writes == [Row -> Value \union {Unwritten}]
Nothing == [r \in Row |-> Unwritten]

ASSUME TxAssumption ==
    /\ Unwritten \notin Value
    /\ NoSession \notin Session
    /\ Programs \subseteq Writes
    /\ Contents \in [Row -> Value]

VARIABLES
    db,             \* db[r]: what row r holds, committed
    pc,             \* pc[c]: where c is
    fn,             \* fn[c]: what c's function is to write
    done,           \* done[c]: the rows it has sent statements for
    held,           \* held[c]: the session of c's connection
    state,          \* state[k]: the transaction of session k
    draft,          \* draft[k]: what it has written, and so has locked
    ret             \* how the last call ended, until the next begins

vars == <<db, pc, fn, done, held, state, draft, ret>>
client == <<pc, fn, done, held, ret>>
server == <<db, state, draft>>

\* "open": a transaction is under way; "aborted": a statement failed, only a
\* rollback is left; "lost": the connection is gone and the server has not
\* noticed; "late": so, and a COMMIT may be on its way.
State == {"free", "open", "aborted", "lost", "late"}

Init ==
    /\ db = Contents
    /\ pc = [c \in Caller |-> "idle"]
    /\ fn = [c \in Caller |-> Nothing]
    /\ done = [c \in Caller |-> {}]
    /\ held = [c \in Caller |-> NoSession]
    /\ state = [k \in Session |-> "free"]
    /\ draft = [k \in Session |-> Nothing]
    /\ ret = "none"

-----------------------------------------------------------------------------
(* The server *)

Written(rows, w) == [r \in Row |-> IF w[r] = Unwritten THEN rows[r] ELSE w[r]]

\* The transaction of session k ends, and its locks are free.
EndTx(k, next) ==
    /\ state' = [state EXCEPT ![k] = next]
    /\ draft' = [draft EXCEPT ![k] = Nothing]

Locks(k, r) == draft[k][r] # Unwritten

\* Sessions that keep the function of c from writing r.
Blockers(c, r) == {k \in Session \ {held[c]} : Locks(k, r)}

\* The server finds the connection closed.
Notice(k) ==
    /\ state[k] \in {"lost", "late"}
    /\ \A c \in Caller : held[c] # k
    /\ EndTx(k, "free")
    /\ UNCHANGED <<db, client>>

\* A COMMIT arrives that nobody waits for.
CommitLate(k) ==
    /\ state[k] = "late"
    /\ db' = Written(db, draft[k])
    /\ EndTx(k, "free")
    /\ UNCHANGED client

-----------------------------------------------------------------------------
(* WithTx *)

Goto(c, place) == pc' = [pc EXCEPT ![c] = place]

\* The call returns; the connection goes back to the pool or is closed.
Return(c, result) ==
    /\ Goto(c, "idle")
    /\ fn' = [fn EXCEPT ![c] = Nothing]
    /\ done' = [done EXCEPT ![c] = {}]
    /\ held' = [held EXCEPT ![c] = NoSession]
    /\ ret' = result

Call(c, w) ==
    /\ pc[c] = "idle"
    /\ Goto(c, "begin")
    /\ fn' = [fn EXCEPT ![c] = w]
    /\ ret' = "none"
    /\ UNCHANGED <<done, held, server>>

\* pool.Begin waits for a connection.
Begin(c, k) ==
    /\ pc[c] = "begin"
    /\ Cardinality({d \in Caller : held[d] # NoSession}) < MaxConns
    /\ state[k] = "free" /\ \A d \in Caller : held[d] # k
    /\ Goto(c, "fn")
    /\ held' = [held EXCEPT ![c] = k]
    /\ state' = [state EXCEPT ![k] = "open"]
    /\ UNCHANGED <<fn, done, ret, db, draft>>

\* The context ends while it waits, or the server refuses.
BeginFails(c) ==
    /\ pc[c] = "begin"
    /\ Return(c, "failed")
    /\ UNCHANGED server

\* The function sends its statement for r.
Sends(c, r) ==
    /\ pc[c] = "fn"
    /\ r \notin done[c] /\ fn[c][r] # Unwritten
    /\ done' = [done EXCEPT ![c] = @ \union {r}]
    /\ UNCHANGED <<pc, fn, held, ret>>

\* Faulty variant of Exec: the queries are made from the pool (New(s.pool)).
ExecOnPool(c, r) ==
    /\ Sends(c, r)
    /\ state[held[c]] = "open"
    /\ Blockers(c, r) = {}
    /\ db' = [db EXCEPT ![r] = fn[c][r]]
    /\ UNCHANGED <<state, draft>>

\* It waits until the row is free.
Exec(c, r) ==
    /\ Sends(c, r)
    /\ state[held[c]] = "open"
    /\ Blockers(c, r) = {}
    /\ draft' = [draft EXCEPT ![held[c]][r] = fn[c][r]]
    /\ UNCHANGED <<db, state>>

\* The statement fails, or the transaction had failed before: the function may
\* go on all the same.
ExecFails(c, r) ==
    /\ Sends(c, r)
    /\ IF state[held[c]] = "lost" THEN UNCHANGED <<state, draft>>
                                  ELSE EndTx(held[c], "aborted")
    /\ UNCHANGED db

\* The connection breaks while the function runs.
Disconnect(c) ==
    /\ pc[c] = "fn"
    /\ state' = [state EXCEPT ![held[c]] = "lost"]
    /\ UNCHANGED <<db, draft, client>>

\* c waits for a row.
Waits(c, r) ==
    /\ pc[c] = "fn" /\ state[held[c]] = "open"
    /\ r \notin done[c] /\ fn[c][r] # Unwritten
    /\ Blockers(c, r) # {}

\* The server breaks a deadlock: callers that all wait for one of them.
BreakDeadlock(c, r) ==
    /\ Waits(c, r)
    /\ \E S \in SUBSET Caller :
        /\ c \in S
        /\ \A d \in S : \E q \in Row, e \in S : Waits(d, q) /\ held[e] \in Blockers(d, q)
    /\ ExecFails(c, r)

\* Faulty variant of FnReturnsNil: the error of the function is not looked at.
FnReturns(c) ==
    /\ pc[c] = "fn"
    /\ Goto(c, "commit")
    /\ UNCHANGED <<fn, done, held, ret, server>>

FnReturnsNil(c) ==
    /\ pc[c] = "fn"
    /\ \A r \in Row : fn[c][r] # Unwritten => r \in done[c]
    /\ Goto(c, "commit")
    /\ UNCHANGED <<fn, done, held, ret, server>>

\* Faulty variant of FnReturnsError: the error is returned, nothing else.
FnErrorOnly(c) ==
    /\ pc[c] = "fn"
    /\ Return(c, "failed")
    /\ UNCHANGED server

\* At any point of the function, for a reason of its own or of a statement.
FnReturnsError(c) ==
    /\ pc[c] = "fn"
    /\ Goto(c, "rollback")
    /\ UNCHANGED <<fn, done, held, ret, server>>

Rollback(c) ==
    /\ pc[c] = "rollback"
    /\ state[held[c]] # "lost"
    /\ EndTx(held[c], "free")
    /\ Return(c, "failed")
    /\ UNCHANGED db

\* Faulty variant of RollbackFails: it is tried again until it succeeds.
RollbackRetried(c) ==
    /\ pc[c] = "rollback"
    /\ state' = [state EXCEPT ![held[c]] = "lost"]
    /\ UNCHANGED <<db, draft, client>>

\* The connection is gone, or is closed because the rollback fails.
RollbackFails(c) ==
    /\ pc[c] = "rollback"
    /\ state' = [state EXCEPT ![held[c]] = "lost"]
    /\ Return(c, "failed")
    /\ UNCHANGED <<db, draft>>

Commit(c) ==
    /\ pc[c] = "commit"
    /\ state[held[c]] = "open"
    /\ db' = Written(db, draft[held[c]])
    /\ EndTx(held[c], "free")
    /\ Goto(c, "committed")
    /\ UNCHANGED <<fn, done, held, ret>>

CommitAnswered(c) ==
    /\ pc[c] = "committed"
    /\ Return(c, "ok")
    /\ UNCHANGED server

\* The server commits, its answer does not arrive.
CommitAnswerLost(c) ==
    /\ pc[c] = "committed"
    /\ Return(c, "unknown")
    /\ UNCHANGED server

\* The COMMIT is sent and the connection closed before an answer.
CommitLost(c) ==
    /\ pc[c] = "commit"
    /\ state[held[c]] = "open"
    /\ state' = [state EXCEPT ![held[c]] = "late"]
    /\ Return(c, "unknown")
    /\ UNCHANGED <<db, draft>>

\* The server answers a COMMIT with a rollback, always when the transaction is
\* aborted, and pgx returns an error; or the connection is gone.
CommitRefused(c) ==
    /\ pc[c] = "commit"
    /\ \/ state[held[c]] # "lost" /\ EndTx(held[c], "free")
       \/ state[held[c]] = "lost" /\ UNCHANGED <<state, draft>>
    /\ Return(c, "unknown")
    /\ UNCHANGED db

-----------------------------------------------------------------------------

\* What the function does while the database answers it.
FnStep(c) ==
    \/ \E r \in Row : Exec(c, r)
    \/ held[c] # NoSession /\ state[held[c]] # "open" /\ \E r \in Row : ExecFails(c, r)
    \/ FnReturnsNil(c)

\* What WithTx does when the function has returned.
Finish(c) ==
    Rollback(c) \/ RollbackFails(c) \/ Commit(c) \/ CommitLost(c) \/ CommitRefused(c)
        \/ CommitAnswered(c) \/ CommitAnswerLost(c)

\* What brings a call nearer to its return.
Advance(c) ==
    \/ \E k \in Session : Begin(c, k)
    \/ FnStep(c)
    \/ \E r \in Row : BreakDeadlock(c, r)
    \/ Finish(c)

Next ==
    \/ \E c \in Caller :
        \/ \E w \in Programs : Call(c, w)
        \/ \E k \in Session : Begin(c, k)
        \/ \E r \in Row : Exec(c, r) \/ ExecFails(c, r) \/ BreakDeadlock(c, r)
        \/ BeginFails(c) \/ Disconnect(c) \/ FnReturnsNil(c) \/ FnReturnsError(c)
        \/ Finish(c)
    \/ \E k \in Session : Notice(k) \/ CommitLate(k)

Spec == Init /\ [][Next]_vars

\* Goroutines run and functions end.  The pool serves those who wait for a
\* connection in turn, the server those who wait for a row; it breaks every
\* deadlock, answers every statement, and finds out about closed connections.
Fairness ==
    /\ \A c \in Caller : SF_vars(Advance(c))
    /\ \A k \in Session : WF_vars(Notice(k) \/ CommitLate(k))

FairSpec == Spec /\ Fairness

-----------------------------------------------------------------------------
(* Properties *)

TypeOK ==
    /\ db \in [Row -> Value]
    /\ pc \in [Caller -> {"idle", "begin", "fn", "rollback", "commit", "committed"}]
    /\ fn \in [Caller -> Writes]
    /\ done \in [Caller -> SUBSET Row]
    /\ held \in [Caller -> Session \union {NoSession}]
    /\ state \in [Session -> State]
    /\ draft \in [Session -> Writes]
    /\ ret \in {"none", "ok", "failed", "unknown"}

\* No connection is used by two calls, and none goes back to the pool with a
\* transaction under way: a session that nobody holds is free, or its
\* connection is closed (every return of WithTx).
ConnectionsComeBackClean ==
    /\ \A c, d \in Caller : (c # d /\ held[c] = held[d]) => held[c] = NoSession
    /\ \A k \in Session :
          state[k] \in {"open", "aborted"} => \E c \in Caller : held[c] = k

\* Every call returns, whatever fails, also when all connections are taken, and
\* when functions wait for each other's rows.
EveryCallReturns == \A c \in Caller : pc[c] # "idle" ~> pc[c] = "idle"

Atomic == INSTANCE AtomicWrites WITH
    call <- [c \in Caller |-> [busy |-> pc[c] # "idle", writes |-> fn[c],
                               applied |-> pc[c] = "committed"]],
    late <- [k \in Session |-> IF state[k] = "late" THEN draft[k] ELSE Nothing]

\* A call takes effect at once or not at all: nil means all of it, an error of
\* the function means none of it, whatever failed on the way, the rollback
\* included; only a failed commit leaves it open.
ImplementsAtomicWrites == Atomic!Spec

-----------------------------------------------------------------------------
(* The inductive invariant of the proofs in WithTxProofs.                   *)

\* A call holds a session from begin to return, and the session is in a state
\* that this place allows.
HeldInv(c) ==
    /\ pc[c] \in {"idle", "begin"} => held[c] = NoSession /\ done[c] = {}
    /\ pc[c] = "idle" => fn[c] = Nothing
    /\ pc[c] \in {"fn", "rollback", "commit"} =>
          held[c] \in Session /\ state[held[c]] \in {"open", "aborted", "lost"}
    /\ pc[c] = "committed" => held[c] \in Session /\ state[held[c]] = "free"

\* A transaction that is still open has written what the function sent, which
\* is everything when the function has returned nil.
DraftInv(c) ==
    /\ (held[c] \in Session /\ pc[c] # "committed" /\ state[held[c]] = "open") =>
          draft[held[c]] = [r \in Row |-> IF r \in done[c] THEN fn[c][r] ELSE Unwritten]
    /\ pc[c] = "commit" => \A r \in Row : fn[c][r] # Unwritten => r \in done[c]

IInv ==
    /\ TypeOK
    /\ ConnectionsComeBackClean
    /\ \A c \in Caller : HeldInv(c) /\ DraftInv(c)
    /\ \A k \in Session : state[k] \in {"free", "aborted"} => draft[k] = Nothing

=============================================================================
