---------------------------- MODULE AtomicWrites ----------------------------
(***************************************************************************)
(* What a caller of Store.WithTx (internal/db/pool.go) may rely on: what   *)
(* its function writes takes effect at once or not at all; all of it when  *)
(* the call returns nil, none of it when the transaction did not begin or  *)
(* the function returned an error.  When the commit failed nothing is      *)
(* promised but that: it may have taken effect, or do so later.            *)
(***************************************************************************)
CONSTANTS
    Caller,         \* the goroutines that call WithTx
    Row,            \* the rows of the database
    Value,          \* what a row may hold
    Unwritten,      \* what a call does not write
    Contents,       \* what the rows hold at first
    Session         \* the sessions of the database server

Writes == [Row -> Value \union {Unwritten}]
Nothing == [r \in Row |-> Unwritten]

Written(rows, w) == [r \in Row |-> IF w[r] = Unwritten THEN rows[r] ELSE w[r]]

VARIABLES
    db,             \* db[r]: what row r holds
    call,           \* call[c]: what c called, and whether it took effect
    late,           \* late[k]: what session k may still commit
    ret             \* how the last call ended, until the next begins

vars == <<db, call, late, ret>>

Idle == [busy |-> FALSE, writes |-> Nothing, applied |-> FALSE]

Init ==
    /\ db = Contents
    /\ call = [c \in Caller |-> Idle]
    /\ late = [k \in Session |-> Nothing]
    /\ ret = "none"

Call(c, w) ==
    /\ ~call[c].busy
    /\ call' = [call EXCEPT ![c] = [busy |-> TRUE, writes |-> w, applied |-> FALSE]]
    /\ ret' = "none"
    /\ UNCHANGED <<db, late>>

Apply(c) ==
    /\ call[c].busy /\ ~call[c].applied
    /\ db' = Written(db, call[c].writes)
    /\ call' = [call EXCEPT ![c].applied = TRUE]
    /\ UNCHANGED <<late, ret>>

Return(c, result) ==
    /\ call[c].busy
    /\ result = "ok" => call[c].applied
    /\ result = "failed" => ~call[c].applied
    /\ call' = [call EXCEPT ![c] = Idle]
    /\ ret' = result
    /\ UNCHANGED <<db, late>>

\* The commit is not answered and may come later.
GiveUp(c, k) ==
    /\ call[c].busy /\ ~call[c].applied
    /\ late[k] = Nothing
    /\ late' = [late EXCEPT ![k] = call[c].writes]
    /\ call' = [call EXCEPT ![c] = Idle]
    /\ ret' = "unknown"
    /\ UNCHANGED db

ApplyLate(k) ==
    /\ db' = Written(db, late[k])
    /\ late' = [late EXCEPT ![k] = Nothing]
    /\ UNCHANGED <<call, ret>>

DropLate(k) ==
    /\ late' = [late EXCEPT ![k] = Nothing]
    /\ UNCHANGED <<db, call, ret>>

Next ==
    \/ \E c \in Caller :
        \/ \E w \in Writes : Call(c, w)
        \/ Apply(c)
        \/ \E result \in {"ok", "failed", "unknown"} : Return(c, result)
        \/ \E k \in Session : GiveUp(c, k)
    \/ \E k \in Session : ApplyLate(k) \/ DropLate(k)

Spec == Init /\ [][Next]_vars

=============================================================================
