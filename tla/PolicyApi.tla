----------------------------- MODULE PolicyApi ------------------------------
(***************************************************************************)
(* What a caller of api.Api (internal/api/api.go) may rely on when the     *)
(* policies live in a database that others change: GetPolicyData answers   *)
(* with a version of the token's row that is no older than any version     *)
(* that an earlier call answered with or was refused for, and no older     *)
(* than what the database held at the last Invalidate.  It says nothing of *)
(* how recent an answer is otherwise, nor of locks, clocks and queries.    *)
(***************************************************************************)
EXTENDS Naturals, Sequences

CONSTANTS
    Token,          \* the tokens
    Caller,         \* the goroutines that call the api
    Row,            \* what a row may be: "good" or "bad"
    MaxVersion      \* bound: how many contents a row may have in turn

VARIABLES
    log,            \* log[t]: the contents that the row of t had, the last is now
    floor,          \* floor[t]: the oldest version a new call may be given
    call,           \* call[p]: what p is doing
    ret             \* ret[p]: the version p's last call returned, 0 for an error

vars == <<log, floor, call, ret>>

Idle == [op |-> "idle", tokens |-> {}, low |-> 0]

Call == [op: {"idle", "get", "invalidate"}, tokens: SUBSET Token, low: Nat]

Larger(m, n) == IF m < n THEN n ELSE m

Init ==
    /\ log \in [Token -> {<<r>> : r \in Row}]
    /\ floor = [t \in Token |-> 0]
    /\ call = [p \in Caller |-> Idle]
    /\ ret = [p \in Caller |-> 0]

-----------------------------------------------------------------------------

\* Somebody changes, revokes or restores the row of t, or it expires.
ChangeRow(t) ==
    /\ Len(log[t]) < MaxVersion
    /\ \E r \in Row : log' = [log EXCEPT ![t] = Append(@, r)]
    /\ UNCHANGED <<floor, call, ret>>

Get(p, t) ==
    /\ call[p] = Idle
    /\ call' = [call EXCEPT ![p] = [op |-> "get", tokens |-> {t}, low |-> floor[t]]]
    /\ ret' = [ret EXCEPT ![p] = 0]
    /\ UNCHANGED <<log, floor>>

\* The call returns version v of the row.
Serve(p, t, v) ==
    /\ call[p].op = "get" /\ t \in call[p].tokens
    /\ v \in call[p].low..Len(log[t]) /\ v # 0
    /\ log[t][v] = "good"
    /\ ret' = [ret EXCEPT ![p] = v]
    /\ floor' = [floor EXCEPT ![t] = Larger(@, v)]
    /\ call' = [call EXCEPT ![p] = Idle]
    /\ UNCHANGED log

\* The call fails, because version v of the row cannot be used.
Refuse(p, t, v) ==
    /\ call[p].op = "get" /\ t \in call[p].tokens
    /\ v \in call[p].low..Len(log[t]) /\ v # 0
    /\ log[t][v] # "good"
    /\ floor' = [floor EXCEPT ![t] = Larger(@, v)]
    /\ call' = [call EXCEPT ![p] = Idle]
    /\ UNCHANGED <<log, ret>>

\* The call fails and says nothing of the row.
Fail(p) ==
    /\ call[p].op = "get"
    /\ call' = [call EXCEPT ![p] = Idle]
    /\ UNCHANGED <<log, floor, ret>>

\* Invalidate for one token, InvalidateAll for all of them.
BeginInvalidate(p, T) ==
    /\ call[p] = Idle
    /\ call' = [call EXCEPT ![p] = [op |-> "invalidate", tokens |-> T, low |-> 0]]
    /\ ret' = [ret EXCEPT ![p] = 0]
    /\ UNCHANGED <<log, floor>>

\* It takes effect: calls that begin from now on see the row as it is now.
EndInvalidate(p) ==
    /\ call[p].op = "invalidate"
    /\ floor' = [t \in Token |-> IF t \in call[p].tokens THEN Len(log[t]) ELSE floor[t]]
    /\ call' = [call EXCEPT ![p] = Idle]
    /\ UNCHANGED <<log, ret>>

Next ==
    \/ \E t \in Token : ChangeRow(t)
    \/ \E p \in Caller :
        \/ \E t \in Token :
            \/ Get(p, t)
            \/ \E v \in 0..Len(log[t]) : Serve(p, t, v) \/ Refuse(p, t, v)
        \/ Fail(p)
        \/ \E T \in SUBSET Token : BeginInvalidate(p, T)
        \/ EndInvalidate(p)

Spec == Init /\ [][Next]_vars

=============================================================================
