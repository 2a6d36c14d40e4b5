---------------------------- MODULE WithTxProofs ----------------------------
(***************************************************************************)
(* Proofs about WithTx: its type invariant, that connections come back     *)
(* clean, and that it implements AtomicWrites, for any number of callers,  *)
(* sessions, rows and connections and any functions.                       *)
(***************************************************************************)
EXTENDS WithTx, TLAPS

-----------------------------------------------------------------------------
(* Types *)

LEMMA NothingType == Nothing \in Writes
  BY DEF Nothing, Writes

\* Overlaying rows with writes makes rows.
LEMMA WrittenType ==
    ASSUME NEW rows \in [Row -> Value], NEW w \in Writes
    PROVE  Written(rows, w) \in [Row -> Value]
  BY DEF Written, Writes

LEMMA EndTxType ==
    ASSUME TypeOK, NEW k \in Session, NEW next \in State, EndTx(k, next)
    PROVE  state' \in [Session -> State] /\ draft' \in [Session -> Writes]
  BY NothingType DEF EndTx, TypeOK

LEMMA ReturnType ==
    ASSUME TypeOK, NEW c \in Caller, NEW result \in {"ok", "failed", "unknown"},
           Return(c, result)
    PROVE  /\ pc' \in [Caller -> {"idle", "begin", "fn", "rollback", "commit", "committed"}]
           /\ fn' \in [Caller -> Writes]
           /\ done' \in [Caller -> SUBSET Row]
           /\ held' \in [Caller -> Session \union {NoSession}]
           /\ ret' \in {"none", "ok", "failed", "unknown"}
  BY NothingType DEF Return, Goto, TypeOK

\* A call that works on its transaction holds a session.
LEMMA Holds ==
    ASSUME IInv, NEW c \in Caller, pc[c] \in {"fn", "rollback", "commit", "committed"}
    PROVE  held[c] \in Session
  BY DEF IInv, HeldInv

LEMMA TypeInit == Init => TypeOK
  BY NothingType, TxAssumption DEF Init, TypeOK, State

LEMMA TypeNext == IInv /\ [Next]_vars => TypeOK'
<1> SUFFICES ASSUME IInv, [Next]_vars PROVE TypeOK'
  OBVIOUS
<1>0. TypeOK
  BY DEF IInv
<1>1. ASSUME NEW c \in Caller, NEW w \in Programs, Call(c, w) PROVE TypeOK'
  BY <1>0, <1>1, TxAssumption DEF Call, Goto, TypeOK, server
<1>2. ASSUME NEW c \in Caller, NEW k \in Session, Begin(c, k) PROVE TypeOK'
  BY <1>0, <1>2 DEF Begin, Goto, TypeOK, State
<1>3. ASSUME NEW c \in Caller, NEW r \in Row, Exec(c, r) PROVE TypeOK'
  <2>1. held[c] \in Session /\ fn[c] \in Writes
    BY <1>0, <1>3, Holds DEF Exec, Sends, TypeOK
  <2>2. [draft[held[c]] EXCEPT ![r] = fn[c][r]] \in Writes
    BY <1>0, <2>1 DEF TypeOK, Writes
  <2> QED
    BY <1>0, <1>3, <2>1, <2>2 DEF Exec, Sends, TypeOK
<1>4. ASSUME NEW c \in Caller, NEW r \in Row, ExecFails(c, r) PROVE TypeOK'
  <2>1. held[c] \in Session
    BY <1>4, Holds DEF ExecFails, Sends
  <2>2. state' \in [Session -> State] /\ draft' \in [Session -> Writes]
    BY <1>0, <1>4, <2>1, EndTxType DEF ExecFails, State, TypeOK
  <2> QED
    BY <1>0, <1>4, <2>2 DEF ExecFails, Sends, TypeOK
<1>5. ASSUME NEW c \in Caller, NEW r \in Row, BreakDeadlock(c, r) PROVE TypeOK'
  BY <1>4, <1>5 DEF BreakDeadlock
<1>6. ASSUME NEW c \in Caller, BeginFails(c) PROVE TypeOK'
  BY <1>0, <1>6, ReturnType DEF BeginFails, TypeOK, server
<1>7. ASSUME NEW c \in Caller, Disconnect(c) PROVE TypeOK'
  BY <1>0, <1>7, Holds DEF Disconnect, TypeOK, State, client
<1>8. ASSUME NEW c \in Caller, FnReturnsNil(c) \/ FnReturnsError(c) PROVE TypeOK'
  BY <1>0, <1>8 DEF FnReturnsNil, FnReturnsError, Goto, TypeOK, server
<1>9. ASSUME NEW c \in Caller, Rollback(c) PROVE TypeOK'
  BY <1>0, <1>9, Holds, EndTxType, ReturnType DEF Rollback, TypeOK, State
<1>10. ASSUME NEW c \in Caller, RollbackFails(c) PROVE TypeOK'
  BY <1>0, <1>10, Holds, ReturnType DEF RollbackFails, TypeOK, State
<1>11. ASSUME NEW c \in Caller, Commit(c) PROVE TypeOK'
  <2>1. held[c] \in Session
    BY <1>11, Holds DEF Commit
  <2>2. db' \in [Row -> Value]
    BY <1>0, <1>11, <2>1, WrittenType DEF Commit, TypeOK
  <2>3. state' \in [Session -> State] /\ draft' \in [Session -> Writes]
    BY <1>0, <1>11, <2>1, EndTxType DEF Commit, State
  <2> QED
    BY <1>0, <1>11, <2>2, <2>3 DEF Commit, Goto, TypeOK
<1>12. ASSUME NEW c \in Caller, CommitAnswered(c) \/ CommitAnswerLost(c) PROVE TypeOK'
  BY <1>0, <1>12, ReturnType DEF CommitAnswered, CommitAnswerLost, TypeOK, server
<1>13. ASSUME NEW c \in Caller, CommitLost(c) PROVE TypeOK'
  BY <1>0, <1>13, Holds, ReturnType DEF CommitLost, TypeOK, State
<1>14. ASSUME NEW c \in Caller, CommitRefused(c) PROVE TypeOK'
  BY <1>0, <1>14, Holds, EndTxType, ReturnType DEF CommitRefused, TypeOK, State
<1>15. ASSUME NEW k \in Session, Notice(k) PROVE TypeOK'
  BY <1>0, <1>15, EndTxType DEF Notice, TypeOK, State, client
<1>16. ASSUME NEW k \in Session, CommitLate(k) PROVE TypeOK'
  <2>1. db' \in [Row -> Value]
    BY <1>0, <1>16, WrittenType DEF CommitLate, TypeOK
  <2> QED
    BY <1>0, <1>16, <2>1, EndTxType DEF CommitLate, TypeOK, State, client
<1>17. CASE UNCHANGED vars
  BY <1>0, <1>17 DEF vars, TypeOK
<1> QED
  BY <1>1, <1>2, <1>3, <1>4, <1>5, <1>6, <1>7, <1>8, <1>9, <1>10, <1>11, <1>12,
     <1>13, <1>14, <1>15, <1>16, <1>17 DEF Next, Finish

\* No step of one caller, or of the server, takes a session from another.
LEMMA HeldNext ==
    ASSUME IInv, [Next]_vars, NEW d \in Caller
    PROVE  HeldInv(d)'
<1>0. TypeOK /\ TypeOK'
  BY TypeNext DEF IInv
<1>1. ASSUME NEW c \in Caller, NEW w \in Programs, Call(c, w) PROVE HeldInv(d)'
  BY <1>0, <1>1, TxAssumption
  DEF IInv, TypeOK, HeldInv, ConnectionsComeBackClean, Call, Goto, server
<1>2. ASSUME NEW c \in Caller, NEW k \in Session, Begin(c, k) PROVE HeldInv(d)'
  BY <1>0, <1>2, TxAssumption
  DEF IInv, TypeOK, HeldInv, ConnectionsComeBackClean, Begin, Goto
<1>3. ASSUME NEW c \in Caller, NEW r \in Row, Exec(c, r) PROVE HeldInv(d)'
  BY <1>0, <1>3, TxAssumption
  DEF IInv, TypeOK, HeldInv, ConnectionsComeBackClean, Exec, Sends
<1>4. ASSUME NEW c \in Caller, NEW r \in Row, ExecFails(c, r) PROVE HeldInv(d)'
  BY <1>0, <1>4, TxAssumption
  DEF IInv, TypeOK, HeldInv, ConnectionsComeBackClean, ExecFails, Sends, EndTx
<1>5. ASSUME NEW c \in Caller, BeginFails(c) PROVE HeldInv(d)'
  BY <1>0, <1>5, TxAssumption
  DEF IInv, TypeOK, HeldInv, ConnectionsComeBackClean, BeginFails, Return, Goto, server
<1>6. ASSUME NEW c \in Caller, Disconnect(c) PROVE HeldInv(d)'
  BY <1>0, <1>6, TxAssumption
  DEF IInv, TypeOK, HeldInv, ConnectionsComeBackClean, Disconnect, client
<1>7. ASSUME NEW c \in Caller, FnReturnsNil(c) \/ FnReturnsError(c) PROVE HeldInv(d)'
  BY <1>0, <1>7, TxAssumption
  DEF IInv, TypeOK, HeldInv, ConnectionsComeBackClean, FnReturnsNil, FnReturnsError,
      Goto, server
<1>8. ASSUME NEW c \in Caller, Rollback(c) PROVE HeldInv(d)'
  BY <1>0, <1>8, TxAssumption
  DEF IInv, TypeOK, HeldInv, ConnectionsComeBackClean, Rollback, EndTx, Return, Goto
<1>9. ASSUME NEW c \in Caller, RollbackFails(c) PROVE HeldInv(d)'
  BY <1>0, <1>9, TxAssumption
  DEF IInv, TypeOK, HeldInv, ConnectionsComeBackClean, RollbackFails, Return, Goto
<1>10. ASSUME NEW c \in Caller, Commit(c) PROVE HeldInv(d)'
  BY <1>0, <1>10, TxAssumption
  DEF IInv, TypeOK, HeldInv, ConnectionsComeBackClean, Commit, EndTx, Goto
<1>11. ASSUME NEW c \in Caller, CommitAnswered(c) \/ CommitAnswerLost(c) PROVE HeldInv(d)'
  BY <1>0, <1>11, TxAssumption
  DEF IInv, TypeOK, HeldInv, ConnectionsComeBackClean, CommitAnswered,
      CommitAnswerLost, Return, Goto, server
<1>12. ASSUME NEW c \in Caller, CommitLost(c) PROVE HeldInv(d)'
  BY <1>0, <1>12, TxAssumption
  DEF IInv, TypeOK, HeldInv, ConnectionsComeBackClean, CommitLost, Return, Goto
<1>13. ASSUME NEW c \in Caller, CommitRefused(c) PROVE HeldInv(d)'
  BY <1>0, <1>13, TxAssumption
  DEF IInv, TypeOK, HeldInv, ConnectionsComeBackClean, CommitRefused, EndTx, Return,
      Goto
<1>14. ASSUME NEW k \in Session, Notice(k) \/ CommitLate(k) PROVE HeldInv(d)'
  BY <1>0, <1>14, TxAssumption
  DEF IInv, TypeOK, HeldInv, ConnectionsComeBackClean, Notice, CommitLate, EndTx, client
<1>15. CASE UNCHANGED vars
  BY <1>15 DEF IInv, HeldInv, ConnectionsComeBackClean, vars
<1> QED
  BY <1>1, <1>2, <1>3, <1>4, <1>5, <1>6, <1>7, <1>8, <1>9, <1>10, <1>11, <1>12, <1>13,
     <1>14, <1>15 DEF Next, Finish, BreakDeadlock

\* Every statement adds its row to the draft and to what was sent.
LEMMA DraftNext ==
    ASSUME IInv, [Next]_vars, NEW d \in Caller
    PROVE  DraftInv(d)'
<1>0. TypeOK /\ TypeOK'
  BY TypeNext DEF IInv
<1>1. ASSUME NEW c \in Caller, NEW w \in Programs, Call(c, w) PROVE DraftInv(d)'
  <2>1. CASE d = c
    <3>1. pc'[c] = "begin" /\ held'[c] \notin Session
      BY <1>0, <1>1, TxAssumption DEF IInv, TypeOK, HeldInv, Call, Goto
    <3> QED
      BY <2>1, <3>1 DEF DraftInv
  <2>2. CASE d # c
    <3>1. pc'[d] = pc[d] /\ fn'[d] = fn[d]
      BY <1>0, <1>1, <2>2 DEF TypeOK, Call, Goto
    <3>2. UNCHANGED <<held, state, draft, done>>
      BY <1>1 DEF Call, server
    <3>3. DraftInv(d)
      BY DEF IInv
    <3> QED
      BY <3>1, <3>2, <3>3 DEF DraftInv
  <2> QED
    BY <2>1, <2>2
<1>2. ASSUME NEW c \in Caller, NEW k \in Session, Begin(c, k) PROVE DraftInv(d)'
  <2>1. CASE d = c
    <3>1. draft'[k] = Nothing /\ held'[c] = k /\ done'[c] = {} /\ pc'[c] = "fn"
      BY <1>0, <1>2 DEF IInv, TypeOK, HeldInv, Begin, Goto
    <3> QED
      BY <2>1, <3>1 DEF DraftInv, Nothing
  <2>2. CASE d # c
    <3>1. /\ pc'[d] = pc[d] /\ held'[d] = held[d] /\ held[d] # k
          /\ held[d] \in Session => state'[held[d]] = state[held[d]]
      BY <1>0, <1>2, <2>2 DEF TypeOK, Begin, Goto
    <3> QED
      BY <1>2, <3>1 DEF IInv, DraftInv, Begin
  <2> QED
    BY <2>1, <2>2
<1>3. ASSUME NEW c \in Caller, NEW r \in Row, Exec(c, r) PROVE DraftInv(d)'
  <2>0. held[c] \in Session /\ pc[c] = "fn"
    BY <1>3, Holds DEF Exec, Sends
  <2>1. CASE d = c
    <3> DEFINE Sent(rows) == [q \in Row |-> IF q \in rows THEN fn[c][q] ELSE Unwritten]
    <3>1. draft[held[c]] = Sent(done[c])
      BY <1>3, <2>0 DEF IInv, DraftInv, Exec
    <3>2. draft'[held[c]] = [Sent(done[c]) EXCEPT ![r] = fn[c][r]]
      BY <1>0, <1>3, <2>0, <3>1 DEF TypeOK, Exec
    <3>3. [Sent(done[c]) EXCEPT ![r] = fn[c][r]] = Sent(done[c] \union {r})
      OBVIOUS
    <3>4. /\ done'[c] = done[c] \union {r} /\ pc'[c] = "fn"
          /\ held'[c] = held[c] /\ fn'[c] = fn[c]
      BY <1>0, <1>3, <2>0 DEF TypeOK, Exec, Sends
    <3> QED
      BY <2>1, <3>2, <3>3, <3>4 DEF DraftInv
  <2>2. CASE d # c
    <3>1. /\ done'[d] = done[d]
          /\ held[d] \in Session => draft'[held[d]] = draft[held[d]]
      BY <1>0, <1>3, <2>0, <2>2, TxAssumption
      DEF IInv, TypeOK, ConnectionsComeBackClean, Exec, Sends
    <3>2. held'[d] = held[d] /\ pc'[d] = pc[d] /\ fn'[d] = fn[d] /\ state' = state
      BY <1>3 DEF Exec, Sends
    <3>3. DraftInv(d)
      BY DEF IInv
    <3> QED
      BY <3>1, <3>2, <3>3 DEF DraftInv
  <2> QED
    BY <2>1, <2>2
<1>4. ASSUME NEW c \in Caller, NEW r \in Row, ExecFails(c, r) PROVE DraftInv(d)'
  BY <1>0, <1>4, TxAssumption
  DEF IInv, TypeOK, HeldInv, DraftInv, ConnectionsComeBackClean, ExecFails, Sends, EndTx
<1>5. ASSUME NEW c \in Caller, BeginFails(c) PROVE DraftInv(d)'
  BY <1>0, <1>5, TxAssumption
  DEF IInv, TypeOK, HeldInv, DraftInv, ConnectionsComeBackClean, BeginFails, Return,
      Goto, server
<1>6. ASSUME NEW c \in Caller, Disconnect(c) PROVE DraftInv(d)'
  BY <1>0, <1>6, TxAssumption
  DEF IInv, TypeOK, HeldInv, DraftInv, ConnectionsComeBackClean, Disconnect, client
<1>7. ASSUME NEW c \in Caller, FnReturnsNil(c) \/ FnReturnsError(c) PROVE DraftInv(d)'
  BY <1>0, <1>7, TxAssumption
  DEF IInv, TypeOK, HeldInv, DraftInv, ConnectionsComeBackClean, FnReturnsNil,
      FnReturnsError, Goto, server
<1>8. ASSUME NEW c \in Caller, Rollback(c) PROVE DraftInv(d)'
  BY <1>0, <1>8, TxAssumption
  DEF IInv, TypeOK, HeldInv, DraftInv, ConnectionsComeBackClean, Rollback, EndTx,
      Return, Goto
<1>9. ASSUME NEW c \in Caller, RollbackFails(c) PROVE DraftInv(d)'
  BY <1>0, <1>9, TxAssumption
  DEF IInv, TypeOK, HeldInv, DraftInv, ConnectionsComeBackClean, RollbackFails, Return,
      Goto
<1>10. ASSUME NEW c \in Caller, Commit(c) PROVE DraftInv(d)'
  BY <1>0, <1>10, TxAssumption
  DEF IInv, TypeOK, HeldInv, DraftInv, ConnectionsComeBackClean, Commit, EndTx, Goto
<1>11. ASSUME NEW c \in Caller, CommitAnswered(c) \/ CommitAnswerLost(c) PROVE DraftInv(d)'
  BY <1>0, <1>11, TxAssumption
  DEF IInv, TypeOK, HeldInv, DraftInv, ConnectionsComeBackClean, CommitAnswered,
      CommitAnswerLost, Return, Goto, server
<1>12. ASSUME NEW c \in Caller, CommitLost(c) PROVE DraftInv(d)'
  BY <1>0, <1>12, TxAssumption
  DEF IInv, TypeOK, HeldInv, DraftInv, ConnectionsComeBackClean, CommitLost, Return,
      Goto
<1>13. ASSUME NEW c \in Caller, CommitRefused(c) PROVE DraftInv(d)'
  BY <1>0, <1>13, TxAssumption
  DEF IInv, TypeOK, HeldInv, DraftInv, ConnectionsComeBackClean, CommitRefused, EndTx,
      Return, Goto
<1>14. ASSUME NEW k \in Session, Notice(k) \/ CommitLate(k) PROVE DraftInv(d)'
  BY <1>0, <1>14, TxAssumption
  DEF IInv, TypeOK, HeldInv, DraftInv, ConnectionsComeBackClean, Notice, CommitLate,
      EndTx, client
<1>15. CASE UNCHANGED vars
  BY <1>15 DEF IInv, HeldInv, DraftInv, ConnectionsComeBackClean, vars
<1> QED
  BY <1>1, <1>2, <1>3, <1>4, <1>5, <1>6, <1>7, <1>8, <1>9, <1>10, <1>11, <1>12, <1>13,
     <1>14, <1>15 DEF Next, Finish, BreakDeadlock

\* What is free or aborted has nothing written, and a session with a
\* transaction under way is held by one call.
LEMMA SessionsNext ==
    ASSUME IInv, [Next]_vars
    PROVE  /\ ConnectionsComeBackClean'
           /\ \A k \in Session : state'[k] \in {"free", "aborted"} => draft'[k] = Nothing
<1>0. TypeOK /\ TypeOK'
  BY TypeNext DEF IInv
<1> DEFINE Clean == \A k \in Session : state[k] \in {"free", "aborted"} => draft[k] = Nothing
<1> SUFFICES ConnectionsComeBackClean' /\ Clean'
  OBVIOUS
<1>1. ASSUME NEW c \in Caller, NEW w \in Programs, Call(c, w)
      PROVE  ConnectionsComeBackClean' /\ Clean'
  BY <1>0, <1>1, TxAssumption
  DEF IInv, TypeOK, HeldInv, ConnectionsComeBackClean, Call, Goto, server
<1>2. ASSUME NEW c \in Caller, NEW k \in Session, Begin(c, k)
      PROVE  ConnectionsComeBackClean' /\ Clean'
  BY <1>0, <1>2, TxAssumption
  DEF IInv, TypeOK, HeldInv, ConnectionsComeBackClean, Begin, Goto
<1>3. ASSUME NEW c \in Caller, NEW r \in Row, Exec(c, r)
      PROVE  ConnectionsComeBackClean' /\ Clean'
  BY <1>0, <1>3, TxAssumption
  DEF IInv, TypeOK, HeldInv, ConnectionsComeBackClean, Exec, Sends
<1>4. ASSUME NEW c \in Caller, NEW r \in Row, ExecFails(c, r)
      PROVE  ConnectionsComeBackClean' /\ Clean'
  BY <1>0, <1>4, TxAssumption
  DEF IInv, TypeOK, HeldInv, ConnectionsComeBackClean, ExecFails, Sends, EndTx
<1>5. ASSUME NEW c \in Caller, BeginFails(c)
      PROVE  ConnectionsComeBackClean' /\ Clean'
  BY <1>0, <1>5, TxAssumption
  DEF IInv, TypeOK, HeldInv, ConnectionsComeBackClean, BeginFails, Return, Goto, server
<1>6. ASSUME NEW c \in Caller, Disconnect(c)
      PROVE  ConnectionsComeBackClean' /\ Clean'
  BY <1>0, <1>6, TxAssumption
  DEF IInv, TypeOK, HeldInv, ConnectionsComeBackClean, Disconnect, client
<1>7. ASSUME NEW c \in Caller, FnReturnsNil(c) \/ FnReturnsError(c)
      PROVE  ConnectionsComeBackClean' /\ Clean'
  BY <1>0, <1>7, TxAssumption
  DEF IInv, TypeOK, HeldInv, ConnectionsComeBackClean, FnReturnsNil, FnReturnsError,
      Goto, server
<1>8. ASSUME NEW c \in Caller, Rollback(c)
      PROVE  ConnectionsComeBackClean' /\ Clean'
  BY <1>0, <1>8, TxAssumption
  DEF IInv, TypeOK, HeldInv, ConnectionsComeBackClean, Rollback, EndTx, Return, Goto
<1>9. ASSUME NEW c \in Caller, RollbackFails(c)
      PROVE  ConnectionsComeBackClean' /\ Clean'
  BY <1>0, <1>9, TxAssumption
  DEF IInv, TypeOK, HeldInv, ConnectionsComeBackClean, RollbackFails, Return, Goto
<1>10. ASSUME NEW c \in Caller, Commit(c)
      PROVE  ConnectionsComeBackClean' /\ Clean'
  BY <1>0, <1>10, TxAssumption
  DEF IInv, TypeOK, HeldInv, ConnectionsComeBackClean, Commit, EndTx, Goto
<1>11. ASSUME NEW c \in Caller, CommitAnswered(c) \/ CommitAnswerLost(c)
      PROVE  ConnectionsComeBackClean' /\ Clean'
  BY <1>0, <1>11, TxAssumption
  DEF IInv, TypeOK, HeldInv, ConnectionsComeBackClean, CommitAnswered,
      CommitAnswerLost, Return, Goto, server
<1>12. ASSUME NEW c \in Caller, CommitLost(c)
      PROVE  ConnectionsComeBackClean' /\ Clean'
  BY <1>0, <1>12, TxAssumption
  DEF IInv, TypeOK, HeldInv, ConnectionsComeBackClean, CommitLost, Return, Goto
<1>13. ASSUME NEW c \in Caller, CommitRefused(c)
      PROVE  ConnectionsComeBackClean' /\ Clean'
  BY <1>0, <1>13, TxAssumption
  DEF IInv, TypeOK, HeldInv, ConnectionsComeBackClean, CommitRefused, EndTx, Return,
      Goto
<1>14. ASSUME NEW k \in Session, Notice(k) \/ CommitLate(k)
      PROVE  ConnectionsComeBackClean' /\ Clean'
  BY <1>0, <1>14, TxAssumption
  DEF IInv, TypeOK, HeldInv, ConnectionsComeBackClean, Notice, CommitLate, EndTx, client
<1>15. CASE UNCHANGED vars
  BY <1>15 DEF IInv, ConnectionsComeBackClean, vars
<1> QED
  BY <1>1, <1>2, <1>3, <1>4, <1>5, <1>6, <1>7, <1>8, <1>9, <1>10, <1>11, <1>12, <1>13,
     <1>14, <1>15 DEF Next, Finish, BreakDeadlock

LEMMA InvInit == Init => IInv
  BY TypeInit, TxAssumption
  DEF Init, IInv, ConnectionsComeBackClean, HeldInv, DraftInv

LEMMA InvNext == IInv /\ [Next]_vars => IInv'
<1> SUFFICES ASSUME IInv, [Next]_vars PROVE IInv'
  OBVIOUS
<1>1. ASSUME NEW c \in Caller PROVE HeldInv(c)' /\ DraftInv(c)'
  BY HeldNext, DraftNext
<1> QED
  BY <1>1, TypeNext, SessionsNext DEF IInv

\* The invariant holds in every state.
THEOREM Invariant == Spec => []IInv
  BY InvInit, InvNext, PTL DEF Spec

\* Every variable keeps its type, for any callers, sessions, rows and
\* functions (the state of WithTx, pool and server).
THEOREM TypeCorrect == Spec => []TypeOK
<1>1. IInv => TypeOK
  BY DEF IInv
<1> QED
  BY Invariant, <1>1, PTL

\* No call of WithTx leaves a connection with a transaction under way behind,
\* and no two use one connection, for any number of callers and connections.
THEOREM TransactionsAreEnded == Spec => []ConnectionsComeBackClean
<1>1. IInv => ConnectionsComeBackClean
  BY DEF IInv
<1> QED
  BY Invariant, <1>1, PTL

-----------------------------------------------------------------------------
(* The refinement *)

calls == [c \in Caller |-> [busy |-> pc[c] # "idle", writes |-> fn[c],
                            applied |-> pc[c] = "committed"]]
lates == [k \in Session |-> IF state[k] = "late" THEN draft[k] ELSE Nothing]

\* The two modules name the same constant operators.
LEMMA SameOperators ==
    /\ Atomic!Writes = Writes /\ Atomic!Nothing = Nothing
    /\ \A rows, w : Atomic!Written(rows, w) = Written(rows, w)
  BY DEF Atomic!Writes, Writes, Atomic!Nothing, Nothing, Atomic!Written, Written

\* What a step leaves alone in WithTx it leaves alone in AtomicWrites.
LEMMA LatesFrame ==
    ASSUME TypeOK, TypeOK', \A k \in Session : (state[k] = "late" \/ state'[k] = "late") =>
                                state'[k] = state[k] /\ draft'[k] = draft[k]
    PROVE  lates' = lates
  BY DEF lates

\* An open transaction whose function returned nil has written all of it.
LEMMA DraftIsComplete ==
    ASSUME IInv, NEW c \in Caller, pc[c] = "commit", state[held[c]] = "open"
    PROVE  draft[held[c]] = fn[c]
<1>1. fn[c] = [r \in Row |-> fn[c][r]] /\ held[c] \in Session
  BY Holds DEF IInv, TypeOK, Writes
<1>2. draft[held[c]] = [r \in Row |-> IF r \in done[c] THEN fn[c][r] ELSE Unwritten]
  BY <1>1 DEF IInv, DraftInv
<1>3. \A r \in Row : fn[c][r] # Unwritten => r \in done[c]
  BY DEF IInv, DraftInv
<1> QED
  BY <1>1, <1>2, <1>3

\* A call that returns is over for AtomicWrites too.
LEMMA CallsReturn ==
    ASSUME TypeOK, NEW c \in Caller, NEW result, Return(c, result)
    PROVE  /\ calls' = [calls EXCEPT ![c] = Atomic!Idle]
           /\ ret' = result
<1>1. pc' = [pc EXCEPT ![c] = "idle"] /\ fn' = [fn EXCEPT ![c] = Nothing]
  BY DEF Return, Goto
<1>2. calls' = [calls EXCEPT ![c] = [busy |-> FALSE, writes |-> Nothing, applied |-> FALSE]]
  BY <1>1 DEF TypeOK, calls
<1> QED
  BY <1>2, SameOperators DEF Return, Atomic!Idle

LEMMA AtomicInit == Init => Atomic!Init
<1> SUFFICES ASSUME Init PROVE Atomic!Init
  OBVIOUS
<1>1. calls = [c \in Caller |-> Atomic!Idle]
  BY SameOperators DEF Init, calls, Atomic!Idle
<1>2. lates = [k \in Session |-> Atomic!Nothing]
  BY SameOperators DEF Init, lates
<1> QED
  BY <1>1, <1>2 DEF Init, Atomic!Init, calls, lates

\* Steps of the pool, of the server's locks and of the function are invisible.
LEMMA InvisibleSteps ==
    ASSUME IInv, TypeOK', NEW c \in Caller,
           \/ \E k \in Session : Begin(c, k)
           \/ \E r \in Row : Exec(c, r) \/ ExecFails(c, r)
           \/ Disconnect(c) \/ FnReturnsNil(c) \/ FnReturnsError(c)
    PROVE  UNCHANGED <<db, calls, lates, ret>>
<1>0. TypeOK
  BY DEF IInv
<1>1. UNCHANGED <<db, ret, fn>>
  BY
  DEF Begin, Exec, ExecFails, Sends, Disconnect, FnReturnsNil, FnReturnsError, server,
      client
<1>2. \A d \in Caller : (pc'[d] = "idle" <=> pc[d] = "idle")
                        /\ (pc'[d] = "committed" <=> pc[d] = "committed")
  BY <1>0
  DEF TypeOK, Begin, Exec, ExecFails, Sends, Disconnect, FnReturnsNil, FnReturnsError,
              Goto, client
<1>3. calls' = calls
  BY <1>1, <1>2 DEF calls
<1>4. pc[c] \in {"begin", "fn"}
  BY DEF Begin, Exec, ExecFails, Sends, Disconnect, FnReturnsNil, FnReturnsError
<1>5. \A k \in Session : (state[k] = "late" \/ state'[k] = "late") =>
                          state'[k] = state[k] /\ draft'[k] = draft[k]
  <2>1. pc[c] = "fn" => held[c] \in Session /\ state[held[c]] # "late"
    BY DEF IInv, HeldInv
  <2> QED
    BY <1>0, <1>4, <2>1
    DEF TypeOK, Begin, Exec, ExecFails, EndTx, Sends, Disconnect, FnReturnsNil,
        FnReturnsError, server, client
<1>6. lates' = lates
  BY <1>0, <1>5, LatesFrame
<1> QED
  BY <1>1, <1>3, <1>6

LEMMA AtomicNext == IInv /\ [Next]_vars => [Atomic!Next]_Atomic!vars
<1> SUFFICES ASSUME IInv, [Next]_vars
             PROVE  Atomic!Next \/ UNCHANGED <<db, calls, lates, ret>>
  BY DEF Atomic!vars, calls, lates
<1>0. TypeOK /\ TypeOK'
  BY TypeNext DEF IInv
<1>1. ASSUME NEW c \in Caller, NEW w \in Programs, Call(c, w) PROVE Atomic!Call(c, w)
  <2>1. calls' = [calls EXCEPT ![c] = [busy |-> TRUE, writes |-> w, applied |-> FALSE]]
    <3>1. /\ pc' = [pc EXCEPT ![c] = "begin"] /\ fn' = [fn EXCEPT ![c] = w]
      BY <1>1 DEF Call, Goto
    <3> QED
      BY <1>0, <3>1 DEF TypeOK, calls
  <2>2. lates' = lates
    BY <1>0, <1>1, LatesFrame DEF Call, server
  <2>3. ~calls[c].busy
    BY <1>1 DEF Call, calls
  <2> QED
    BY <1>1, <2>1, <2>2, <2>3 DEF Atomic!Call, Call, server, calls, lates
<1>2. ASSUME NEW c \in Caller, NEW result \in {"ok", "failed", "unknown"},
             pc[c] # "idle", Return(c, result), UNCHANGED db, UNCHANGED lates,
             result = "ok" => pc[c] = "committed",
             result = "failed" => pc[c] # "committed"
      PROVE  Atomic!Next
  <2>1. /\ calls[c].busy
        /\ result = "ok" => calls[c].applied
        /\ result = "failed" => ~calls[c].applied
    BY <1>2 DEF calls
  <2>2. Atomic!Return(c, result)
    BY <1>0, <1>2, <2>1, CallsReturn DEF Atomic!Return, calls, lates
  <2> QED
    BY <2>2 DEF Atomic!Next
<1>3. ASSUME NEW c \in Caller,
             BeginFails(c) \/ Rollback(c) \/ RollbackFails(c) \/ CommitAnswered(c)
               \/ CommitAnswerLost(c) \/ CommitRefused(c)
      PROVE  Atomic!Next
  <2>1. \A k \in Session : (state[k] = "late" \/ state'[k] = "late") =>
                            state'[k] = state[k] /\ draft'[k] = draft[k]
    BY <1>0, <1>3
    DEF IInv, TypeOK, HeldInv, BeginFails, Rollback, RollbackFails, CommitAnswered,
        CommitAnswerLost, CommitRefused, EndTx, server
  <2>2. UNCHANGED db /\ UNCHANGED lates
    BY <1>0, <1>3, <2>1, LatesFrame
    DEF BeginFails, Rollback, RollbackFails, CommitAnswered, CommitAnswerLost,
        CommitRefused, server
  <2>3. CASE BeginFails(c) \/ Rollback(c) \/ RollbackFails(c)
    BY <1>2, <2>2, <2>3 DEF BeginFails, Rollback, RollbackFails
  <2>4. CASE CommitAnswered(c)
    BY <1>2, <2>2, <2>4 DEF CommitAnswered
  <2>5. CASE CommitAnswerLost(c) \/ CommitRefused(c)
    BY <1>2, <2>2, <2>5 DEF CommitAnswerLost, CommitRefused
  <2> QED
    BY <1>3, <2>3, <2>4, <2>5
<1>4. ASSUME NEW c \in Caller, Commit(c) PROVE Atomic!Apply(c)
  <2>1. held[c] \in Session /\ state[held[c]] = "open"
    BY <1>4, Holds DEF Commit
  <2>2. db' = Written(db, fn[c])
    BY <1>4, DraftIsComplete DEF Commit
  <2>3. calls' = [calls EXCEPT ![c].applied = TRUE]
    <3>1. pc' = [pc EXCEPT ![c] = "committed"] /\ fn' = fn
      BY <1>4 DEF Commit, Goto
    <3> QED
      BY <1>0, <1>4, <3>1 DEF Commit, TypeOK, calls
  <2>4. UNCHANGED lates
    BY <1>0, <1>4, <2>1, LatesFrame DEF Commit, EndTx, TypeOK
  <2>5. calls[c].busy /\ ~calls[c].applied /\ calls[c].writes = fn[c]
    BY <1>4 DEF Commit, calls
  <2> QED
    BY <1>4, <2>2, <2>3, <2>4, <2>5, SameOperators DEF Atomic!Apply, Commit, calls, lates
<1>5. ASSUME NEW c \in Caller, NEW k \in Session, k = held[c], CommitLost(c)
      PROVE  Atomic!GiveUp(c, k)
  <2>1. state[k] = "open" /\ draft[k] = fn[c]
    BY <1>5, Holds, DraftIsComplete DEF CommitLost
  <2>2. calls[c].busy /\ ~calls[c].applied /\ calls[c].writes = fn[c]
    BY <1>5 DEF CommitLost, calls
  <2>3. lates[k] = Nothing /\ lates' = [lates EXCEPT ![k] = fn[c]]
    <3>1. state' = [state EXCEPT ![k] = "late"] /\ draft' = draft
      BY <1>5 DEF CommitLost
    <3>2. \A l \in Session : lates'[l] = IF l = k THEN fn[c] ELSE lates[l]
      BY <1>0, <2>1, <3>1 DEF TypeOK, lates
    <3> QED
      BY <2>1, <3>2 DEF lates
  <2> QED
    BY <1>0, <1>5, <2>2, <2>3, CallsReturn, SameOperators
    DEF Atomic!GiveUp, CommitLost, calls, lates
<1>6. ASSUME NEW k \in Session, CommitLate(k) PROVE Atomic!ApplyLate(k)
  <2>1. lates[k] = draft[k] /\ lates' = [lates EXCEPT ![k] = Nothing]
    BY <1>0, <1>6 DEF CommitLate, EndTx, TypeOK, lates
  <2> QED
    BY <1>6, <2>1, SameOperators DEF Atomic!ApplyLate, CommitLate, client, calls, lates
<1>7. ASSUME NEW k \in Session, Notice(k) PROVE Atomic!DropLate(k)
  <2>1. lates' = [lates EXCEPT ![k] = Nothing]
    BY <1>0, <1>7 DEF Notice, EndTx, TypeOK, lates
  <2> QED
    BY <1>7, <2>1, SameOperators DEF Atomic!DropLate, Notice, client, calls, lates
<1>8. CASE UNCHANGED vars
  BY <1>8 DEF vars, calls, lates
<1> QED
  <2>1. ASSUME NEW c \in Caller, NEW w \in Programs, Call(c, w) PROVE Atomic!Next
    BY <1>1, <2>1, TxAssumption, SameOperators DEF Atomic!Next
  <2>2. ASSUME NEW c \in Caller, Commit(c) PROVE Atomic!Next
    BY <1>4, <2>2 DEF Atomic!Next
  <2>3. ASSUME NEW c \in Caller, CommitLost(c) PROVE Atomic!Next
    <3>1. PICK k \in Session : k = held[c]
      BY <2>3, Holds DEF CommitLost
    <3>2. Atomic!GiveUp(c, k)
      BY <1>5, <2>3, <3>1
    <3> QED
      BY <3>2 DEF Atomic!Next
  <2>4. ASSUME NEW k \in Session, CommitLate(k) \/ Notice(k) PROVE Atomic!Next
    BY <1>6, <1>7, <2>4 DEF Atomic!Next
  <2> QED
    BY <1>0, <1>3, <1>8, <2>1, <2>2, <2>3, <2>4, InvisibleSteps
    DEF Next, Finish, BreakDeadlock

\* WithTx on its pool and its server implements AtomicWrites: a call takes
\* effect at once or not at all, as its result says.
THEOREM CallsAreAtomic == Spec => ImplementsAtomicWrites
<1>1. Spec => Atomic!Init /\ [][Atomic!Next]_Atomic!vars
  BY AtomicInit, AtomicNext, Invariant, PTL DEF Spec
<1> QED
  BY <1>1 DEF ImplementsAtomicWrites, Atomic!Spec

=============================================================================
