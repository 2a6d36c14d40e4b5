------------------------- MODULE PolicyCacheProofs --------------------------
(***************************************************************************)
(* Proofs about PolicyCache, for every set of tokens and goroutines, every *)
(* TTL and every bound that satisfies CacheAssumption.                     *)
(***************************************************************************)
EXTENDS PolicyCache, TLAPS

-----------------------------------------------------------------------------
(* Types                                                                   *)

\* The call records have their type.
LEMMA IdleType ==
    /\ Idle \in [op: {"idle", "get", "invalidate"}, tokens: SUBSET Token, low: Nat]
    /\ NoQuery \in [asked: 0..MaxTime, seen: Nat]
<1> QED
  BY CacheAssumption DEF Idle, NoQuery

\* Larger is one of its arguments and no less than either.
LEMMA LargerIsUpperBound ==
    ASSUME NEW m \in Nat, NEW n \in Nat
    PROVE  /\ Larger(m, n) \in Nat
           /\ Larger(m, n) >= m /\ Larger(m, n) >= n
           /\ Larger(m, n) \in {m, n}
<1> QED
  BY DEF Larger

\* What Unlock and return does to its variables is within their types.
LEMMA UnlockType ==
    ASSUME TypeOK, NEW p \in Caller, UnlockAndReturn(p)
    PROVE  /\ writer' \in Caller \union {NoOne}
           /\ pc' \in [Caller -> Place]
           /\ call' \in [Caller -> [op: {"idle", "get", "invalidate"},
                                    tokens: SUBSET Token, low: Nat]]
           /\ query' \in [Caller -> [asked: 0..MaxTime, seen: Nat]]
<1>1. pc' \in [Caller -> Place]
  BY DEF TypeOK, UnlockAndReturn, Place, Waiting, Writing
<1> QED
  BY <1>1, IdleType DEF TypeOK, UnlockAndReturn

\* Sequences have a length.
LEMMA LengthInNat ==
    ASSUME NEW S, NEW s \in Seq(S)
    PROVE  Len(s) \in Nat
<1> QED
  OBVIOUS

\* The elements of a sequence over S are in S.
LEMMA ElementOfSeq ==
    ASSUME NEW S, NEW s \in Seq(S), NEW i \in 1..Len(s)
    PROVE  s[i] \in S
<1> QED
  OBVIOUS

\* A sequence grows by an element at its end.
LEMMA AppendToSeq ==
    ASSUME NEW S, NEW s \in Seq(S), NEW e \in S
    PROVE  /\ Append(s, e) \in Seq(S)
           /\ Len(Append(s, e)) = Len(s) + 1
           /\ \A i \in 1..Len(s) : Append(s, e)[i] = s[i]
           /\ Append(s, e)[Len(s) + 1] = e
<1> QED
  OBVIOUS

\* The contents of a row are a sequence, and so have a length.
LEMMA LogLength ==
    ASSUME TypeOK, NEW t \in Token
    PROVE  /\ log[t] \in Seq([row: Row, from: 0..MaxTime])
           /\ Len(log[t]) \in Nat
<1>1. log[t] \in Seq([row: Row, from: 0..MaxTime])
  BY DEF TypeOK
<1> QED
  BY <1>1, LengthInNat

\* Each content of a row has a time at which it came.
LEMMA RowType ==
    ASSUME TypeOK, NEW t \in Token, NEW i \in 1..Len(log[t])
    PROVE  log[t][i].row \in Row /\ log[t][i].from \in Nat
<1>1. log[t][i] \in [row: Row, from: 0..MaxTime]
  BY LogLength, ElementOfSeq
<1> QED
  BY <1>1, CacheAssumption

\* The clock, the floors and the queries are counted in naturals.
LEMMA CountedInNat ==
    ASSUME TypeOK
    PROVE  /\ now \in Nat
           /\ \A t \in Token : floor[t] \in Nat
           /\ \A p \in Caller : query[p].asked \in Nat /\ query[p].seen \in Nat
<1> QED
  BY CacheAssumption DEF TypeOK

\* The cache starts with every variable in its type.
LEMMA TypeInit == Init => TypeOK
<1> SUFFICES ASSUME Init PROVE TypeOK
  OBVIOUS
<1>1. log \in [Token -> Seq([row: Row, from: 0..MaxTime])]
  <2>1. ASSUME NEW r \in Row
        PROVE  <<[row |-> r, from |-> 0]>> \in Seq([row: Row, from: 0..MaxTime])
    BY CacheAssumption
  <2> QED
    BY <2>1 DEF Init
<1>2. now \in 0..MaxTime
  BY CacheAssumption DEF Init
<1> QED
  BY <1>1, <1>2, IdleType DEF Init, TypeOK, Place

\* No step leaves the types.
LEMMA TypeNext == IInv /\ [Next]_vars => TypeOK'
<1> SUFFICES ASSUME IInv, [Next]_vars PROVE TypeOK'
  OBVIOUS
<1> USE DEF TypeOK, Place, Waiting, Writing, Goto
<1>0. TypeOK /\ IInv
  BY DEF IInv
<1>1. ASSUME NEW p \in Caller, RLock(p) PROVE TypeOK'
  BY <1>0, <1>1 DEF RLock
<1>2. ASSUME NEW p \in Caller, Announce(p) PROVE TypeOK'
  BY <1>0, <1>2 DEF Announce
<1>3. ASSUME NEW p \in Caller, Acquire(p) PROVE TypeOK'
  BY <1>0, <1>3 DEF Acquire
<1>4. ASSUME NEW p \in Caller, NEW t \in Token, Get(p, t) PROVE TypeOK'
  BY <1>0, <1>4 DEF Get
<1>5. ASSUME NEW p \in Caller, NEW t \in Token, Look(p, t) PROVE TypeOK'
  <2>1. ASSUME Fresh(t), Goto(p, "idle"), ReturnCached(p, t),
               call' = [call EXCEPT ![p] = Idle]
        PROVE  TypeOK'
    <3>1. cache[t].version \in Nat
      BY <1>0, <2>1 DEF Fresh, Entry
    <3>2. ret' \in [Caller -> Nat] /\ floor' \in [Token -> Nat]
      BY <1>0, <2>1, <3>1, LargerIsUpperBound DEF ReturnCached
    <3> QED
      BY <1>0, <1>5, <2>1, <3>2, IdleType DEF Look
  <2>2. CASE UNCHANGED <<call, ret, floor>>
    BY <1>0, <1>5, <2>2 DEF Look
  <2> QED
    BY <1>5, <2>1, <2>2 DEF Look
<1>6. ASSUME NEW p \in Caller, NEW t \in Token, RecheckHit(p, t) PROVE TypeOK'
  BY <1>0, <1>6, UnlockType, LargerIsUpperBound DEF RecheckHit, ReturnCached, Fresh, Entry
<1>7. ASSUME NEW p \in Caller, NEW t \in Token, Ask(p, t) PROVE TypeOK'
  BY <1>0, <1>7 DEF Ask
<1>8. ASSUME NEW p \in Caller, NEW t \in Token, Evaluate(p, t) PROVE TypeOK'
  BY <1>0, <1>8, LogLength DEF Evaluate
<1>9. ASSUME NEW p \in Caller, QueryFails(p) PROVE TypeOK'
  BY <1>0, <1>9, UnlockType DEF QueryFails
<1>10. ASSUME NEW p \in Caller, NEW t \in Token, Store(p, t) PROVE TypeOK'
  <2>1. [version |-> query[p].seen, loadedAt |-> now] \in Entry
    BY <1>0, CacheAssumption DEF Entry
  <2> QED
    BY <1>0, <1>10, <2>1, UnlockType, LargerIsUpperBound DEF Store
<1>11. ASSUME NEW p \in Caller, NEW t \in Token, RefuseRow(p, t) PROVE TypeOK'
  BY <1>0, <1>11, UnlockType, LargerIsUpperBound DEF RefuseRow
<1>12. ASSUME NEW p \in Caller, NEW T \in SUBSET Token, BeginInvalidate(p, T)
       PROVE  TypeOK'
  BY <1>0, <1>12 DEF BeginInvalidate
<1>13. ASSUME NEW p \in Caller, Delete(p) PROVE TypeOK'
  <2>1. floor' \in [Token -> Nat]
    BY <1>0, <1>13, LogLength DEF Delete
  <2> QED
    BY <1>0, <1>13, <2>1, UnlockType DEF Delete
<1>14. ASSUME NEW t \in Token, ChangeRow(t) PROVE TypeOK'
  <2>1. ASSUME NEW r \in Row
        PROVE  Append(log[t], [row |-> r, from |-> now])
                 \in Seq([row: Row, from: 0..MaxTime])
    <3>1. [row |-> r, from |-> now] \in [row: Row, from: 0..MaxTime]
      BY <1>0
    <3> QED
      BY <1>0, <3>1, LogLength, AppendToSeq
  <2>2. log' \in [Token -> Seq([row: Row, from: 0..MaxTime])]
    <3>1. PICK r \in Row :
            log' = [log EXCEPT ![t] = Append(@, [row |-> r, from |-> now])]
      BY <1>14 DEF ChangeRow
    <3>2. log \in [Token -> Seq([row: Row, from: 0..MaxTime])]
      BY <1>0
    <3> HIDE <1>0 DEF TypeOK
    <3> QED
      BY <2>1, <3>1, <3>2
  <2> QED
    BY <1>0, <1>14, <2>2 DEF ChangeRow
<1>16. CASE Tick
  <2>1. now' \in 0..MaxTime
    BY <1>0, <1>16, CacheAssumption DEF Tick
  <2> QED
    BY <1>0, <1>16, <2>1 DEF Tick
<1>17. CASE UNCHANGED vars
  BY <1>0, <1>17 DEF vars
<1> QED
  BY <1>1, <1>2, <1>3, <1>4, <1>5, <1>6, <1>7, <1>8, <1>9, <1>10, <1>11, <1>12,
     <1>13, <1>14, <1>16, <1>17 DEF Next, Step, Answer

-----------------------------------------------------------------------------
(* The lock                                                                *)

\* Unlock leaves a state in which the lock is free.
LEMMA UnlockKeepsLock ==
    ASSUME TypeOK, LockInv, NEW p \in Caller, pc[p] \in Writing, UnlockAndReturn(p)
    PROVE  LockInv'
<1>1. \A q \in Caller : pc[q] \in {"drain"} \union Writing => q = p
  BY DEF LockInv
<1>2. \A q \in Caller : pc'[q] \notin {"drain"} \union Writing
  BY <1>1 DEF TypeOK, UnlockAndReturn, Writing
<1>3. writer' = NoOne /\ NoOne \notin Caller
  BY CacheAssumption DEF UnlockAndReturn
<1> QED
  BY <1>2, <1>3 DEF LockInv, Writing

\* A step that moves only p, and neither into the lock nor out of it, keeps it.
LEMMA MoveKeepsLock ==
    ASSUME TypeOK, LockInv, NEW p \in Caller, NEW place \in Place,
           Goto(p, place), writer' = writer,
           (pc[p] \in {"drain"} \union Writing) <=> (place \in {"drain"} \union Writing),
           place = "look" => writer = NoOne,
           pc[p] \notin Writing => place \notin Writing \/ Readers = {}
    PROVE  LockInv'
<1>1. \A q \in Caller : writer' = q <=> pc'[q] \in {"drain"} \union Writing
  BY DEF LockInv, TypeOK, Goto
<1>2. ASSUME NEW q \in Caller, pc'[q] \in Writing, NEW r \in Caller, pc'[r] = "look"
      PROVE  FALSE
  <2>1. CASE place = "look"
    <3>1. writer = NoOne /\ NoOne \notin Caller
      BY <2>1, CacheAssumption
    <3> QED
      BY <1>1, <1>2, <3>1
  <2>2. CASE place # "look"
    <3>1. r # p /\ r \in Readers
      BY <1>2, <2>2 DEF TypeOK, Goto, Readers
    <3>2. pc[p] \notin Writing /\ pc[q] \notin Writing
      BY <3>1 DEF LockInv
    <3> QED
      BY <1>2, <3>1, <3>2 DEF TypeOK, Goto
  <2> QED
    BY <2>1, <2>2
<1> QED
  BY <1>1, <1>2 DEF LockInv, Readers

\* Nobody has the lock at the beginning.
LEMMA LockInit == Init => LockInv
<1> QED
  BY CacheAssumption DEF Init, LockInv, Writing

\* Every step keeps the lock: what sync.RWMutex guarantees, given that
\* GetPolicyData, Invalidate and InvalidateAll lock and unlock in pairs.
LEMMA LockNext == IInv /\ [Next]_vars => LockInv'
<1> SUFFICES ASSUME IInv, [Next]_vars PROVE LockInv'
  OBVIOUS
<1> USE DEF Place, Waiting, Writing
<1>0. TypeOK /\ LockInv
  BY DEF IInv
<1>1. ASSUME NEW p \in Caller, RLock(p) PROVE LockInv'
  BY <1>0, <1>1, MoveKeepsLock DEF RLock
<1>2. ASSUME NEW p \in Caller, Announce(p) PROVE LockInv'
  <2>1. \A q \in Caller : pc[q] \notin {"drain"} \union Writing
    BY <1>0, <1>2, CacheAssumption DEF Announce, LockInv
  <2>2. writer' = p /\ pc' = [pc EXCEPT ![p] = "drain"]
    BY <1>2 DEF Announce, Goto
  <2> QED
    BY <1>0, <2>1, <2>2 DEF TypeOK, LockInv
<1>3. ASSUME NEW p \in Caller, Acquire(p) PROVE LockInv'
  BY <1>0, <1>3, MoveKeepsLock DEF Acquire
<1>4. ASSUME NEW p \in Caller, NEW t \in Token, Get(p, t) PROVE LockInv'
  BY <1>0, <1>4, MoveKeepsLock DEF Get
<1>5. ASSUME NEW p \in Caller, NEW t \in Token, Look(p, t) PROVE LockInv'
  BY <1>0, <1>5, MoveKeepsLock DEF Look
<1>6. ASSUME NEW p \in Caller, NEW t \in Token, RecheckHit(p, t) PROVE LockInv'
  BY <1>0, <1>6, UnlockKeepsLock DEF RecheckHit
<1>7. ASSUME NEW p \in Caller, NEW t \in Token, Ask(p, t) PROVE LockInv'
  BY <1>0, <1>7, MoveKeepsLock DEF Ask
<1>8. ASSUME NEW p \in Caller, NEW t \in Token, Evaluate(p, t) PROVE LockInv'
  BY <1>0, <1>8, MoveKeepsLock DEF Evaluate
<1>9. ASSUME NEW p \in Caller, QueryFails(p) PROVE LockInv'
  BY <1>0, <1>9, UnlockKeepsLock DEF QueryFails
<1>10. ASSUME NEW p \in Caller, NEW t \in Token, Store(p, t) PROVE LockInv'
  BY <1>0, <1>10, UnlockKeepsLock DEF Store
<1>11. ASSUME NEW p \in Caller, NEW t \in Token, RefuseRow(p, t) PROVE LockInv'
  BY <1>0, <1>11, UnlockKeepsLock DEF RefuseRow
<1>12. ASSUME NEW p \in Caller, NEW T \in SUBSET Token, BeginInvalidate(p, T)
       PROVE  LockInv'
  BY <1>0, <1>12, MoveKeepsLock DEF BeginInvalidate
<1>13. ASSUME NEW p \in Caller, Delete(p) PROVE LockInv'
  BY <1>0, <1>13, UnlockKeepsLock DEF Delete
<1>14. CASE UNCHANGED <<writer, pc>>
  BY <1>0, <1>14 DEF LockInv, Readers
<1>15. (\E t \in Token : ChangeRow(t)) \/ Tick \/ UNCHANGED vars
       => UNCHANGED <<writer, pc>>
  BY DEF ChangeRow, Tick, vars
<1> QED
  BY <1>1, <1>2, <1>3, <1>4, <1>5, <1>6, <1>7, <1>8, <1>9, <1>10, <1>11, <1>12,
     <1>13, <1>14, <1>15 DEF Next, Step, Answer

-----------------------------------------------------------------------------
(* Rows and entries                                                        *)

\* What a row was does not change when its contents do.
LEMMA RowGrows ==
    ASSUME TypeOK, NEW t \in Token, ChangeRow(t), NEW u \in Token
    PROVE  /\ Len(log[u]) \in Nat /\ Len(log'[u]) \in Nat
           /\ Len(log[u]) <= Len(log'[u])
           /\ \A i \in 1..Len(log[u]) : log'[u][i] = log[u][i]
           /\ u # t => log'[u] = log[u]
           /\ u = t => Len(log'[u]) = Len(log[u]) + 1 /\ log'[u][Len(log[u]) + 1].from = now
<1>1. PICK r \in Row : log' = [log EXCEPT ![t] = Append(@, [row |-> r, from |-> now])]
  BY DEF ChangeRow
<1>2. log \in [Token -> Seq([row: Row, from: 0..MaxTime])] /\ now \in 0..MaxTime
  BY DEF TypeOK
<1>3. CASE u = t
  <2> DEFINE e == [row |-> r, from |-> now]
  <2>1. e \in [row: Row, from: 0..MaxTime] /\ e.from = now
    BY <1>2
  <2>2. log'[u] = Append(log[u], e)
    BY <1>1, <1>2, <1>3
  <2> HIDE DEF e
  <2> QED
    BY <1>2, <1>3, <2>1, <2>2, AppendToSeq, LogLength
<1>4. CASE u # t
  BY <1>1, <1>2, <1>4, LogLength
<1> QED
  BY <1>3, <1>4

\* A version that was present since some time stays so when the row changes.
LEMMA StillPresent ==
    ASSUME TypeOK, NEW t \in Token, ChangeRow(t), NEW u \in Token,
           NEW v \in 1..Len(log[u]), NEW since \in Int, since <= now,
           PresentSince(u, v, since)
    PROVE  v = Len(log'[u]) \/ log'[u][v + 1].from >= since
<1>1. CASE v = Len(log[u])
  BY <1>1, RowGrows DEF TypeOK
<1>2. CASE v # Len(log[u])
  <2>1. v + 1 \in 1..Len(log[u]) /\ log[u][v + 1].from >= since
    BY <1>2, LogLength DEF PresentSince
  <2> QED
    BY <2>1, RowGrows
<1> QED
  BY <1>1, <1>2

\* An entry gets no fresher as time passes.
LEMMA FreshFades ==
    ASSUME TypeOK, NEW t \in Token, cache'[t] = cache[t],
           now' \in Nat, now' >= now, Fresh(t)'
    PROVE  Fresh(t)
<1> QED
  BY CacheAssumption DEF TypeOK, Fresh, Entry

\* The caches are empty at the beginning.
LEMMA CacheInit == Init => \A t \in Token : CacheInv(t) /\ Len(log[t]) > 0
<1> SUFFICES ASSUME Init, NEW t \in Token PROVE CacheInv(t) /\ Len(log[t]) > 0
  OBVIOUS
<1>1. PICK r \in Row : log[t] = <<[row |-> r, from |-> 0]>>
  BY DEF Init
<1>2. Len(log[t]) = 1
  BY <1>1
<1>3. floor[t] = 0 /\ cache[t] = Absent
  BY DEF Init
<1> QED
  BY <1>2, <1>3 DEF CacheInv, Fresh

\* An entry is left alone by a step that changes neither it nor its row, its
\* floor nor the clock.
LEMMA CacheFrame ==
    ASSUME NEW t \in Token, CacheInv(t), cache'[t] = cache[t], log'[t] = log[t],
           floor'[t] = floor[t], now' = now
    PROVE  CacheInv(t)'
<1> QED
  BY DEF CacheInv, Fresh, PresentSince

\* A call that a fresh entry answers raises the floor to that entry at most.
LEMMA ReturnKeepsCache ==
    ASSUME TypeOK, NEW t \in Token, NEW p \in Caller, CacheInv(t), Fresh(t),
           ReturnCached(p, t), UNCHANGED <<now, log, cache>>, NEW u \in Token, CacheInv(u)
    PROVE  CacheInv(u)'
<1>1. CASE u # t
  <2>1. floor'[u] = floor[u]
    BY <1>1 DEF ReturnCached, TypeOK
  <2> QED
    BY <2>1, CacheFrame
<1>2. CASE u = t
  <2>1. floor'[t] = cache[t].version /\ cache[t].version \in 1..Len(log[t])
    <3>1. cache[t].version \in 1..Len(log[t]) /\ floor[t] <= cache[t].version
      BY DEF CacheInv, Fresh
    <3>2. floor'[t] = Larger(floor[t], cache[t].version)
      BY DEF ReturnCached, TypeOK
    <3> QED
      BY <3>1, <3>2, LogLength, CountedInNat DEF Larger
  <2> QED
    BY <1>2, <2>1, LogLength DEF CacheInv, Fresh, PresentSince
<1> QED
  BY <1>1, <1>2

\* Every step keeps what is said of entries: the double-checked load of
\* GetPolicyData, the invalidations, and whatever happens to the rows.
LEMMA CacheNext == IInv /\ [Next]_vars => \A t \in Token : CacheInv(t)'
<1> SUFFICES ASSUME IInv, [Next]_vars, NEW u \in Token PROVE CacheInv(u)'
  OBVIOUS
<1>0. TypeOK /\ CacheInv(u)
  BY DEF IInv
<1>1. CASE UNCHANGED <<now, log, cache, floor>>
  BY <1>0, <1>1, CacheFrame
<1>2. ASSUME NEW p \in Caller, NEW t \in Token, Look(p, t) \/ RecheckHit(p, t)
      PROVE  CacheInv(u)'
  <2>1. CASE Fresh(t) /\ ReturnCached(p, t)
    <3>1. UNCHANGED <<now, log, cache>>
      BY <1>2 DEF Look, RecheckHit
    <3> QED
      BY <1>0, <2>1, <3>1, ReturnKeepsCache DEF IInv
  <2>2. CASE ~Fresh(t) /\ UNCHANGED floor
    BY <1>1, <1>2, <2>2 DEF Look, RecheckHit
  <2> QED
    BY <1>2, <2>1, <2>2 DEF Look, RecheckHit
<1>3. ASSUME NEW p \in Caller, NEW t \in Token, Store(p, t) PROVE CacheInv(u)'
  <2>1. CASE u # t
    BY <1>0, <1>3, <2>1, CacheFrame DEF Store, TypeOK
  <2>2. CASE u = t
    <3>1. /\ query[p].seen \in 1..Len(log[t])
          /\ floor[t] <= query[p].seen
          /\ PresentSince(t, query[p].seen, query[p].asked)
          /\ now <= query[p].asked + MaxLatency
      BY <1>3 DEF IInv, QueryInv, Store
    <3>2. cache'[t] = [version |-> query[p].seen, loadedAt |-> now]
      BY <1>0, <1>3 DEF Store, TypeOK
    <3>3. floor'[t] = query[p].seen
      BY <1>0, <1>3, <3>1, LogLength DEF Store, TypeOK, Larger
    <3>4. now' = now /\ log' = log /\ log[t][query[p].seen].row = "good"
      BY <1>3 DEF Store
    <3>5. query[p].seen = Len(log[t])
            \/ log[t][query[p].seen + 1].from >= now - MaxLatency
      <4>1. CASE query[p].seen # Len(log[t])
        <5>1. query[p].seen + 1 \in 1..Len(log[t])
          BY <3>1, <4>1, LogLength
        <5>2. log[t][query[p].seen + 1].from >= query[p].asked
          BY <3>1, <4>1 DEF PresentSince
        <5>3. log[t][query[p].seen + 1].from \in Nat
          BY <5>1, <1>0, RowType
        <5> QED
          BY <1>0, <3>1, <5>2, <5>3, CountedInNat, CacheAssumption
      <4> QED
        BY <4>1
    <3>6. now \in Nat
      BY <1>0, CacheAssumption DEF TypeOK
    <3> QED
      BY <2>2, <3>1, <3>2, <3>3, <3>4, <3>5, <3>6, LogLength, <1>0
      DEF CacheInv, PresentSince
  <2> QED
    BY <2>1, <2>2
<1>4. ASSUME NEW p \in Caller, NEW t \in Token, RefuseRow(p, t) PROVE CacheInv(u)'
  <2>1. CASE u # t
    BY <1>0, <1>4, <2>1, CacheFrame DEF RefuseRow, TypeOK
  <2>2. CASE u = t
    <3>1. query[p].seen \in 1..Len(log[t]) /\ ~Fresh(t)
      BY <1>4 DEF IInv, QueryInv, RefuseRow
    <3>2. floor'[t] <= Len(log[t])
      <4>1. floor'[t] = Larger(floor[t], query[p].seen)
        BY <1>0, <1>4 DEF RefuseRow, TypeOK
      <4>2. floor[t] <= Len(log[t])
        BY <1>0, <2>2 DEF CacheInv
      <4> QED
        BY <1>0, <3>1, <4>1, <4>2, LogLength, CountedInNat DEF Larger
    <3>3. UNCHANGED <<now, log, cache>>
      BY <1>4 DEF RefuseRow
    <3> QED
      BY <1>0, <2>2, <3>1, <3>2, <3>3 DEF CacheInv, Fresh, PresentSince
  <2> QED
    BY <2>1, <2>2
<1>5. ASSUME NEW p \in Caller, Delete(p) PROVE CacheInv(u)'
  <2>1. CASE u \in call[p].tokens
    BY <1>0, <1>5, <2>1, LogLength DEF Delete, CacheInv, Fresh
  <2>2. CASE u \notin call[p].tokens
    BY <1>0, <1>5, <2>2, CacheFrame DEF Delete
  <2> QED
    BY <2>1, <2>2
<1>6. ASSUME NEW t \in Token, ChangeRow(t) PROVE CacheInv(u)'
  <2>1. UNCHANGED <<now, cache, floor>>
    BY <1>6 DEF ChangeRow
  <2>2. floor'[u] <= Len(log'[u])
    <3>1. floor[u] <= Len(log[u])
      BY <1>0 DEF CacheInv
    <3> QED
      BY <1>0, <1>6, <2>1, <3>1, RowGrows, CountedInNat
  <2>3. CASE cache[u] # Absent
    <3> DEFINE since == cache[u].loadedAt - MaxLatency
    <3>1. cache[u].version \in 1..Len(log[u]) /\ PresentSince(u, cache[u].version, since)
      BY <1>0, <2>3 DEF CacheInv
    <3>2. since \in Int /\ since <= now
      <4>1. cache[u].loadedAt \in Nat /\ cache[u].loadedAt <= now
        BY <1>0, <2>3 DEF CacheInv, TypeOK, Entry
      <4> QED
        BY <1>0, <4>1, CountedInNat, CacheAssumption
    <3> HIDE DEF since
    <3>3. cache[u].version = Len(log'[u]) \/ log'[u][cache[u].version + 1].from >= since
      BY <1>0, <1>6, <3>1, <3>2, StillPresent
    <3>4. cache[u].version \in 1..Len(log'[u])
          /\ log'[u][cache[u].version] = log[u][cache[u].version]
      BY <1>0, <1>6, <3>1, RowGrows
    <3> QED
      BY <1>0, <2>1, <2>2, <2>3, <3>3, <3>4 DEF CacheInv, Fresh, PresentSince, since
  <2> QED
    BY <2>1, <2>2, <2>3 DEF CacheInv, Fresh
<1>7. CASE Tick
  <2>1. now' = now + 1 /\ UNCHANGED <<log, cache, floor>> /\ now \in Nat
    BY <1>0, <1>7, CacheAssumption DEF Tick, TypeOK
  <2>2. Fresh(u)' => Fresh(u)
    BY <1>0, <2>1, FreshFades
  <2>3. cache[u] # Absent => cache[u].loadedAt <= now'
    BY <1>0, <2>1 DEF CacheInv, TypeOK, Entry
  <2> QED
    BY <1>0, <2>1, <2>2, <2>3 DEF CacheInv, PresentSince
<1>8. ASSUME NEW p \in Caller,
             \/ RLock(p) \/ Announce(p) \/ Acquire(p) \/ QueryFails(p)
             \/ \E t \in Token : Get(p, t) \/ Ask(p, t) \/ Evaluate(p, t)
             \/ \E T \in SUBSET Token : BeginInvalidate(p, T)
      PROVE  CacheInv(u)'
  BY <1>1, <1>8 DEF RLock, Announce, Acquire, QueryFails, Get, Ask, Evaluate, BeginInvalidate
<1>10. CASE UNCHANGED vars
  BY <1>1, <1>10 DEF vars
<1> QED
  BY <1>2, <1>3, <1>4, <1>5, <1>6, <1>7, <1>8, <1>10 DEF Next, Step, Answer

-----------------------------------------------------------------------------
(* Calls                                                                   *)

\* The floor never falls: a call keeps what it was promised when it began.
LEMMA FloorRises == IInv /\ [Next]_vars => \A t \in Token : floor[t] <= floor'[t]
<1> SUFFICES ASSUME IInv, [Next]_vars, NEW u \in Token PROVE floor[u] <= floor'[u]
  OBVIOUS
<1>0. TypeOK /\ CacheInv(u) /\ floor[u] \in Nat
  BY CountedInNat DEF IInv
<1>1. CASE floor' = floor
  BY <1>0, <1>1
<1>2. ASSUME NEW t \in Token, NEW v \in Nat, floor' = [floor EXCEPT ![t] = Larger(@, v)]
      PROVE  floor[u] <= floor'[u]
  <2>1. floor'[u] = IF u = t THEN Larger(floor[t], v) ELSE floor[u]
    BY <1>0, <1>2 DEF TypeOK
  <2>2. Larger(floor[t], v) >= floor[t]
    BY <1>0, CountedInNat, LargerIsUpperBound
  <2> QED
    BY <1>0, <2>1, <2>2, CountedInNat
<1>3. ASSUME NEW p \in Caller, NEW t \in Token, Look(p, t) \/ RecheckHit(p, t)
      PROVE  floor[u] <= floor'[u]
  <2>1. CASE Fresh(t) /\ ReturnCached(p, t)
    <3>1. cache[t].version \in Nat
      BY <1>0, <2>1 DEF Fresh, TypeOK, Entry
    <3> QED
      BY <2>1, <3>1, <1>2 DEF ReturnCached
  <2> QED
    BY <1>1, <1>3, <2>1 DEF Look, RecheckHit
<1>4. ASSUME NEW p \in Caller, NEW t \in Token, Store(p, t) \/ RefuseRow(p, t)
      PROVE  floor[u] <= floor'[u]
  BY <1>0, <1>2, <1>4, CountedInNat DEF Store, RefuseRow
<1>5. ASSUME NEW p \in Caller, Delete(p) PROVE floor[u] <= floor'[u]
  BY <1>0, <1>5 DEF Delete, CacheInv
<1> QED
  BY <1>1, <1>3, <1>4, <1>5 DEF Next, Step, Answer, RLock, Announce, Acquire, Get, Ask,
     Evaluate, QueryFails, BeginInvalidate, ChangeRow, Tick, vars

\* No goroutine has called at the beginning.
LEMMA CallInit == Init => \A p \in Caller : CallInv(p) /\ QueryInv(p)
<1> QED
  BY DEF Init, CallInv, QueryInv, Idle

\* A goroutine that stays where it is, or is let in to read, stays in order.
LEMMA CallFrame ==
    ASSUME TypeOK, TypeOK', \A t \in Token : floor[t] <= floor'[t],
           NEW q \in Caller, CallInv(q), call'[q] = call[q], ret'[q] = ret[q],
           pc'[q] = pc[q] \/ (pc[q] = "parked" /\ pc'[q] = "look")
    PROVE  CallInv(q)'
<1>1. ASSUME NEW t \in Token, call[q].low <= floor[t] PROVE call[q].low <= floor'[t]
  BY <1>1 DEF TypeOK
<1> QED
  BY <1>1 DEF CallInv

\* So does one that returns.
LEMMA ReturnKeepsCall ==
    ASSUME TypeOK, NEW p \in Caller, pc'[p] = "idle", call'[p] = Idle
    PROVE  CallInv(p)'
<1> QED
  BY DEF CallInv, Idle

\* Unlock and return disturbs no call.
LEMMA UnlockKeepsCalls ==
    ASSUME TypeOK, TypeOK', \A t \in Token : floor[t] <= floor'[t],
           NEW p \in Caller, UnlockAndReturn(p), NEW q \in Caller, CallInv(q),
           q # p => ret'[q] = ret[q]
    PROVE  CallInv(q)'
<1>1. CASE q = p
  BY <1>1, ReturnKeepsCall DEF UnlockAndReturn, TypeOK
<1>2. CASE q # p
  BY <1>2, CallFrame DEF UnlockAndReturn, TypeOK
<1> QED
  BY <1>1, <1>2

\* A goroutine that moves on in its call stays in order when its place is one
\* of the call's.
LEMMA MoveKeepsCalls ==
    ASSUME TypeOK, TypeOK', UNCHANGED <<call, floor, ret>>, NEW p \in Caller,
           NEW place \in Place, Goto(p, place), pc[p] # "idle", place # "idle",
           place \in {"rlock", "parked", "look", "recheck", "query", "answered"} =>
               call[p].op = "get",
           place = "delete" => call[p].op = "invalidate",
           \A r \in Caller : CallInv(r), NEW q \in Caller
    PROVE  CallInv(q)'
<1>0. \A t \in Token : floor[t] <= floor'[t]
  BY CountedInNat
<1>1. CASE q # p
  BY <1>0, <1>1, CallFrame DEF Goto, TypeOK
<1>2. CASE q = p
  <2>1. pc'[p] = place /\ call'[p] = call[p] /\ CallInv(p)
    BY DEF Goto, TypeOK
  <2>2. call[p] # Idle
    BY <2>1 DEF CallInv
  <2>3. call[p].op # "idle"
    BY <2>1 DEF CallInv, TypeOK, Place, Waiting, Writing
  <2> QED
    BY <1>2, <2>1, <2>2, <2>3 DEF CallInv
<1> QED
  BY <1>1, <1>2

\* Every step keeps the goroutines' places in agreement with their calls.
LEMMA CallNext == IInv /\ [Next]_vars /\ TypeOK' => \A q \in Caller : CallInv(q)'
<1> SUFFICES ASSUME IInv, [Next]_vars, TypeOK', NEW q \in Caller PROVE CallInv(q)'
  OBVIOUS
<1>0. /\ TypeOK /\ \A r \in Caller : CallInv(r)
      /\ \A t \in Token : floor[t] <= floor'[t]
  BY FloorRises DEF IInv
<1>1. ASSUME NEW p \in Caller, RLock(p) PROVE CallInv(q)'
  BY <1>0, <1>1, MoveKeepsCalls DEF RLock, CallInv, Place, Waiting
<1>2. ASSUME NEW p \in Caller, Announce(p) PROVE CallInv(q)'
  BY <1>0, <1>2, MoveKeepsCalls DEF Announce, Place, Waiting
<1>3. ASSUME NEW p \in Caller, Acquire(p) PROVE CallInv(q)'
  <2>1. call[p].op \in {"get", "invalidate"}
    BY <1>0, <1>3 DEF Acquire, CallInv, TypeOK
  <2> QED
    BY <1>0, <1>3, <2>1, MoveKeepsCalls DEF Acquire, Place, Writing
<1>4. ASSUME NEW p \in Caller, NEW t \in Token, Get(p, t) PROVE CallInv(q)'
  <2>1. CASE q # p
    BY <1>0, <1>4, <2>1, CallFrame DEF Get, Goto, TypeOK
  <2>2. CASE q = p
    <3>1. /\ pc'[p] = "rlock" /\ floor'[t] = floor[t] /\ floor[t] \in Nat
          /\ ret'[p] = 0
          /\ call'[p] = [op |-> "get", tokens |-> {t}, low |-> floor[t]]
      BY <1>0, <1>4, CountedInNat DEF Get, Goto, TypeOK
    <3> QED
      BY <2>2, <3>1 DEF CallInv, Idle
  <2> QED
    BY <2>1, <2>2
<1>5. ASSUME NEW p \in Caller, NEW t \in Token, Look(p, t) PROVE CallInv(q)'
  <2>1. CASE Goto(p, "idle") /\ call' = [call EXCEPT ![p] = Idle] /\ ReturnCached(p, t)
    <3>1. CASE q = p
      BY <1>0, <2>1, <3>1, ReturnKeepsCall DEF Goto, TypeOK
    <3>2. CASE q # p
      BY <1>0, <2>1, <3>2, CallFrame DEF Goto, ReturnCached, TypeOK
    <3> QED
      BY <3>1, <3>2
  <2>2. CASE Goto(p, "wlock") /\ UNCHANGED <<call, ret, floor>>
    BY <1>0, <1>5, <2>2, MoveKeepsCalls DEF Look, Place, Waiting
  <2> QED
    BY <1>5, <2>1, <2>2 DEF Look
<1>6. ASSUME NEW p \in Caller, NEW t \in Token, RecheckHit(p, t) PROVE CallInv(q)'
  BY <1>0, <1>6, UnlockKeepsCalls DEF RecheckHit, ReturnCached, TypeOK
<1>7. ASSUME NEW p \in Caller, NEW t \in Token, Ask(p, t) PROVE CallInv(q)'
  BY <1>0, <1>7, MoveKeepsCalls DEF Ask, CallInv, Place, Writing
<1>8. ASSUME NEW p \in Caller, NEW t \in Token, Evaluate(p, t) PROVE CallInv(q)'
  BY <1>0, <1>8, MoveKeepsCalls DEF Evaluate, CallInv, Place, Writing
<1>9. ASSUME NEW p \in Caller, QueryFails(p) PROVE CallInv(q)'
  BY <1>0, <1>9, UnlockKeepsCalls DEF QueryFails
<1>10. ASSUME NEW p \in Caller, NEW t \in Token, Store(p, t) PROVE CallInv(q)'
  BY <1>0, <1>10, UnlockKeepsCalls DEF Store, TypeOK
<1>11. ASSUME NEW p \in Caller, NEW t \in Token, RefuseRow(p, t) PROVE CallInv(q)'
  BY <1>0, <1>11, UnlockKeepsCalls DEF RefuseRow
<1>12. ASSUME NEW p \in Caller, NEW T \in SUBSET Token, BeginInvalidate(p, T)
       PROVE  CallInv(q)'
  <2>1. CASE q # p
    BY <1>0, <1>12, <2>1, CallFrame DEF BeginInvalidate, Goto, TypeOK
  <2>2. CASE q = p
    <3>1. /\ pc'[p] = "wlock" /\ ret'[p] = 0
          /\ call'[p] = [op |-> "invalidate", tokens |-> T, low |-> 0]
      BY <1>0, <1>12 DEF BeginInvalidate, Goto, TypeOK
    <3> QED
      BY <2>2, <3>1 DEF CallInv, Idle
  <2> QED
    BY <2>1, <2>2
<1>13. ASSUME NEW p \in Caller, Delete(p) PROVE CallInv(q)'
  BY <1>0, <1>13, UnlockKeepsCalls DEF Delete
<1>14. CASE UNCHANGED <<pc, call, ret>>
  BY <1>0, <1>14, CallFrame
<1>15. (\E t \in Token : ChangeRow(t)) \/ Tick \/ UNCHANGED vars
       => UNCHANGED <<pc, call, ret>>
  BY DEF ChangeRow, Tick, vars
<1> QED
  BY <1>1, <1>2, <1>3, <1>4, <1>5, <1>6, <1>7, <1>8, <1>9, <1>10, <1>11, <1>12,
     <1>13, <1>14, <1>15 DEF Next, Step, Answer

-----------------------------------------------------------------------------
(* Queries                                                                 *)

\* Steps of others leave a query alone: they can neither read nor write the
\* map, nor change the clock, the rows or the floors.
LEMMA QueryFrame ==
    ASSUME NEW q \in Caller, QueryInv(q), UNCHANGED <<now, log, cache, floor>>,
           pc'[q] = pc[q], query'[q] = query[q], call'[q] = call[q]
    PROVE  QueryInv(q)'
<1> QED
  BY DEF QueryInv, Fresh, PresentSince

\* A goroutine that works on the map is alone there.
LEMMA OneAtATime ==
    ASSUME IInv, NEW p \in Caller, NEW q \in Caller, p # q, pc[q] \in Writing
    PROVE  pc[p] \notin Writing \union {"look"}
<1>1. pc[p] \notin Writing
  BY DEF IInv, LockInv
<1>2. pc[p] # "look"
  BY DEF IInv, LockInv, Readers
<1> QED
  BY <1>1, <1>2

\* A step of another goroutine does not disturb a query.
LEMMA OthersKeepQuery ==
    ASSUME IInv, NEW p \in Caller, NEW q \in Caller, p # q, QueryInv(q),
           \/ Step(p) \/ Announce(p) \/ Answer(p)
           \/ \E t \in Token : Get(p, t)
           \/ \E T \in SUBSET Token : BeginInvalidate(p, T)
    PROVE  QueryInv(q)'
<1>0. TypeOK
  BY DEF IInv
<1>1. CASE pc[q] \in {"query", "answered"}
  <2>1. pc[p] \notin Writing \union {"look"}
    BY <1>1, OneAtATime DEF Writing
  <2>2. \/ RLock(p) \/ Acquire(p) \/ Announce(p)
        \/ \E t \in Token : Get(p, t)
        \/ \E T \in SUBSET Token : BeginInvalidate(p, T)
    BY <2>1 DEF Step, Answer, Look, RecheckHit, Ask, Store, RefuseRow, Delete,
       Evaluate, QueryFails, Writing
  <2>3. /\ UNCHANGED <<now, log, cache, floor>>
        /\ pc'[q] = pc[q] /\ query'[q] = query[q] /\ call'[q] = call[q]
    BY <1>0, <2>2 DEF RLock, Acquire, Announce, Get, BeginInvalidate, Goto, TypeOK
  <2> QED
    BY <2>3, QueryFrame
<1>2. CASE pc[q] \notin {"query", "answered"}
  <2>1. pc'[q] = pc[q] \/ pc'[q] = "look"
    BY <1>0 DEF TypeOK, Step, Answer, RLock, Acquire, Announce, Get, BeginInvalidate,
       Look, RecheckHit, Ask, Store, RefuseRow, Delete, Evaluate, QueryFails,
       UnlockAndReturn, Goto
  <2> QED
    BY <1>2, <2>1 DEF QueryInv
<1> QED
  BY <1>1, <1>2

\* Every step keeps what is said of queries.
LEMMA QueryNext == IInv /\ [Next]_vars => \A q \in Caller : QueryInv(q)'
<1> SUFFICES ASSUME IInv, [Next]_vars, NEW q \in Caller PROVE QueryInv(q)'
  OBVIOUS
<1>0. TypeOK /\ QueryInv(q) /\ \A t \in Token : CacheInv(t)
  BY DEF IInv
<1>1. ASSUME NEW t \in Token, Ask(q, t) PROVE QueryInv(q)'
  <2>1. /\ query'[q].asked = now /\ now' = now /\ pc'[q] = "query"
        /\ call'[q].tokens = {t} /\ ~Fresh(t)'
    BY <1>0, <1>1 DEF Ask, Goto, TypeOK, Fresh
  <2>2. now <= now + MaxLatency
    BY <1>0, CountedInNat, CacheAssumption
  <2> QED
    BY <1>0, <2>1, <2>2, CountedInNat DEF QueryInv
<1>2. ASSUME NEW t \in Token, Evaluate(q, t) PROVE QueryInv(q)'
  <2>1. /\ query'[q].asked = query[q].asked /\ query'[q].seen = Len(log[t])
        /\ UNCHANGED <<now, log, cache, floor, call>> /\ pc[q] = "query"
        /\ pc'[q] = "answered" /\ call[q].tokens = {t}
    BY <1>0, <1>2 DEF Evaluate, Goto, TypeOK
  <2>2. floor[t] <= Len(log[t]) /\ Len(log[t]) \in 1..Len(log[t])
    BY <1>0, LogLength DEF CacheInv, IInv
  <2>3. ~Fresh(t)'
    BY <1>0, <2>1 DEF QueryInv, Fresh
  <2> QED
    BY <1>0, <2>1, <2>2, <2>3 DEF QueryInv, PresentSince
<1>3. ASSUME NEW t \in Token, ChangeRow(t) PROVE QueryInv(q)'
  <2>1. UNCHANGED <<now, cache, floor, pc, call, query>>
    BY <1>3 DEF ChangeRow
  <2>2. ASSUME NEW u \in Token, call[q].tokens = {u}, pc[q] = "answered"
        PROVE  /\ query[q].seen \in 1..Len(log'[u])
               /\ PresentSince(u, query[q].seen, query[q].asked)'
    <3>1. /\ query[q].seen \in 1..Len(log[u]) /\ query[q].asked <= now
          /\ PresentSince(u, query[q].seen, query[q].asked)
      BY <1>0, <2>2 DEF QueryInv
    <3>2. query[q].seen \in 1..Len(log'[u])
      BY <1>0, <1>3, <3>1, RowGrows
    <3>3. query[q].asked \in Int
      BY <1>0, CountedInNat
    <3>4. query[q].seen = Len(log'[u])
            \/ log'[u][query[q].seen + 1].from >= query[q].asked
      BY <1>0, <1>3, <3>1, <3>3, StillPresent
    <3> QED
      BY <2>1, <3>2, <3>4 DEF PresentSince
  <2> QED
    BY <1>0, <2>1, <2>2 DEF QueryInv, Fresh
<1>4. CASE Tick
  <2>1. now' = now + 1 /\ UNCHANGED <<log, cache, floor, pc, call, query>> /\ now \in Nat
    BY <1>0, <1>4, CountedInNat DEF Tick
  <2>2. \A t \in Token : Fresh(t)' => Fresh(t)
    BY <1>0, <2>1, FreshFades
  <2>3. pc[q] \in {"query", "answered"} =>
           query[q].asked <= now' /\ now' <= query[q].asked + MaxLatency
    BY <1>0, <1>4, <2>1, CountedInNat, CacheAssumption DEF Tick, QueryInv
  <2> QED
    BY <1>0, <2>1, <2>2, <2>3 DEF QueryInv, PresentSince
<1>5. CASE UNCHANGED <<now, log, cache, floor, pc, call, query>>
  BY <1>0, <1>5, QueryFrame
<1>6. ASSUME NEW p \in Caller, p # q,
             \/ Step(p) \/ Announce(p) \/ Answer(p)
             \/ \E t \in Token : Get(p, t)
             \/ \E T \in SUBSET Token : BeginInvalidate(p, T)
      PROVE  QueryInv(q)'
  BY <1>0, <1>6, OthersKeepQuery
<1>7. CASE pc'[q] \notin {"query", "answered"}
  BY <1>7 DEF QueryInv
<1>8. \/ RLock(q) \/ Acquire(q) \/ Announce(q) \/ QueryFails(q) \/ Delete(q)
      \/ \E t \in Token : \/ Get(q, t) \/ Look(q, t) \/ RecheckHit(q, t)
                          \/ Store(q, t) \/ RefuseRow(q, t)
      \/ \E T \in SUBSET Token : BeginInvalidate(q, T)
      => pc'[q] \notin {"query", "answered"}
  BY <1>0 DEF TypeOK, RLock, Acquire, Announce, Get, BeginInvalidate, Look, RecheckHit,
     Store, RefuseRow, Delete, QueryFails, UnlockAndReturn, Goto
<1>9. ASSUME NEW p \in Caller, NEW t \in Token, BeginInvalidate(p, {t})
      PROVE  QueryInv(q)'
  BY <1>6, <1>7, <1>8, <1>9
<1>10. ASSUME NEW p \in Caller, BeginInvalidate(p, Token) PROVE QueryInv(q)'
  BY <1>6, <1>7, <1>8, <1>10
<1>11. ASSUME NEW p \in Caller, NEW t \in Token, Get(p, t) PROVE QueryInv(q)'
  BY <1>6, <1>7, <1>8, <1>11
<1>12. ASSUME NEW p \in Caller, Step(p) \/ Announce(p) \/ Answer(p) PROVE QueryInv(q)'
  <2>1. CASE p # q
    BY <1>6, <1>12, <2>1
  <2>2. CASE p = q
    BY <1>1, <1>2, <1>7, <1>8, <1>12, <2>2 DEF Step, Answer
  <2> QED
    BY <2>1, <2>2
<1>13. UNCHANGED vars
       => UNCHANGED <<now, log, cache, floor, pc, call, query>>
  BY DEF vars
<1> QED
  BY <1>3, <1>4, <1>5, <1>9, <1>10, <1>11, <1>12, <1>13 DEF Next

-----------------------------------------------------------------------------
(* The invariant                                                           *)

\* No row loses its contents.
LEMMA LogNext == IInv /\ [Next]_vars => \A t \in Token : Len(log'[t]) > 0
<1> SUFFICES ASSUME IInv, [Next]_vars, NEW t \in Token PROVE Len(log'[t]) > 0
  OBVIOUS
<1>0. TypeOK /\ Len(log[t]) > 0
  BY DEF IInv
<1>1. ASSUME NEW u \in Token, ChangeRow(u) PROVE Len(log'[t]) > 0
  BY <1>0, <1>1, RowGrows
<1>2. CASE UNCHANGED log
  BY <1>0, <1>2
<1> QED
  BY <1>1, <1>2 DEF Next, Step, Answer, RLock, Announce, Acquire, Get, Look, RecheckHit,
     Ask, Evaluate, QueryFails, Store, RefuseRow, BeginInvalidate, Delete, Tick, vars

\* The invariant is inductive.
LEMMA Inductive ==
    /\ Init => IInv
    /\ IInv /\ [Next]_vars => IInv'
<1>1. Init => IInv
  BY TypeInit, LockInit, CallInit, CacheInit DEF IInv
<1>2. IInv /\ [Next]_vars => IInv'
  BY TypeNext, LockNext, CallNext, QueryNext, CacheNext, LogNext DEF IInv
<1> QED
  BY <1>1, <1>2

\* The invariant holds in every state of the cache.
LEMMA Invariance == Spec => []IInv
<1> QED
  BY Inductive, PTL DEF Spec

-----------------------------------------------------------------------------
(* The properties                                                          *)

\* Every variable keeps its type.
THEOREM TypeCorrect == Spec => []TypeOK
<1>1. IInv => TypeOK
  BY DEF IInv
<1> QED
  BY <1>1, Invariance, PTL

\* The map is written by one goroutine at a time, while none reads it, for any
\* number of goroutines: sync.RWMutex is used as it must be.
THEOREM MapIsRaceFree == Spec => []NoMapRace
<1>1. IInv => NoMapRace
  BY OneAtATime DEF NoMapRace
<1> QED
  BY <1>1, Invariance, PTL

\* A stored entry replaces another only when that one has expired: the second
\* look under the write lock catches every goroutine that missed together with
\* the one that loaded.
THEOREM LoadsAreNotDuplicated == Spec => NoDuplicateLoad
<1> DEFINE A == \A t \in Token :
                  (cache[t] # Absent /\ cache'[t] # Absent /\ cache'[t] # cache[t])
                     => cache'[t].loadedAt - cache[t].loadedAt >= TTL
<1>1. IInv /\ [Next]_vars => A
  <2> SUFFICES ASSUME IInv, [Next]_vars, NEW u \in Token, cache[u] # Absent,
                      cache'[u] # Absent, cache'[u] # cache[u]
               PROVE  cache'[u].loadedAt - cache[u].loadedAt >= TTL
    OBVIOUS
  <2>0. TypeOK
    BY DEF IInv
  <2>1. ASSUME NEW p \in Caller, NEW t \in Token, Store(p, t)
        PROVE  cache'[u].loadedAt - cache[u].loadedAt >= TTL
    <3>1. t = u /\ cache'[u].loadedAt = now
      BY <2>0, <2>1 DEF Store, TypeOK
    <3>2. ~Fresh(u)
      BY <2>1, <3>1 DEF IInv, QueryInv, Store
    <3>3. cache[u].loadedAt \in Nat
      BY <2>0 DEF TypeOK, Entry
    <3> QED
      BY <2>0, <3>1, <3>2, <3>3, CountedInNat, CacheAssumption DEF Fresh
  <2>2. ASSUME NEW p \in Caller, Delete(p) PROVE FALSE
    BY <2>0, <2>2 DEF Delete, TypeOK
  <2>3. UNCHANGED cache => FALSE
    OBVIOUS
  <2> QED
    BY <2>1, <2>2, <2>3 DEF Next, Step, Answer, RLock, Announce, Acquire, Get, Look,
       RecheckHit, Ask, Evaluate, QueryFails, RefuseRow, BeginInvalidate, ChangeRow,
       Tick, vars
<1>2. IInv /\ [Next]_vars => [A]_vars
  BY <1>1
<1> QED
  BY <1>2, Invariance, PTL DEF Spec, NoDuplicateLoad

\* What a call returns was replaced in the database less than the TTL and the
\* latency of one query ago, if at all.
THEOREM StalenessIsBounded == Spec => BoundedStaleness
<1> DEFINE Recent(p) ==
             \E t \in call[p].tokens :
                \/ ret'[p] = Len(log[t])
                \/ now - log[t][ret'[p] + 1].from < TTL + MaxLatency
           A == \A p \in Caller :
                  (pc[p] # "idle" /\ pc'[p] = "idle" /\ ret'[p] # 0) => Recent(p)
<1>1. ASSUME IInv, NEW p \in Caller, NEW t \in Token, call[p].tokens = {t},
             NEW v \in 1..Len(log[t]), NEW since \in Int, PresentSince(t, v, since),
             now - since < TTL + MaxLatency, ret'[p] = v
      PROVE  Recent(p)
  <2>1. CASE v = Len(log[t])
    BY <1>1, <2>1
  <2>2. CASE v # Len(log[t])
    <3>1. v + 1 \in 1..Len(log[t]) /\ log[t][v + 1].from >= since
      BY <1>1, <2>2, LogLength DEF IInv, PresentSince
    <3>2. log[t][v + 1].from \in Nat /\ now \in Nat
      BY <1>1, <3>1, RowType, CountedInNat DEF IInv
    <3>3. now - log[t][v + 1].from < TTL + MaxLatency
      BY <1>1, <3>1, <3>2, CacheAssumption
    <3> QED
      BY <1>1, <3>3
  <2> QED
    BY <2>1, <2>2
<1>2. ASSUME IInv, NEW p \in Caller, NEW t \in Token, call[p].tokens = {t},
             Fresh(t), ReturnCached(p, t)
      PROVE  Recent(p)
  <2>1. TypeOK /\ CacheInv(t) /\ cache[t] # Absent /\ cache[t] \in Entry
    BY <1>2 DEF IInv, TypeOK, Fresh
  <2>2. ret'[p] = cache[t].version
    BY <1>2, <2>1 DEF ReturnCached, TypeOK
  <2> DEFINE since == cache[t].loadedAt - MaxLatency
  <2>3. since \in Int /\ now - since < TTL + MaxLatency
    BY <1>2, <2>1, CountedInNat, CacheAssumption DEF Entry, Fresh
  <2>4. cache[t].version \in 1..Len(log[t]) /\ PresentSince(t, cache[t].version, since)
    BY <2>1 DEF CacheInv
  <2> HIDE DEF since, Recent
  <2> QED
    BY <1>1, <1>2, <2>2, <2>3, <2>4
<1>3. ASSUME IInv, NEW p \in Caller, NEW t \in Token, Store(p, t)
      PROVE  Recent(p)
  <2>1. TypeOK /\ QueryInv(p) /\ call[p].tokens = {t} /\ pc[p] = "answered"
    BY <1>3 DEF IInv, Store
  <2>2. ret'[p] = query[p].seen
    BY <1>3, <2>1 DEF Store, TypeOK
  <2>3. now - query[p].asked < TTL + MaxLatency /\ query[p].asked \in Int
    BY <2>1, CountedInNat, CacheAssumption DEF QueryInv
  <2>4. /\ query[p].seen \in 1..Len(log[t])
        /\ PresentSince(t, query[p].seen, query[p].asked)
    BY <2>1 DEF QueryInv
  <2> HIDE DEF Recent
  <2> QED
    BY <1>1, <1>3, <2>1, <2>2, <2>3, <2>4
<1>4. IInv /\ [Next]_vars => A
  <2> SUFFICES ASSUME IInv, [Next]_vars, NEW p \in Caller, pc[p] # "idle",
                      pc'[p] = "idle", ret'[p] # 0
               PROVE  Recent(p)
    OBVIOUS
  <2> HIDE DEF Recent
  <2>0. TypeOK /\ ret[p] = 0
    BY DEF IInv, CallInv
  <2>1. ret' # ret
    BY <2>0
  <2>2. ASSUME NEW q \in Caller, NEW t \in Token,
               Look(q, t) \/ RecheckHit(q, t) \/ Store(q, t)
        PROVE  q = p
    <3>1. ASSUME q # p PROVE ret'[p] = ret[p]
      BY <2>0, <2>2, <3>1 DEF Look, RecheckHit, Store, ReturnCached, TypeOK
    <3> QED
      BY <2>0, <3>1
  <2>3. ASSUME NEW t \in Token, Look(p, t) \/ RecheckHit(p, t) PROVE Recent(p)
    BY <1>2, <2>1, <2>3 DEF Look, RecheckHit
  <2>4. ASSUME NEW t \in Token, Store(p, t) PROVE Recent(p)
    BY <1>3, <2>4
  <2>5. ASSUME NEW q \in Caller, \/ \E t \in Token : Get(q, t)
                                 \/ \E T \in SUBSET Token : BeginInvalidate(q, T)
        PROVE  FALSE
    <3>1. pc[q] = "idle" /\ ret' = [ret EXCEPT ![q] = 0]
      BY <2>5 DEF Get, BeginInvalidate
    <3>2. q # p
      BY <3>1
    <3> QED
      BY <2>0, <3>1, <3>2 DEF TypeOK
  <2>6. \A q \in Caller, t \in Token : ~BeginInvalidate(q, {t})
    BY <2>5
  <2>7. \A q \in Caller : ~BeginInvalidate(q, Token)
    BY <2>5
  <2> QED
    BY <2>1, <2>2, <2>3, <2>4, <2>5, <2>6, <2>7 DEF Next, Step, Answer, RLock, Announce,
       Acquire, Ask, Evaluate, QueryFails, RefuseRow, Delete, ChangeRow, Tick, vars
<1>5. IInv /\ [Next]_vars => [A]_vars
  BY <1>4
<1> HIDE DEF Recent
<1> QED
  BY <1>5, Invariance, PTL DEF Spec, BoundedStaleness, Recent

-----------------------------------------------------------------------------
(* The cache implements PolicyApi: each step that ends a call is the step of *)
(* PolicyApi that ends it, and the others change nothing that is visible.    *)

\* The log of PolicyApi is as long as that of the cache and says what the rows
\* were.
LEMMA ApiLog ==
    ASSUME TypeOK, NEW t \in Token
    PROVE  /\ Len(apiLog[t]) = Len(log[t])
           /\ \A v \in 1..Len(log[t]) : apiLog[t][v] = log[t][v].row
<1>1. Len(log[t]) \in Nat
  BY LogLength
<1>2. apiLog[t] = [i \in 1..Len(log[t]) |-> log[t][i].row]
  BY DEF apiLog
<1> QED
  BY <1>1, <1>2

\* A change of a row is one.
LEMMA ApiChangeRow ==
    ASSUME IInv, NEW t \in Token, ChangeRow(t)
    PROVE  Api!ChangeRow(t)
<1>0. TypeOK
  BY DEF IInv
<1>1. PICK r \in Row : log' = [log EXCEPT ![t] = Append(@, [row |-> r, from |-> now])]
  BY DEF ChangeRow
<1> DEFINE e == [row |-> r, from |-> now]
<1>2. log \in [Token -> Seq([row: Row, from: 0..MaxTime])] /\ e \in [row: Row, from: 0..MaxTime]
  BY <1>0 DEF TypeOK
<1>3. e.row = r
  OBVIOUS
<1>4. log'[t] = Append(log[t], e) /\ \A u \in Token : u # t => log'[u] = log[u]
  BY <1>1, <1>2
<1> HIDE DEF e
<1>5. /\ Len(log'[t]) = Len(log[t]) + 1 /\ Len(log[t]) \in Nat
      /\ \A i \in 1..Len(log[t]) : log'[t][i] = log[t][i]
      /\ log'[t][Len(log[t]) + 1] = e
  BY <1>0, <1>2, <1>4, AppendToSeq, LogLength
<1>6. apiLog'[t] = Append(apiLog[t], r)
  <2>1. apiLog'[t] = [i \in 1..Len(log[t]) + 1 |-> log'[t][i].row]
    BY <1>5 DEF apiLog
  <2>2. apiLog[t] = [i \in 1..Len(log[t]) |-> log[t][i].row]
    BY DEF apiLog
  <2>3. Len(apiLog[t]) = Len(log[t])
    BY <1>5, <2>2
  <2>4. Append(apiLog[t], r) = [i \in 1..Len(log[t]) + 1 |->
                                  IF i = Len(log[t]) + 1 THEN r ELSE log[t][i].row]
    BY <1>5, <2>2, <2>3
  <2> QED
    BY <1>3, <1>5, <2>1, <2>4
<1>7. \A u \in Token : u # t => apiLog'[u] = apiLog[u]
  BY <1>4 DEF apiLog
<1>8. apiLog' = [apiLog EXCEPT ![t] = Append(@, r)]
  BY <1>6, <1>7 DEF apiLog
<1>9. Len(apiLog[t]) < MaxVersion
  BY <1>0, ApiLog DEF ChangeRow
<1> QED
  BY <1>8, <1>9 DEF Api!ChangeRow, ChangeRow

\* The cache starts where PolicyApi starts.
LEMMA ApiInit == Init => Api!Init
<1> SUFFICES ASSUME Init PROVE Api!Init
  OBVIOUS
<1>1. ASSUME NEW t \in Token PROVE apiLog[t] \in {<<r>> : r \in Row}
  <2>1. PICK r \in Row : log[t] = <<[row |-> r, from |-> 0]>>
    BY DEF Init
  <2>2. Len(log[t]) = 1 /\ log[t][1].row = r
    BY <2>1
  <2>3. apiLog[t] = [i \in 1..1 |-> log[t][i].row]
    BY <2>2 DEF apiLog
  <2>4. apiLog[t] = [i \in 1..1 |-> r]
    BY <2>2, <2>3
  <2> QED
    BY <2>4
<1>2. apiLog \in [Token -> {<<r>> : r \in Row}]
  BY <1>1 DEF apiLog
<1> QED
  BY <1>2 DEF Init, Api!Init, Api!Idle, Idle

\* A fresh entry may be served: it is good and no older than the floor, and so
\* no older than the floor was when the call began.
LEMMA ApiServesFresh ==
    ASSUME IInv, NEW p \in Caller, NEW t \in Token, call[p].op = "get",
           call[p].tokens = {t}, Fresh(t), ReturnCached(p, t), UNCHANGED log,
           call' = [call EXCEPT ![p] = Idle]
    PROVE  Api!Serve(p, t, cache[t].version)
<1>0. TypeOK /\ CallInv(p) /\ CacheInv(t)
  BY DEF IInv
<1>1. call[p].low <= floor[t] /\ call[p].low \in Nat /\ floor[t] \in Nat
  BY <1>0 DEF CallInv, TypeOK
<1>2. /\ cache[t].version \in 1..Len(log[t]) /\ floor[t] <= cache[t].version
      /\ log[t][cache[t].version].row = "good"
  BY <1>0 DEF CacheInv, Fresh
<1>3. cache[t].version \in call[p].low..Len(apiLog[t]) /\ cache[t].version # 0
  BY <1>0, <1>1, <1>2, ApiLog, LogLength
<1>4. apiLog[t][cache[t].version] = "good"
  BY <1>0, <1>2, ApiLog
<1>5. UNCHANGED apiLog
  BY DEF apiLog
<1> QED
  BY <1>3, <1>4, <1>5 DEF Api!Serve, ReturnCached, Larger, Api!Larger, Idle, Api!Idle

\* What a query read may be answered with, or be the reason to refuse.
LEMMA ApiAnswers ==
    ASSUME IInv, NEW p \in Caller, NEW t \in Token,
           pc[p] = "answered", call[p].tokens = {t}
    PROVE  /\ call[p].op = "get"
           /\ query[p].seen \in call[p].low..Len(apiLog[t]) /\ query[p].seen # 0
           /\ apiLog[t][query[p].seen] = log[t][query[p].seen].row
<1>0. TypeOK /\ CallInv(p) /\ QueryInv(p)
  BY DEF IInv
<1>1. call[p].op = "get"
  BY <1>0 DEF CallInv
<1>2. call[p].low <= floor[t] /\ call[p].low \in Nat /\ floor[t] \in Nat
  BY <1>0, <1>1 DEF CallInv, TypeOK
<1>3. query[p].seen \in 1..Len(log[t]) /\ floor[t] <= query[p].seen
  BY <1>0 DEF QueryInv
<1> QED
  <2>1. /\ query[p].seen \in call[p].low..Len(log[t]) /\ query[p].seen # 0
        /\ Len(apiLog[t]) = Len(log[t])
    BY <1>0, <1>2, <1>3, ApiLog, LogLength
  <2>2. apiLog[t][query[p].seen] = log[t][query[p].seen].row
    BY <1>0, <1>3, ApiLog
  <2> QED
    BY <1>1, <2>1, <2>2

\* Every step of the cache is a step of PolicyApi or one that it does not see.
LEMMA ApiNext == IInv /\ [Next]_vars => [Api!Next]_Api!vars
<1> SUFFICES ASSUME IInv, [Next]_vars PROVE [Api!Next]_Api!vars
  OBVIOUS
<1>0. TypeOK /\ \A p \in Caller : CallInv(p)
  BY DEF IInv
<1>1. CASE UNCHANGED <<log, floor, call, ret>>
  BY <1>1 DEF Api!vars, apiLog
<1>2. ASSUME NEW p \in Caller,
             \/ RLock(p) \/ Announce(p) \/ Acquire(p)
             \/ \E t \in Token : Ask(p, t) \/ Evaluate(p, t) 
      PROVE  UNCHANGED <<log, floor, call, ret>>
  BY <1>2 DEF RLock, Announce, Acquire, Ask, Evaluate
<1>3. ASSUME NEW p \in Caller, NEW t \in Token, Get(p, t) PROVE Api!Next
  <2>1. call[p] = Idle
    BY <1>0, <1>3 DEF Get, CallInv
  <2>2. Api!Get(p, t)
    BY <1>3, <2>1 DEF Get, Api!Get, Idle, Api!Idle, apiLog
  <2> QED
    BY <2>2 DEF Api!Next
<1>4. ASSUME NEW p \in Caller, NEW t \in Token, Fresh(t), ReturnCached(p, t),
             Look(p, t) \/ RecheckHit(p, t), call' = [call EXCEPT ![p] = Idle]
      PROVE  Api!Next
  <2>1. call[p].op = "get" /\ call[p].tokens = {t} /\ UNCHANGED log
    BY <1>0, <1>4 DEF Look, RecheckHit, CallInv
  <2>2. Api!Serve(p, t, cache[t].version)
    BY <1>4, <2>1, ApiServesFresh
  <2>3. cache[t].version \in 0..Len(apiLog[t])
    BY <1>0, <1>4, ApiLog, LogLength DEF IInv, CacheInv, Fresh
  <2> QED
    BY <2>2, <2>3 DEF Api!Next
<1>5. ASSUME NEW p \in Caller, NEW t \in Token, Look(p, t) PROVE [Api!Next]_Api!vars
  BY <1>1, <1>4, <1>5 DEF Look
<1>6. ASSUME NEW p \in Caller, NEW t \in Token, RecheckHit(p, t) PROVE Api!Next
  BY <1>4, <1>6 DEF RecheckHit, UnlockAndReturn
<1>7. ASSUME NEW p \in Caller, QueryFails(p) PROVE Api!Next
  <2>1. Api!Fail(p)
    BY <1>0, <1>7 DEF QueryFails, UnlockAndReturn, CallInv, Api!Fail, Api!Idle, Idle, apiLog
  <2> QED
    BY <2>1 DEF Api!Next
<1>8. ASSUME NEW p \in Caller, NEW t \in Token, Store(p, t) \/ RefuseRow(p, t)
      PROVE  Api!Next
  <2>1. pc[p] = "answered" /\ call[p].tokens = {t} /\ UnlockAndReturn(p) /\ UNCHANGED log
    BY <1>8 DEF Store, RefuseRow
  <2>2. query[p].seen \in 0..Len(apiLog[t])
    BY <1>0, <2>1, ApiAnswers, CountedInNat, ApiLog, LogLength DEF TypeOK
  <2>3. Store(p, t) => Api!Serve(p, t, query[p].seen)
    BY <2>1, ApiAnswers DEF Store, UnlockAndReturn, Api!Serve, Api!Larger, Larger,
       Api!Idle, Idle, apiLog
  <2>4. RefuseRow(p, t) => Api!Refuse(p, t, query[p].seen)
    BY <2>1, ApiAnswers DEF RefuseRow, UnlockAndReturn, Api!Refuse, Api!Larger, Larger,
       Api!Idle, Idle, apiLog
  <2> QED
    BY <1>8, <2>2, <2>3, <2>4 DEF Api!Next
<1>9. ASSUME NEW p \in Caller, NEW T \in SUBSET Token, BeginInvalidate(p, T)
      PROVE  Api!Next
  <2>1. call[p] = Idle
    BY <1>0, <1>9 DEF BeginInvalidate, CallInv
  <2>2. Api!BeginInvalidate(p, T)
    BY <1>9, <2>1 DEF BeginInvalidate, Api!BeginInvalidate, Idle, Api!Idle, apiLog
  <2> QED
    BY <2>2 DEF Api!Next
<1>10. ASSUME NEW p \in Caller, Delete(p) PROVE Api!Next
  <2>1. call[p].op = "invalidate" /\ UNCHANGED <<log, ret>>
    BY <1>0, <1>10 DEF Delete, CallInv
  <2>2. floor' = [t \in Token |-> IF t \in call[p].tokens THEN Len(apiLog[t]) ELSE floor[t]]
    BY <1>0, <1>10, ApiLog DEF Delete
  <2>3. Api!EndInvalidate(p)
    BY <1>10, <2>1, <2>2 DEF Delete, UnlockAndReturn, Api!EndInvalidate, Api!Idle, Idle, apiLog
  <2> QED
    BY <2>3 DEF Api!Next
<1>11. ASSUME NEW t \in Token, ChangeRow(t) PROVE Api!Next
  BY <1>11, ApiChangeRow DEF Api!Next
<1>12. Tick \/ UNCHANGED vars
       => UNCHANGED <<log, floor, call, ret>>
  BY DEF Tick, vars
<1>13. ASSUME NEW p \in Caller, Step(p) \/ Announce(p) \/ Answer(p)
       PROVE  [Api!Next]_Api!vars
  BY <1>1, <1>2, <1>5, <1>6, <1>7, <1>8, <1>10, <1>13 DEF Step, Answer
<1>14. ASSUME NEW p \in Caller, NEW t \in Token, BeginInvalidate(p, {t}) PROVE Api!Next
  BY <1>9, <1>14
<1>15. ASSUME NEW p \in Caller, BeginInvalidate(p, Token) PROVE Api!Next
  BY <1>9, <1>15
<1> QED
  BY <1>1, <1>3, <1>11, <1>12, <1>13, <1>14, <1>15 DEF Next

\* The cache implements PolicyApi, for any number of goroutines and tokens: no
\* call is answered from anything older than what was seen before it began or
\* than the last invalidation.
THEOREM CacheImplementsApi == Spec => ImplementsApi
<1> QED
  BY ApiInit, ApiNext, Invariance, PTL DEF Spec, ImplementsApi, Api!Spec

=============================================================================
