--------------------------- MODULE SequenceLemmas ---------------------------
(***************************************************************************)
(* Induction and recursion over natural numbers and sequences, for the     *)
(* proofs about lookups, texts and lists.  An induction is stated on the   *)
(* set of the numbers that have the property.                              *)
(***************************************************************************)
EXTENDS Integers, Sequences, SequencesExt, SequenceTheorems,
        WellFoundedInduction, TLAPS

-----------------------------------------------------------------------------
(* Natural numbers *)

LessThan == {pair \in Nat \X Nat : pair[1] < pair[2]}

\* Min is a member of its argument and no member is smaller.
LEMMA MinOfNat ==
    ASSUME NEW S \in SUBSET Nat, S # {}
    PROVE  Min(S) \in S /\ \A y \in S : Min(S) <= y
<1>1. IsWellFoundedOn(LessThan, Nat)
  <2>1. OpToRel(<, Nat) = LessThan
    BY DEF OpToRel, LessThan
  <2> QED
    BY <2>1, NatLessThanWellFounded
<1>2. PICK x \in S : \A y \in S : <<y, x>> \notin LessThan
  BY <1>1, WFMin
<1>3. ASSUME NEW y \in S
      PROVE  x <= y
  <2>1. <<y, x>> \in Nat \X Nat
    OBVIOUS
  <2> QED
    BY <1>2, <2>1 DEF LessThan
<1> QED
  BY <1>3 DEF Min

\* What the first of some places of a sequence is (SelectInSeq): one of them
\* with none before it, or 0 when there is none.
LEMMA FirstPlace ==
    ASSUME NEW n \in Nat, NEW S \in SUBSET (1..n),
           NEW i, i = IF S # {} THEN Min(S) ELSE 0
    PROVE  \/ i = 0 /\ S = {}
           \/ i \in S /\ i # 0 /\ \A j \in 1..(i - 1) : j \notin S
<1>1. CASE S = {}
  BY <1>1
<1>2. CASE S # {}
  <2>1. S \in SUBSET Nat
    OBVIOUS
  <2>2. Min(S) \in S /\ \A y \in S : Min(S) <= y
    BY <1>2, <2>1, MinOfNat
  <2>3. i \in S /\ \A y \in S : i <= y
    BY <1>2, <2>2
  <2>4. ASSUME NEW j \in 1..(i - 1)
        PROVE  j \notin S
    BY <2>3, <2>4
  <2> QED
    BY <2>3, <2>4
<1> QED
  BY <1>1, <1>2

\* The largest number of a set that is bounded.
LEMMA MaxOfBounded ==
    ASSUME NEW n \in Nat, NEW S \in SUBSET (1..n), S # {}
    PROVE  Max(S) \in S
<1> DEFINE D == {k \in Nat : n - k \in S}
<1>1. D \in SUBSET Nat
  OBVIOUS
<1>2. D # {}
  <2>1. PICK x \in S : TRUE
    OBVIOUS
  <2>2. x \in 1..n /\ n - x \in Nat /\ n - (n - x) = x
    OBVIOUS
  <2> QED
    BY <2>1, <2>2
<1>3. Min(D) \in D /\ \A y \in D : Min(D) <= y
  <2> HIDE DEF D
  <2> QED
    BY <1>1, <1>2, MinOfNat
<1> DEFINE x == n - Min(D)
<1>4. Min(D) \in Nat /\ x \in S
  BY <1>3
<1>5. ASSUME NEW y \in S
      PROVE  x >= y
  <2>1. y \in 1..n /\ n - y \in Nat /\ n - (n - y) = y
    OBVIOUS
  <2>2. n - y \in D
    BY <2>1
  <2>3. Min(D) <= n - y
    BY <1>3, <2>2
  <2> QED
    BY <1>4, <2>1, <2>3
<1>6. \E z \in S : \A y \in S : z >= y
  BY <1>4, <1>5
<1> QED
  BY <1>6, Zenon DEF Max

\* What holds for 0 and passes from each number below n to the next holds up
\* to n.
LEMMA InductionUpTo ==
    ASSUME NEW n \in Nat, NEW S, 0 \in S,
           \A i \in 0..(n - 1) : i \in S => i + 1 \in S
    PROVE  \A i \in 0..n : i \in S
<1> DEFINE T == {i \in 0..n : i \notin S}
<1> SUFFICES ASSUME T # {}
             PROVE  FALSE
  OBVIOUS
<1>1. Min(T) \in T /\ \A y \in T : Min(T) <= y
  BY MinOfNat
<1> DEFINE x == Min(T)
<1> HIDE DEF x
<1>2. x \in 1..n /\ x \notin S /\ x - 1 \notin T
  BY <1>1 DEF x
<1>3. x - 1 \in S
  BY <1>2
<1>4. (x - 1) + 1 \in S
  BY <1>2, <1>3
<1> QED
  BY <1>2, <1>4

\* A function on 0..n may be defined by its first value and by what each
\* value makes of the one before.
Steps(n, V) == [1..n -> [V -> V]]
Recursion(f, n, first, next) ==
    f[0] = first /\ \A i \in 1..n : f[i] = next[i][f[i - 1]]

\* Every such recursion has a solution.
LEMMA RecursionExists ==
    ASSUME NEW V, NEW n \in Nat, NEW first \in V, NEW next \in Steps(n, V)
    PROVE  \E f \in [0..n -> V] : Recursion(f, n, first, next)
<1> USE DEF Steps
<1> DEFINE Upto(f, m) == /\ f[0] = first
                         /\ \A i \in 1..m : f[i] = next[i][f[i - 1]]
           S == {m \in 0..n : \E f \in [0..m -> V] : Upto(f, m)}
<1>1. 0 \in S
  <2> DEFINE f == [i \in 0..0 |-> first]
  <2>1. f \in [0..0 -> V] /\ Upto(f, 0)
    OBVIOUS
  <2>2. \E h \in [0..0 -> V] : Upto(h, 0)
    <3> HIDE DEF f, Upto
    <3> QED
      BY <2>1
  <2> QED
    BY <2>2
<1>2. ASSUME NEW m \in 0..(n - 1), m \in S
      PROVE  m + 1 \in S
  <2>1. PICK f \in [0..m -> V] : Upto(f, m)
    BY <1>2
  <2> DEFINE g == [i \in 0..(m + 1) |-> IF i <= m THEN f[i]
                                        ELSE next[m + 1][f[m]]]
  <2>2. next[m + 1][f[m]] \in V
    <3>1. f[m] \in V /\ m + 1 \in 1..n
      OBVIOUS
    <3> QED
      BY <3>1
  <2>3. g \in [0..(m + 1) -> V]
    BY <2>2
  <2>4. g[0] = first
    BY <2>1
  <2>5. ASSUME NEW i \in 1..(m + 1)
        PROVE  g[i] = next[i][g[i - 1]]
    <3>1. CASE i <= m
      <4>1. g[i] = f[i] /\ g[i - 1] = f[i - 1] /\ i \in 1..m
        BY <3>1
      <4> QED
        BY <4>1, <2>1
    <3>2. CASE i = m + 1
      <4>1. g[i] = next[m + 1][f[m]] /\ g[i - 1] = f[m] /\ i - 1 = m
        BY <3>2
      <4> QED
        BY <4>1, <3>2
    <3> QED
      BY <3>1, <3>2
  <2>6. Upto(g, m + 1)
    BY <2>4, <2>5
  <2>7. \E h \in [0..(m + 1) -> V] : Upto(h, m + 1)
    <3> HIDE DEF g, Upto
    <3> QED
      BY <2>3, <2>6
  <2>8. m + 1 \in 0..n
    OBVIOUS
  <2> QED
    BY <2>7, <2>8
<1>3. n \in S
  <2>1. \A i \in 0..n : i \in S
    <3> HIDE DEF S, Steps
    <3> QED
      BY <1>1, <1>2, InductionUpTo
  <2> QED
    BY <2>1
<1> QED
  BY <1>3 DEF Recursion

\* A function on a set that is made level by level may be defined by what it
\* makes of an element when its values on the level below are known.
FunctionsOn(D, F) == \A f \in F : f = [d \in D |-> f[d]]
StepsFromBelow(level, N, F, step) ==
    \A f, g \in F, n \in 0..N :
       (n > 0 => \A d \in level[n - 1] : f[d] = g[d])
       => \A d \in level[n] : step[f][d] = step[g][d]

\* Every such recursion has a solution: step has a fixed point.
LEMMA LevelRecursionExists ==
    ASSUME NEW N \in Nat, NEW level, NEW F, FunctionsOn(level[N], F),
           NEW first \in F, NEW step \in [F -> F],
           StepsFromBelow(level, N, F, step)
    PROVE  \E f \in F : step[f] = f
<1> DEFINE D == level[N]
<1> DEFINE next == [i \in 1..(N + 1) |-> step]
<1>1. PICK f \in [0..(N + 1) -> F] :
         f[0] = first /\ \A i \in 1..(N + 1) : f[i] = step[f[i - 1]]
  <2>1. next \in Steps(N + 1, F)
    BY DEF Steps
  <2>2. N + 1 \in Nat
    OBVIOUS
  <2>3. \E f \in [0..(N + 1) -> F] : Recursion(f, N + 1, first, next)
    <3> HIDE DEF next
    <3> QED
      BY <2>1, <2>2, RecursionExists
  <2> QED
    BY <2>3 DEF Recursion
<1> DEFINE S == {i \in 0..N : \A d \in level[i] : f[i + 1][d] = step[f[i + 1]][d]}
<1>2. \A i \in 0..N : f[i] \in F /\ f[i + 1] \in F /\ f[i + 1] = step[f[i]]
  <2> TAKE i \in 0..N
  <2>1. i \in 0..(N + 1) /\ i + 1 \in 1..(N + 1) /\ (i + 1) - 1 = i /\ i + 1 \in 0..(N + 1)
    OBVIOUS
  <2> QED
    BY <1>1, <2>1
<1>3. 0 \in S
  <2>1. 0 \in 0..N /\ ~(0 > 0)
    OBVIOUS
  <2>2. f[0] \in F /\ f[0 + 1] \in F /\ f[0 + 1] = step[f[0]]
    BY <1>2, <2>1
  <2>3. \A d \in level[0] : step[f[0]][d] = step[f[0 + 1]][d]
    BY <2>1, <2>2 DEF StepsFromBelow
  <2> QED
    BY <2>1, <2>2, <2>3
<1>4. ASSUME NEW i \in 0..(N - 1), i \in S
      PROVE  i + 1 \in S
  <2>1. i \in 0..N /\ i + 1 \in 0..N /\ (i + 1) - 1 = i
    OBVIOUS
  <2> DEFINE g == f[i + 1]
             h == f[(i + 1) + 1]
  <2>2. g \in F /\ h \in F /\ h = step[g]
    BY <1>2, <2>1
  <2>3. \A d \in level[(i + 1) - 1] : g[d] = h[d]
    BY <1>4, <2>1, <2>2
  <2>4. \A d \in level[i + 1] : step[g][d] = step[h][d]
    <3> HIDE DEF g, h, S
    <3> QED
      BY <2>1, <2>2, <2>3 DEF StepsFromBelow
  <2> QED
    BY <2>1, <2>2, <2>4
<1>5. N \in S
  <2>1. \A i \in 0..N : i \in S
    <3> HIDE DEF S
    <3> QED
      BY <1>3, <1>4, InductionUpTo
  <2> QED
    BY <2>1
<1> DEFINE g == f[N + 1]
<1>6. g \in F
  BY <1>1
<1>7. step[g] \in F
  BY <1>6
<1>8. \A d \in D : g[d] = step[g][d]
  BY <1>5
<1>9. step[g] = g
  <2>1. g = [d \in D |-> g[d]] /\ step[g] = [d \in D |-> step[g][d]]
    <3> HIDE DEF g
    <3> QED
      BY <1>6, <1>7 DEF FunctionsOn
  <2> HIDE DEF g
  <2> QED
    BY <1>8, <2>1
<1> QED
  BY <1>6, <1>9

-----------------------------------------------------------------------------
(* FlattenSeq *)

Flattening(ss, f) ==
    \A i \in 1..Len(ss) : f[i] = IF i = 1 THEN ss[i] ELSE f[i - 1] \o ss[i]

\* The recursive function of FlattenSeq is well defined.
LEMMA FlattenSeqUnfolds ==
    ASSUME NEW S, NEW ss \in Seq(Seq(S)), ss # <<>>
    PROVE  \E f \in [1..Len(ss) -> Seq(S)] :
              Flattening(ss, f) /\ FlattenSeq(ss) = f[Len(ss)]
<1> DEFINE n == Len(ss) - 1
           next == [i \in 1..n |-> [s \in Seq(S) |-> s \o ss[i + 1]]]
           Equation(g) == g = [i \in 1..Len(ss) |->
                                  IF i = 1 THEN ss[i] ELSE g[i - 1] \o ss[i]]
<1>1. n \in Nat /\ Len(ss) \in Nat /\ \A i \in 1..Len(ss) : ss[i] \in Seq(S)
  OBVIOUS
<1>2. next \in [1..n -> [Seq(S) -> Seq(S)]]
  <2>1. ASSUME NEW i \in 1..n, NEW s \in Seq(S)
        PROVE  s \o ss[i + 1] \in Seq(S)
    <3>1. ss[i + 1] \in Seq(S)
      BY <1>1
    <3> QED
      BY <3>1, ConcatProperties
  <2> QED
    BY <2>1
<1>3. ss[1] \in Seq(S)
  BY <1>1
<1>4. PICK f \in [0..n -> Seq(S)] :
         f[0] = ss[1] /\ \A i \in 1..n : f[i] = next[i][f[i - 1]]
  <2>1. next \in Steps(n, Seq(S))
    BY <1>2 DEF Steps
  <2>2. \E f \in [0..n -> Seq(S)] : Recursion(f, n, ss[1], next)
    <3> HIDE DEF n, next
    <3> QED
      BY <1>1, <1>3, <2>1, RecursionExists
  <2> HIDE DEF n, next
  <2> QED
    BY <2>2 DEF Recursion
<1> DEFINE g == [i \in 1..Len(ss) |-> f[i - 1]]
<1>5. ASSUME NEW i \in 1..Len(ss)
      PROVE  g[i] = IF i = 1 THEN ss[i] ELSE g[i - 1] \o ss[i]
  <2>1. CASE i = 1
    BY <2>1, <1>4
  <2>2. CASE i # 1
    <3>1. i - 1 \in 1..n /\ g[i] = f[i - 1] /\ g[i - 1] = f[(i - 1) - 1]
      BY <1>1, <2>2
    <3>2. f[i - 1] = next[i - 1][f[(i - 1) - 1]]
      BY <1>4, <3>1
    <3>3. f[(i - 1) - 1] \in Seq(S)
      <4>1. (i - 1) - 1 \in 0..n
        BY <3>1
      <4> QED
        BY <4>1
    <3>4. f[i - 1] = f[(i - 1) - 1] \o ss[(i - 1) + 1]
      BY <3>1, <3>2, <3>3
    <3>5. (i - 1) + 1 = i
      BY <3>1
    <3> QED
      BY <2>2, <3>1, <3>4, <3>5
  <2> QED
    BY <2>1, <2>2
<1>6. Equation(g)
  BY <1>5
<1> DEFINE flatten == CHOOSE h : Equation(h)
<1>7. Equation(flatten)
  <2> HIDE DEF g, Equation
  <2> QED
    BY <1>6
<1>8. FlattenSeq(ss) = flatten[Len(ss)]
  BY DEF FlattenSeq
<1> HIDE DEF flatten
<1>9. Flattening(ss, flatten)
  BY <1>7 DEF Flattening
<1>10. ASSUME NEW i \in 1..Len(ss)
       PROVE  flatten[i] = g[i]
  <2> DEFINE T == {j \in 0..n : flatten[j + 1] = g[j + 1]}
  <2>1. 0 \in T
    <3>1. 1 \in 1..Len(ss) /\ 0 \in 0..n
      BY <1>1
    <3>2. flatten[1] = ss[1]
      BY <1>9, <3>1 DEF Flattening
    <3>3. g[1] = ss[1]
      <4> HIDE DEF g
      <4> QED
        BY <1>5, <3>1
    <3> HIDE DEF g
    <3> QED
      BY <3>1, <3>2, <3>3
  <2>2. ASSUME NEW j \in 0..(n - 1), j \in T
        PROVE  j + 1 \in T
    <3>1. (j + 1) + 1 \in 1..Len(ss) /\ (j + 1) + 1 # 1 /\ ((j + 1) + 1) - 1 = j + 1
      BY <1>1
    <3>2. flatten[(j + 1) + 1] = flatten[j + 1] \o ss[(j + 1) + 1]
      BY <1>9, <3>1 DEF Flattening
    <3>3. g[(j + 1) + 1] = g[j + 1] \o ss[(j + 1) + 1]
      <4> HIDE DEF g
      <4> QED
        BY <1>5, <3>1
    <3>4. flatten[j + 1] = g[j + 1]
      BY <2>2
    <3>5. j + 1 \in 0..n
      OBVIOUS
    <3> HIDE DEF g
    <3> QED
      BY <3>2, <3>3, <3>4, <3>5
  <2>3. \A j \in 0..n : j \in T
    <3> HIDE DEF T
    <3> QED
      BY <1>1, <2>1, <2>2, InductionUpTo
  <2>4. i - 1 \in T
    <3>1. i - 1 \in 0..n
      BY <1>1
    <3> HIDE DEF T
    <3> QED
      BY <2>3, <3>1
  <2>5. (i - 1) + 1 = i
    BY <1>1
  <2> HIDE DEF g
  <2> QED
    BY <2>4, <2>5
<1>11. g \in [1..Len(ss) -> Seq(S)]
  BY <1>1
<1>12. Flattening(ss, g)
  BY <1>5 DEF Flattening
<1>13. Len(ss) \in 1..Len(ss)
  BY <1>1
<1>14. FlattenSeq(ss) = g[Len(ss)]
  <2> HIDE DEF g
  <2> QED
    BY <1>8, <1>10, <1>13
<1> QED
  <2> HIDE DEF g
  <2> QED
    BY <1>11, <1>12, <1>14

\* A list without texts gives the empty text.
LEMMA FlattenSeqOfNone ==
    FlattenSeq(<<>>) = <<>>
BY DEF FlattenSeq

\* What is appended to the list is appended to the text.
LEMMA FlattenSeqOfAppend ==
    ASSUME NEW S, NEW ss \in Seq(Seq(S)), NEW s \in Seq(S)
    PROVE  /\ FlattenSeq(ss) \in Seq(S)
           /\ FlattenSeq(Append(ss, s)) = FlattenSeq(ss) \o s
<1> DEFINE n == Len(ss)
           tt == Append(ss, s)
<1>1. /\ n \in Nat /\ tt \in Seq(Seq(S)) /\ tt # <<>> /\ Len(tt) = n + 1
      /\ \A i \in 1..n : tt[i] = ss[i]
      /\ tt[n + 1] = s
  BY AppendProperties
<1>2. PICK g \in [1..Len(tt) -> Seq(S)] :
         Flattening(tt, g) /\ FlattenSeq(tt) = g[Len(tt)]
  <2> HIDE DEF tt
  <2> QED
    BY <1>1, FlattenSeqUnfolds
<1> HIDE DEF n, tt
<1>3. CASE ss = <<>>
  <2>1. n = 0
    BY <1>3 DEF n
  <2>2. FlattenSeq(tt) = s
    BY <1>1, <1>2, <2>1 DEF Flattening
  <2>3. FlattenSeq(ss) = <<>>
    BY <1>3, FlattenSeqOfNone, Zenon
  <2>4. <<>> \o s = s /\ <<>> \in Seq(S)
    BY ConcatEmptySeq
  <2>5. FlattenSeq(ss) \in Seq(S) /\ FlattenSeq(tt) = FlattenSeq(ss) \o s
    BY <2>2, <2>3, <2>4
  <2> QED
    BY <2>5 DEF tt
<1>4. CASE ss # <<>>
  <2>1. PICK f \in [1..n -> Seq(S)] : Flattening(ss, f) /\ FlattenSeq(ss) = f[n]
    BY <1>4, FlattenSeqUnfolds DEF n
  <2>2. n \in Nat \ {0}
    BY <1>4 DEF n
  <2> DEFINE T == {i \in 0..(n - 1) : g[i + 1] = f[i + 1]}
  <2>3. 0 \in T
    <3>1. 1 \in 1..n /\ 1 \in 1..Len(tt)
      BY <1>1, <2>2
    <3>2. g[1] = tt[1] /\ f[1] = ss[1]
      BY <1>2, <2>1, <3>1 DEF Flattening, n
    <3> QED
      BY <1>1, <2>2, <3>1, <3>2
  <2>4. ASSUME NEW i \in 0..((n - 1) - 1), i \in T
        PROVE  i + 1 \in T
    <3> DEFINE j == (i + 1) + 1
    <3>1. j \in 1..n /\ j \in 1..Len(tt) /\ j # 1 /\ j - 1 = i + 1
      BY <1>1, <2>2
    <3>2. g[j] = g[j - 1] \o tt[j]
      BY <1>2, <3>1 DEF Flattening
    <3>3. f[j] = f[j - 1] \o ss[j]
      BY <2>1, <3>1 DEF Flattening, n
    <3>4. g[j - 1] = f[j - 1]
      BY <2>4, <3>1
    <3>5. i + 1 \in 0..(n - 1)
      BY <2>2
    <3>6. g[j] = f[j]
      BY <1>1, <3>1, <3>2, <3>3, <3>4
    <3> QED
      BY <3>5, <3>6
  <2>5. \A i \in 0..(n - 1) : i \in T
    <3>1. n - 1 \in Nat
      BY <2>2
    <3> HIDE DEF T
    <3> QED
      BY <2>3, <2>4, <3>1, InductionUpTo
  <2>6. g[n] = f[n]
    <3>1. n - 1 \in 0..(n - 1) /\ (n - 1) + 1 = n
      BY <2>2
    <3> QED
      BY <2>5, <3>1
  <2>7. g[n + 1] = g[n] \o s
    <3>1. n + 1 \in 1..Len(tt) /\ n + 1 # 1 /\ (n + 1) - 1 = n
      BY <1>1, <2>2
    <3> QED
      BY <1>1, <1>2, <3>1 DEF Flattening
  <2>8. f[n] \in Seq(S)
    BY <2>2
  <2> QED
    BY <1>1, <1>2, <2>1, <2>6, <2>7, <2>8 DEF tt
<1> QED
  BY <1>3, <1>4

-----------------------------------------------------------------------------
(* Sequences *)

\* What is left of a sequence when its last element is taken away, and what it
\* was.
LEMMA LastElement ==
    ASSUME NEW S, NEW s \in Seq(S), NEW n \in 1..Len(s)
    PROVE  /\ SubSeq(s, 1, n - 1) \in Seq(S)
           /\ s[n] \in S
           /\ SubSeq(s, 1, n) = Append(SubSeq(s, 1, n - 1), s[n])
<1>1. s[n] \in S /\ SubSeq(s, 1, n - 1) \in Seq(S) /\ 1 \in 1..Len(s) /\ n \in 1..Len(s)
  <2>1. \A i \in 1..(n - 1) : s[i] \in S
    OBVIOUS
  <2> QED
    BY <2>1, SubSeqProperties
<1>2. SubSeq(s, 1, n) = SubSeq(s, 1, n - 1) \o <<s[n]>>
  BY <1>1, SubSeqRecursiveSecond
<1> QED
  BY <1>1, <1>2, AppendIsConcat

\* An element in front and one at the end may be added in either order.
LEMMA ConsAndAppend ==
    ASSUME NEW S, NEW c \in S, NEW s \in Seq(S), NEW e \in S
    PROVE  /\ <<c>> \o s \in Seq(S)
           /\ <<c>> \o Append(s, e) = Append(<<c>> \o s, e)
           /\ Append(<<>>, c) = <<c>> \o <<>>
<1>1. <<c>> \in Seq(S) /\ <<e>> \in Seq(S) /\ <<>> \in Seq(S)
  OBVIOUS
<1>2. <<c>> \o s \in Seq(S)
  BY <1>1, ConcatProperties
<1>3. Append(s, e) = s \o <<e>> /\ Append(<<c>> \o s, e) = (<<c>> \o s) \o <<e>>
  BY <1>2, AppendIsConcat
<1>4. (<<c>> \o s) \o <<e>> = <<c>> \o (s \o <<e>>)
  BY <1>1, ConcatAssociative
<1>5. Append(<<>>, c) = <<c>> /\ <<c>> \o <<>> = <<c>>
  BY <1>1, ConcatEmptySeq
<1> QED
  BY <1>2, <1>3, <1>4, <1>5

\* The places of a sequence with one more element in front.
LEMMA ConsIs ==
    ASSUME NEW S, NEW c \in S, NEW s \in Seq(S)
    PROVE  /\ Len(<<c>> \o s) = Len(s) + 1 /\ Len(s) \in Nat
           /\ (<<c>> \o s)[1] = c
           /\ \A i \in 1..Len(s) : (<<c>> \o s)[i + 1] = s[i]
<1> DEFINE u == <<c>> \o s
<1>1. <<c>> \in Seq(S) /\ Len(<<c>>) = 1 /\ <<c>>[1] = c /\ Len(s) \in Nat
  OBVIOUS
<1>2. /\ Len(u) = 1 + Len(s)
      /\ \A i \in 1..(1 + Len(s)) : u[i] = IF i <= 1 THEN <<c>>[i] ELSE s[i - 1]
  BY <1>1, ConcatProperties
<1> HIDE DEF u
<1>3. ASSUME NEW i \in 1..Len(s)
      PROVE  u[i + 1] = s[i]
  <2>1. i + 1 \in 1..(1 + Len(s)) /\ ~(i + 1 <= 1) /\ (i + 1) - 1 = i
    BY <1>1
  <2> QED
    BY <1>2, <2>1
<1>4. u[1] = c
  <2>1. 1 \in 1..(1 + Len(s)) /\ 1 <= 1
    BY <1>1
  <2> QED
    BY <1>1, <1>2, <2>1
<1>5. Len(u) = Len(s) + 1
  BY <1>1, <1>2
<1> QED
  BY <1>1, <1>3, <1>4, <1>5 DEF u

\* The rest of a sequence from each of its places on.
LEMMA Rests ==
    ASSUME NEW S, NEW s \in Seq(S)
    PROVE  /\ SubSeq(s, Len(s) + 1, Len(s)) = <<>>
           /\ SubSeq(s, 1, Len(s)) = s
           /\ \A i \in 1..(Len(s) + 1) : SubSeq(s, i, Len(s)) \in Seq(S)
           /\ \A i \in 1..Len(s) :
                 /\ s[i] \in S
                 /\ SubSeq(s, i, Len(s)) = <<s[i]>> \o SubSeq(s, i + 1, Len(s))
<1> DEFINE n == Len(s)
<1>1. n \in Nat
  OBVIOUS
<1>2. SubSeq(s, n + 1, n) = <<>>
  <2>1. n + 1 \in Int /\ n \in Int /\ n + 1 > n
    BY <1>1
  <2> QED
    BY <2>1, SubSeqEmpty
<1>3. \A i \in 1..n : SubSeq(s, i, n) = <<s[i]>> \o SubSeq(s, i + 1, n)
  <2> TAKE i \in 1..n
  <2>1. n \in i..Len(s) /\ i \in 1..Len(s)
    BY <1>1
  <2> QED
    BY <2>1, SubSeqRecursiveFirst
<1>4. \A i \in 1..(n + 1) : SubSeq(s, i, n) \in Seq(S)
  <2> TAKE i \in 1..(n + 1)
  <2>1. CASE i = n + 1
    BY <1>2, <2>1
  <2>2. CASE i # n + 1
    <3>1. i \in 1..n /\ \A t \in i..n : s[t] \in S
      BY <1>1, <2>2
    <3> QED
      BY <1>1, <3>1, SubSeqProperties
  <2> QED
    BY <2>1, <2>2
<1>5. SubSeq(s, 1, n) = s
  BY SubSeqFull
<1> QED
  BY <1>2, <1>3, <1>4, <1>5

\* What holds for the empty sequence and passes to every sequence with one more
\* element holds for all.
LEMMA InductionOnSequences ==
    ASSUME NEW C, NEW S, <<>> \in S,
           \A s \in Seq(C), c \in C : s \in S => Append(s, c) \in S
    PROVE  \A s \in Seq(C) : s \in S
<1> TAKE s \in Seq(C)
<1> DEFINE T == {i \in 0..Len(s) : SubSeq(s, 1, i) \in S}
<1>1. Len(s) \in Nat
  OBVIOUS
<1>2. 0 \in T
  <2>1. SubSeq(s, 1, 0) = <<>>
    BY SubSeqEmpty
  <2>2. SubSeq(s, 1, 0) \in S
    BY <2>1, Zenon
  <2>3. 0 \in 0..Len(s)
    BY <1>1
  <2> QED
    BY <2>2, <2>3, Zenon
<1>3. ASSUME NEW i \in 0..(Len(s) - 1), i \in T
      PROVE  i + 1 \in T
  <2>1. i + 1 \in 1..Len(s) /\ (i + 1) - 1 = i
    BY <1>1
  <2>2. /\ SubSeq(s, 1, i) \in Seq(C) /\ s[i + 1] \in C
        /\ SubSeq(s, 1, i + 1) = Append(SubSeq(s, 1, i), s[i + 1])
    BY <2>1, LastElement
  <2>3. SubSeq(s, 1, i) \in S
    BY <1>3
  <2>4. SubSeq(s, 1, i + 1) \in S
    BY <2>2, <2>3
  <2> QED
    BY <2>1, <2>4
<1>4. \A i \in 0..Len(s) : i \in T
  <2> HIDE DEF T
  <2> QED
    BY <1>1, <1>2, <1>3, InductionUpTo
<1>5. SubSeq(s, 1, Len(s)) = s
  BY SubSeqFull
<1>6. SubSeq(s, 1, Len(s)) \in S
  <2>1. Len(s) \in 0..Len(s)
    BY <1>1
  <2> QED
    BY <1>4, <2>1
<1> QED
  BY <1>5, <1>6, Zenon

=============================================================================
