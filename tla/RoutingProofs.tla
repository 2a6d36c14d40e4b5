--------------------------- MODULE RoutingProofs ----------------------------
(***************************************************************************)
(* Proofs about Routing, for any characters, questions, upper and lower    *)
(* case: texts and hosts of every length.                                  *)
(***************************************************************************)
EXTENDS Routing, SequenceLemmas

-----------------------------------------------------------------------------
(* Segments *)

\* What strings.Split returns: at least one segment.
Parts == Seq(Text) \ {<<>>}

\* A slash begins an empty part; any other character is appended to the last.
LEMMA AddCharacterType ==
    ASSUME NEW p \in Parts, NEW c \in Character
    PROVE  /\ AddCharacter(p, c) \in Parts
           /\ Len(p) \in Nat \ {0}
           /\ c = "/" =>
                 /\ Len(AddCharacter(p, c)) = Len(p) + 1
                 /\ \A k \in 1..Len(p) : AddCharacter(p, c)[k] = p[k]
                 /\ AddCharacter(p, c)[Len(p) + 1] = <<>>
           /\ c # "/" =>
                 /\ Len(AddCharacter(p, c)) = Len(p)
                 /\ \A k \in 1..(Len(p) - 1) : AddCharacter(p, c)[k] = p[k]
                 /\ AddCharacter(p, c)[Len(p)] = Append(p[Len(p)], c)
<1>1. Len(p) \in Nat \ {0} /\ p \in Seq(Text)
  BY EmptySeq DEF Parts
<1>2. CASE c = "/"
  <2> DEFINE a == Append(p, <<>>)
  <2>1. AddCharacter(p, c) = a
    BY <1>2 DEF AddCharacter
  <2>2. <<>> \in Text
    BY DEF Text
  <2>3. /\ a \in Seq(Text) /\ a # <<>>
        /\ Len(a) = Len(p) + 1
        /\ \A k \in 1..Len(p) : a[k] = p[k]
        /\ a[Len(p) + 1] = <<>>
    BY <1>1, <2>2, AppendProperties
  <2>4. a \in Parts
    <3> HIDE DEF a
    <3> QED
      BY <2>3 DEF Parts
  <2> HIDE DEF a
  <2> QED
    BY <1>1, <1>2, <2>1, <2>3, <2>4
<1>3. CASE c # "/"
  <2> DEFINE e == Append(p[Len(p)], c)
  <2>1. AddCharacter(p, c) = [p EXCEPT ![Len(p)] = e]
    BY <1>3 DEF AddCharacter
  <2>2. p[Len(p)] \in Text
    BY <1>1
  <2>3. e \in Text
    BY <2>2, AppendProperties DEF Text
  <2>4. Len(p) \in 1..Len(p)
    BY <1>1
  <2> HIDE DEF e
  <2> DEFINE a == [p EXCEPT ![Len(p)] = e]
  <2>5. /\ a \in Seq(Text)
        /\ Len(a) = Len(p)
        /\ \A j \in 1..Len(p) : a[j] = IF j = Len(p) THEN e ELSE p[j]
    BY <1>1, <2>3, <2>4, ExceptSeq
  <2>6. AddCharacter(p, c) = a
    BY <2>1
  <2> HIDE DEF a
  <2>7. a # <<>>
    BY <1>1, <2>5
  <2>8. a \in Parts
    BY <2>5, <2>7 DEF Parts
  <2>9. /\ \A k \in 1..(Len(p) - 1) : a[k] = p[k]
        /\ a[Len(p)] = e
    <3>1. \A k \in 1..(Len(p) - 1) : k \in 1..Len(p) /\ k # Len(p)
      BY <1>1
    <3> QED
      BY <2>4, <2>5, <3>1
  <2> QED
    BY <1>1, <1>3, <2>5, <2>6, <2>8, <2>9 DEF e
<1> QED
  BY <1>2, <1>3

Splitting(t, f) ==
    \A n \in 0..Len(t) :
        f[n] = IF n = 0 THEN <<<<>>>> ELSE AddCharacter(f[n - 1], t[n])

\* The recursive function of Segments is well defined.
LEMMA SegmentsUnfolds ==
    ASSUME NEW t \in Text
    PROVE  \E f \in [0..Len(t) -> Parts] : Splitting(t, f) /\ Segments(t) = f[Len(t)]
<1> DEFINE n == Len(t)
           next == [i \in 1..n |-> [p \in Parts |-> AddCharacter(p, t[i])]]
           first == <<<<>>>>
           Equation(g) == g = [i \in 0..Len(t) |->
                                  IF i = 0 THEN <<<<>>>> ELSE AddCharacter(g[i - 1], t[i])]
<1>1. n \in Nat /\ \A i \in 1..n : t[i] \in Character
  BY DEF Text
<1>2. next \in Steps(n, Parts)
  BY <1>1, AddCharacterType DEF Steps
<1>3. first \in Parts
  <2>1. <<>> \in Text
    BY DEF Text
  <2>2. <<<<>>>> \in Seq(Text) /\ <<<<>>>> # <<>>
    BY <2>1
  <2> QED
    BY <2>2 DEF Parts
<1>4. PICK f \in [0..n -> Parts] : Recursion(f, n, first, next)
  <2> HIDE DEF n, next, first
  <2> QED
    BY <1>1, <1>2, <1>3, RecursionExists
<1>5. ASSUME NEW i \in 1..n
      PROVE  f[i] = AddCharacter(f[i - 1], t[i])
  <2>1. i - 1 \in 0..n /\ f[i - 1] \in Parts
    BY <1>1
  <2>2. f[i] = next[i][f[i - 1]]
    BY <1>4 DEF Recursion
  <2> QED
    BY <2>1, <2>2
<1>6. f[0] = first
  BY <1>4 DEF Recursion
<1>7. Equation(f)
  <2>1. ASSUME NEW i \in 0..n
        PROVE  f[i] = IF i = 0 THEN first ELSE AddCharacter(f[i - 1], t[i])
    <3>1. CASE i = 0
      BY <3>1, <1>6
    <3>2. CASE i # 0
      <4>1. i \in 1..n
        BY <1>1, <3>2
      <4> QED
        BY <1>5, <3>2, <4>1
    <3> QED
      BY <3>1, <3>2
  <2> QED
    BY <2>1
<1> DEFINE parts == CHOOSE h : Equation(h)
<1>8. Equation(parts)
  <2> HIDE DEF Equation
  <2> QED
    BY <1>7
<1>9. Segments(t) = parts[n]
  BY DEF Segments
<1> HIDE DEF parts
<1>10. \A i \in 0..n : parts[i] = IF i = 0 THEN first ELSE AddCharacter(parts[i - 1], t[i])
  BY <1>8
<1> DEFINE T == {i \in 0..n : parts[i] = f[i]}
<1>11. 0 \in T
  <2>1. 0 \in 0..n
    BY <1>1
  <2>2. parts[0] = first
    BY <1>10, <2>1
  <2> QED
    BY <1>6, <2>1, <2>2
<1>12. ASSUME NEW i \in 0..(n - 1), i \in T
       PROVE  i + 1 \in T
  <2>1. i + 1 \in 1..n /\ i + 1 # 0 /\ (i + 1) - 1 = i
    BY <1>1
  <2> HIDE DEF n, first
  <2>2. f[i + 1] = AddCharacter(f[i], t[i + 1])
    BY <1>5, <2>1
  <2>3. parts[i + 1] = AddCharacter(parts[i], t[i + 1])
    BY <1>1, <1>10, <2>1
  <2>4. i + 1 \in 0..n
    BY <1>1, <2>1
  <2> QED
    BY <1>12, <2>2, <2>3, <2>4
<1>13. \A i \in 0..n : i \in T
  <2> HIDE DEF T, n
  <2> QED
    BY <1>1, <1>11, <1>12, InductionUpTo
<1>14. Segments(t) = f[n]
  <2>1. n \in 0..n
    BY <1>1
  <2> HIDE DEF n
  <2> QED
    BY <1>9, <1>13, <2>1
<1> QED
  BY <1>7, <1>14 DEF Splitting

\* The empty text has one segment, an empty one.
LEMMA SegmentsOfNone ==
    Segments(<<>>) = <<<<>>>>
<1>1. <<>> \in Text /\ Len(<<>>) = 0
  BY DEF Text
<1>2. PICK f \in [0..Len(<<>>) -> Parts] :
         Splitting(<<>>, f) /\ Segments(<<>>) = f[Len(<<>>)]
  BY <1>1, SegmentsUnfolds
<1>3. 0 \in 0..Len(<<>>)
  BY <1>1
<1>4. f[0] = <<<<>>>>
  BY <1>2, <1>3 DEF Splitting
<1> QED
  BY <1>1, <1>2, <1>4

\* One more character is added to the segments of the text before it.
LEMMA SegmentsOfAppend ==
    ASSUME NEW t \in Text, NEW c \in Character
    PROVE  /\ Segments(t) \in Parts
           /\ Segments(Append(t, c)) = AddCharacter(Segments(t), c)
<1> DEFINE n == Len(t)
           u == Append(t, c)
<1>1. /\ n \in Nat /\ u \in Text /\ Len(u) = n + 1
      /\ \A i \in 1..n : u[i] = t[i]
      /\ u[n + 1] = c
  BY AppendProperties DEF Text
<1> HIDE DEF n, u
<1>2. PICK f \in [0..n -> Parts] : Splitting(t, f) /\ Segments(t) = f[n]
  BY SegmentsUnfolds DEF n
<1>3. PICK g \in [0..Len(u) -> Parts] : Splitting(u, g) /\ Segments(u) = g[Len(u)]
  BY <1>1, SegmentsUnfolds
<1> DEFINE T == {i \in 0..n : g[i] = f[i]}
<1>4. 0 \in T
  <2>1. 0 \in 0..n /\ 0 \in 0..Len(u)
    BY <1>1
  <2>2. f[0] = <<<<>>>> /\ g[0] = <<<<>>>>
    BY <1>2, <1>3, <2>1 DEF Splitting, n
  <2> QED
    BY <2>1, <2>2
<1>5. ASSUME NEW i \in 0..(n - 1), i \in T
      PROVE  i + 1 \in T
  <2> DEFINE j == i + 1
  <2>1. j \in 1..n /\ j \in 0..n /\ j \in 0..Len(u) /\ j # 0 /\ j - 1 = i
    BY <1>1
  <2> HIDE DEF j
  <2>2. f[j] = AddCharacter(f[i], t[j])
    BY <1>2, <2>1 DEF Splitting, n
  <2>3. g[j] = AddCharacter(g[i], u[j])
    BY <1>3, <2>1 DEF Splitting
  <2>4. g[j] = f[j]
    BY <1>1, <1>5, <2>1, <2>2, <2>3
  <2>5. j \in T
    BY <2>1, <2>4
  <2> QED
    BY <2>5 DEF j
<1>6. \A i \in 0..n : i \in T
  <2> HIDE DEF T
  <2> QED
    BY <1>1, <1>4, <1>5, InductionUpTo
<1>7. g[n] = f[n] /\ f[n] \in Parts
  <2>1. n \in 0..n
    BY <1>1
  <2> QED
    BY <1>6, <2>1
<1>8. g[n + 1] = AddCharacter(g[n], u[n + 1])
  <2>1. n + 1 \in 0..Len(u) /\ n + 1 # 0 /\ (n + 1) - 1 = n
    BY <1>1
  <2> QED
    BY <1>3, <2>1 DEF Splitting
<1> QED
  BY <1>1, <1>2, <1>3, <1>7, <1>8 DEF u

\* The last segment of a text, and the ones before it.
LEMMA SegmentsStep ==
    ASSUME NEW t \in Text, NEW c \in Character
    PROVE  LET p == Segments(t)
               q == Segments(Append(t, c))
           IN  /\ p \in Parts /\ q \in Parts
               /\ Len(p) \in Nat \ {0}
               /\ c = "/" => /\ Len(q) = Len(p) + 1
                             /\ \A k \in 1..Len(p) : q[k] = p[k]
                             /\ q[Len(q)] = <<>>
               /\ c # "/" => /\ Len(q) = Len(p)
                             /\ \A k \in 1..(Len(p) - 1) : q[k] = p[k]
                             /\ q[Len(q)] = Append(p[Len(p)], c)
<1>1. Segments(t) \in Parts /\ Segments(Append(t, c)) = AddCharacter(Segments(t), c)
  BY SegmentsOfAppend
<1> QED
  BY <1>1, AddCharacterType

\* What appending a character to a text does.
LEMMA AppendText ==
    ASSUME NEW t \in Text, NEW c \in Character
    PROVE  Append(t, c) \in Text /\ Append(t, c) # <<>>
BY AppendProperties DEF Text

LastPart(t) == Segments(t)[Len(Segments(t))]

\* What the last segment says of the end of the text.
LEMMA LastPartTellsTheEnd ==
    ASSUME NEW t \in Text
    PROVE  /\ LastPart(t) = <<>> <=> (t = <<>> \/ t[Len(t)] = "/")
           /\ LastPart(t) = <<"*">> =>
                 /\ t # <<>> /\ t[Len(t)] = "*"
                 /\ Len(t) = 1 \/ t[Len(t) - 1] = "/"
<1>1. CASE t = <<>>
  <2>1. LastPart(t) = <<>>
    BY <1>1, SegmentsOfNone DEF LastPart
  <2> QED
    BY <1>1, <2>1
<1>2. ASSUME NEW s \in Text, NEW c \in Character
      PROVE  LET u == Append(s, c) IN
             /\ LastPart(u) = <<>> <=> u[Len(u)] = "/"
             /\ LastPart(u) = <<"*">> => LastPart(s) = <<>> /\ u[Len(u)] = "*"
  <2> DEFINE u == Append(s, c)
             l == LastPart(s)
  <2>1. u[Len(u)] = c
    BY AppendProperties DEF Text
  <2>2. l \in Text
    BY SegmentsStep DEF LastPart, Parts
  <2>3. CASE c = "/"
    <3>1. LastPart(u) = <<>>
      BY <2>3, SegmentsStep DEF LastPart
    <3>2. <<"*">> # <<>>
      OBVIOUS
    <3> HIDE DEF u
    <3> QED
      BY <2>1, <2>3, <3>1, <3>2 DEF u
  <2>4. CASE c # "/"
    <3>1. LastPart(u) = Append(l, c)
      BY <2>4, SegmentsStep DEF LastPart
    <3>2. Append(l, c) # <<>> /\ Len(Append(l, c)) = Len(l) + 1 /\ Append(l, c)[Len(l) + 1] = c
      BY <2>2, AppendProperties DEF Text
    <3>3. Append(l, c) = <<"*">> => Len(l) = 0 /\ c = "*"
      BY <2>2, <3>2 DEF Text
    <3>4. Len(l) = 0 => l = <<>>
      BY <2>2 DEF Text
    <3> HIDE DEF u, l
    <3> QED
      BY <2>1, <2>4, <3>1, <3>2, <3>3, <3>4 DEF l, u
  <2> QED
    BY <2>3, <2>4
<1>3. CASE t # <<>>
  <2>1. PICK s \in Text, c \in Character : t = Append(s, c)
    BY <1>3, SequenceEmptyOrAppend DEF Text
  <2>2. /\ LastPart(t) = <<>> <=> t[Len(t)] = "/"
        /\ LastPart(t) = <<"*">> => LastPart(s) = <<>> /\ t[Len(t)] = "*"
    BY <1>2, <2>1
  <2>3. /\ Len(s) \in Nat /\ Len(t) = Len(s) + 1
        /\ \A k \in 1..Len(s) : t[k] = s[k]
    BY <2>1, AppendProperties DEF Text
  <2>4. LastPart(s) = <<>> => s = <<>> \/ s[Len(s)] = "/"
    <3>1. CASE s = <<>>
      BY <3>1
    <3>2. CASE s # <<>>
      <4>1. PICK r \in Text, d \in Character : s = Append(r, d)
        BY <3>2, SequenceEmptyOrAppend DEF Text
      <4> QED
        BY <1>2, <4>1
    <3> QED
      BY <3>1, <3>2
  <2>5. s = <<>> => Len(t) = 1
    BY <2>3
  <2>6. s # <<>> => Len(s) \in 1..Len(s) /\ Len(t) - 1 = Len(s)
    BY <2>3 DEF Text
  <2> QED
    BY <1>3, <2>2, <2>3, <2>4, <2>5, <2>6
<1> QED
  BY <1>1, <1>3

\* Different texts have different segments.
LEMMA SegmentsInjective ==
    ASSUME NEW s \in Text, NEW t \in Text, Segments(s) = Segments(t)
    PROVE  s = t
<1> DEFINE S == {x \in Text : \A y \in Text : Segments(x) = Segments(y) => x = y}
<1>1. ASSUME NEW x \in Text, NEW c \in Character, NEW y \in Text, NEW d \in Character,
             Segments(Append(x, c)) = Segments(Append(y, d))
      PROVE  c = d /\ Segments(x) = Segments(y)
  <2> DEFINE p == Segments(x)
             q == Segments(y)
             u == Append(x, c)
             v == Append(y, d)
             r == Segments(u)
  <2>0. r = Segments(v)
    BY <1>1
  <2>1. /\ p \in Seq(Text) /\ q \in Seq(Text) /\ r \in Seq(Text)
        /\ Len(p) \in Nat \ {0} /\ Len(q) \in Nat \ {0} /\ Len(r) \in Nat
        /\ p[Len(p)] \in Text /\ q[Len(q)] \in Text
    <3>1. p \in Parts /\ q \in Parts /\ r \in Parts
      BY SegmentsStep
    <3> HIDE DEF p, q, r
    <3> QED
      BY <3>1, EmptySeq DEF Parts
  <2>2. /\ c = "/" => /\ Len(r) = Len(p) + 1
                      /\ \A k \in 1..Len(p) : r[k] = p[k]
                      /\ r[Len(r)] = <<>>
        /\ c # "/" => /\ Len(r) = Len(p)
                      /\ \A k \in 1..(Len(p) - 1) : r[k] = p[k]
                      /\ r[Len(r)] = Append(p[Len(p)], c)
    BY SegmentsStep
  <2>3. /\ d = "/" => /\ Len(r) = Len(q) + 1
                      /\ \A k \in 1..Len(q) : r[k] = q[k]
                      /\ r[Len(r)] = <<>>
        /\ d # "/" => /\ Len(r) = Len(q)
                      /\ \A k \in 1..(Len(q) - 1) : r[k] = q[k]
                      /\ r[Len(r)] = Append(q[Len(q)], d)
    BY <2>0, SegmentsStep
  <2> HIDE DEF p, q, r
  <2>4. Append(p[Len(p)], c) # <<>> /\ Append(q[Len(q)], d) # <<>>
    BY <2>1, AppendText
  <2>5. Append(p[Len(p)], c) = Append(q[Len(q)], d) => c = d /\ p[Len(p)] = q[Len(q)]
    BY <2>1, AppendInjective DEF Text
  <2>6. CASE c = "/"
    <3>1. d = "/"
      BY <2>2, <2>3, <2>4, <2>6
    <3>2. Len(p) = Len(q) /\ \A k \in 1..Len(p) : p[k] = q[k]
      BY <2>1, <2>2, <2>3, <2>6, <3>1
    <3> QED
      BY <2>1, <2>6, <3>1, <3>2, SeqEqual DEF p, q
  <2>7. CASE c # "/"
    <3>1. d # "/"
      BY <2>2, <2>3, <2>4, <2>7
    <3>2. c = d /\ p[Len(p)] = q[Len(q)] /\ Len(p) = Len(q)
      BY <2>2, <2>3, <2>5, <2>7, <3>1
    <3>3. \A k \in 1..(Len(p) - 1) : p[k] = q[k]
      BY <2>1, <2>2, <2>3, <2>7, <3>1, <3>2
    <3>4. \A k \in 1..Len(p) : p[k] = q[k]
      BY <2>1, <3>2, <3>3
    <3> QED
      BY <2>1, <3>2, <3>4, SeqEqual DEF p, q
  <2> QED
    BY <2>6, <2>7
<1>2. ASSUME NEW x \in Text, NEW c \in Character
      PROVE  Segments(Append(x, c)) # Segments(<<>>)
  <2> DEFINE p == Segments(x)
  <2>1. p \in Seq(Text) /\ Len(p) \in Nat \ {0} /\ p[Len(p)] \in Text
    BY SegmentsStep DEF Parts
  <2>2. Segments(<<>>) = <<<<>>>> /\ Len(<<<<>>>>) = 1
    BY SegmentsOfNone
  <2>3. Append(p[Len(p)], c) # <<>>
    BY <2>1, AppendText
  <2>4. CASE c = "/"
    <3>1. Len(Segments(Append(x, c))) = Len(p) + 1
      BY <2>4, SegmentsStep
    <3> QED
      BY <2>1, <2>2, <3>1
  <2>5. CASE c # "/"
    <3>1. LastPart(Append(x, c)) = Append(p[Len(p)], c)
      BY <2>5, SegmentsStep DEF LastPart
    <3>2. LastPart(<<>>) = <<>>
      <4>1. <<<<>>>>[Len(<<<<>>>>)] = <<>>
        OBVIOUS
      <4> QED
        BY <4>1, SegmentsOfNone, Zenon DEF LastPart
    <3> QED
      BY <2>3, <3>1, <3>2 DEF LastPart
  <2> QED
    BY <2>4, <2>5
<1>3. <<>> \in S
  <2>1. <<>> \in Text
    BY DEF Text
  <2>2. ASSUME NEW y \in Text, y # <<>>
        PROVE  Segments(y) # Segments(<<>>)
    <3>1. PICK r \in Text, d \in Character : y = Append(r, d)
      BY <2>2, SequenceEmptyOrAppend DEF Text
    <3> QED
      BY <1>2, <3>1
  <2> QED
    BY <2>1, <2>2
<1>4. ASSUME NEW x \in Text, NEW c \in Character, x \in S
      PROVE  Append(x, c) \in S
  <2>1. Append(x, c) \in Text
    BY AppendProperties DEF Text
  <2>2. ASSUME NEW y \in Text, Segments(Append(x, c)) = Segments(y)
        PROVE  Append(x, c) = y
    <3>1. y # <<>>
      BY <1>2, <2>2
    <3>2. PICK r \in Text, d \in Character : y = Append(r, d)
      BY <3>1, SequenceEmptyOrAppend DEF Text
    <3>3. c = d /\ Segments(x) = Segments(r)
      BY <1>1, <2>2, <3>2
    <3>4. x = r
      BY <1>4, <3>3
    <3> QED
      BY <3>2, <3>3, <3>4
  <2> QED
    BY <2>1, <2>2
<1>5. \A x \in Text : x \in S
  <2> HIDE DEF S
  <2> QED
    BY <1>3, <1>4, InductionOnSequences DEF Text
<1> QED
  BY <1>5

SlashFree(t) == \A i \in DOMAIN t : t[i] # "/"

\* A text without slashes goes into the last segment.
LEMMA SegmentsOfConcat ==
    ASSUME NEW t \in Text, NEW u \in Text, SlashFree(u)
    PROVE  LET p == Segments(t)
               q == Segments(t \o u)
           IN  /\ q \in Parts
               /\ Len(q) = Len(p)
               /\ \A k \in 1..(Len(p) - 1) : q[k] = p[k]
               /\ q[Len(q)] = p[Len(p)] \o u
<1> DEFINE p == Segments(t)
           Extended(q, v) == /\ q \in Parts
                             /\ Len(q) = Len(p)
                             /\ \A k \in 1..(Len(p) - 1) : q[k] = p[k]
                             /\ q[Len(q)] = p[Len(p)] \o v
           S == {v \in Text : SlashFree(v) => Extended(Segments(t \o v), v)}
<1>1. p \in Parts /\ Len(p) \in Nat \ {0} /\ p[Len(p)] \in Text
  <2>1. p \in Parts
    BY SegmentsOfAppend, RoutingAssumption
  <2> HIDE DEF p
  <2> QED
    BY <2>1, EmptySeq DEF Parts
<1>2. <<>> \in S
  <2>1. <<>> \in Text
    BY DEF Text
  <2>2. t \o <<>> = t /\ p[Len(p)] \o <<>> = p[Len(p)]
    BY <1>1, ConcatEmptySeq DEF Text
  <2>3. Extended(p, <<>>)
    BY <1>1, <2>2
  <2>4. Extended(Segments(t \o <<>>), <<>>)
    BY <2>2, <2>3
  <2> HIDE DEF Extended
  <2> QED
    BY <2>1, <2>4
<1>3. ASSUME NEW v \in Text, NEW c \in Character, v \in S
      PROVE  Append(v, c) \in S
  <2> DEFINE w == Append(v, c)
             x == t \o v
  <2>1. w \in Text /\ x \in Text
    BY AppendText, ConcatProperties DEF Text
  <2>2. t \o w = Append(x, c)
    <3>1. v \in Seq(Character) /\ t \in Seq(Character) /\ <<c>> \in Seq(Character)
      BY DEF Text
    <3>2. w = v \o <<c>> /\ Append(x, c) = x \o <<c>>
      BY <2>1, AppendIsConcat DEF Text
    <3> QED
      BY <3>1, <3>2, ConcatAssociative
  <2>3. p[Len(p)] \o w = Append(p[Len(p)] \o v, c)
    <3> DEFINE l == p[Len(p)]
    <3>1. v \in Seq(Character) /\ l \in Seq(Character) /\ <<c>> \in Seq(Character)
      BY <1>1 DEF Text
    <3> HIDE DEF l
    <3>2. l \o v \in Seq(Character)
      BY <3>1, ConcatProperties
    <3>3. w = v \o <<c>> /\ Append(l \o v, c) = (l \o v) \o <<c>>
      BY <3>1, <3>2, AppendIsConcat
    <3>4. l \o w = Append(l \o v, c)
      BY <3>1, <3>3, ConcatAssociative
    <3> QED
      BY <3>4 DEF l
  <2>4. ASSUME SlashFree(w)
        PROVE  Extended(Segments(t \o w), w)
    <3>1. /\ Len(w) = Len(v) + 1 /\ Len(v) \in Nat
          /\ \A i \in 1..Len(v) : w[i] = v[i]
          /\ w[Len(v) + 1] = c
          /\ DOMAIN w = 1..Len(w) /\ DOMAIN v = 1..Len(v)
      BY <2>1, AppendProperties, LenProperties DEF Text
    <3>2. SlashFree(v) /\ c # "/"
      <4> HIDE DEF w
      <4> QED
        BY <2>4, <3>1 DEF SlashFree
    <3>3. Extended(Segments(x), v)
      BY <1>3, <3>2
    <3> DEFINE q == Segments(x)
               r == Segments(Append(x, c))
    <3>4. /\ r \in Parts /\ Len(r) = Len(q)
          /\ \A k \in 1..(Len(q) - 1) : r[k] = q[k]
          /\ r[Len(r)] = Append(q[Len(q)], c)
      <4> HIDE DEF x
      <4> QED
        BY <2>1, <3>2, SegmentsStep
    <3>5. Extended(r, w)
      <4>1. Extended(q, v)
        BY <3>3
      <4> HIDE DEF q, r, p, w
      <4> QED
        BY <2>3, <3>4, <4>1
    <3> QED
      BY <2>2, <3>5
  <2> HIDE DEF Extended, w
  <2> QED
    BY <2>1, <2>4 DEF w
<1>4. \A v \in Text : v \in S
  <2> HIDE DEF S
  <2> QED
    BY <1>2, <1>3, InductionOnSequences DEF Text
<1> QED
  BY <1>4

\* Every segment is a piece of the text without a slash.
LEMMA SegmentsArePieces ==
    ASSUME NEW t \in Text, NEW k \in 1..Len(Segments(t))
    PROVE  /\ SlashFree(Segments(t)[k])
           /\ \E i \in 1..(Len(t) + 1), j \in 0..Len(t) : Segments(t)[k] = SubSeq(t, i, j)
<1> DEFINE Piece(s, x) == \E i \in 1..(Len(x) + 1), j \in 0..Len(x) : s = SubSeq(x, i, j)
           Ending(s, x) == \E i \in 1..(Len(x) + 1) : s = SubSeq(x, i, Len(x))
           S == {x \in Text : /\ \A n \in 1..Len(Segments(x)) :
                                   SlashFree(Segments(x)[n]) /\ Piece(Segments(x)[n], x)
                              /\ Ending(LastPart(x), x)}
<1>1. <<>> \in S
  <2>1. <<>> \in Text /\ Len(<<>>) = 0
    BY DEF Text
  <2>2. SubSeq(<<>>, 1, 0) = <<>>
    BY SubSeqEmpty
  <2>3. Segments(<<>>) = <<<<>>>> /\ Len(<<<<>>>>) = 1 /\ <<<<>>>>[1] = <<>>
    BY SegmentsOfNone
  <2>4. SlashFree(<<>>) /\ Piece(<<>>, <<>>) /\ Ending(<<>>, <<>>)
    BY <2>1, <2>2 DEF SlashFree
  <2>5. LastPart(<<>>) = <<>>
    BY <2>3, Zenon DEF LastPart
  <2>6. \A n \in 1..Len(Segments(<<>>)) : Segments(<<>>)[n] = <<>>
    BY <2>3
  <2> HIDE DEF Piece, Ending
  <2> QED
    BY <2>1, <2>4, <2>5, <2>6
<1>2. ASSUME NEW x \in Text, NEW c \in Character, x \in S
      PROVE  Append(x, c) \in S
  <2> DEFINE y == Append(x, c)
             p == Segments(x)
             q == Segments(y)
  <2>1. /\ y \in Text /\ Len(y) = Len(x) + 1 /\ Len(x) \in Nat
        /\ \A i \in 1..Len(x) : y[i] = x[i]
        /\ y[Len(x) + 1] = c
    BY AppendProperties DEF Text
  <2>2. ASSUME NEW i \in 1..(Len(x) + 1), NEW j \in 0..Len(x)
        PROVE  SubSeq(y, i, j) = SubSeq(x, i, j)
    <3> HIDE DEF y
    <3>1. /\ \A n \in i..j : x[n] \in Character /\ y[n] \in Character
          /\ i \in Int /\ j \in Int
      BY <2>1 DEF Text
    <3>2. /\ SubSeq(x, i, j) \in Seq(Character)
          /\ Len(SubSeq(x, i, j)) = IF i <= j THEN j - i + 1 ELSE 0
          /\ \A n \in 1..(j - i + 1) : SubSeq(x, i, j)[n] = x[i + n - 1]
      BY <3>1, SubSeqProperties
    <3>3. /\ SubSeq(y, i, j) \in Seq(Character)
          /\ Len(SubSeq(y, i, j)) = IF i <= j THEN j - i + 1 ELSE 0
          /\ \A n \in 1..(j - i + 1) : SubSeq(y, i, j)[n] = y[i + n - 1]
      BY <3>1, SubSeqProperties
    <3>4. ASSUME NEW n \in 1..Len(SubSeq(x, i, j))
          PROVE  SubSeq(y, i, j)[n] = SubSeq(x, i, j)[n]
      <4>1. n \in 1..(j - i + 1) /\ i + n - 1 \in 1..Len(x)
        BY <2>1, <3>2
      <4> QED
        BY <2>1, <3>2, <3>3, <4>1
    <3> QED
      BY <3>2, <3>3, <3>4, SeqEqual
  <2>3. ASSUME NEW s, Piece(s, x)
        PROVE  Piece(s, y)
    <3>1. PICK i \in 1..(Len(x) + 1), j \in 0..Len(x) : s = SubSeq(x, i, j)
      BY <2>3
    <3>2. s = SubSeq(y, i, j)
      BY <2>2, <3>1
    <3>3. i \in 1..(Len(y) + 1) /\ j \in 0..Len(y)
      BY <2>1
    <3> HIDE DEF y
    <3> QED
      BY <3>2, <3>3
  <2>4. /\ p \in Parts /\ q \in Parts /\ Len(p) \in Nat \ {0}
        /\ c = "/" => /\ Len(q) = Len(p) + 1
                      /\ \A m \in 1..Len(p) : q[m] = p[m]
                      /\ q[Len(q)] = <<>>
        /\ c # "/" => /\ Len(q) = Len(p)
                      /\ \A m \in 1..(Len(p) - 1) : q[m] = p[m]
                      /\ q[Len(q)] = Append(p[Len(p)], c)
    BY SegmentsStep
  <2>5. \A n \in 1..Len(p) : SlashFree(p[n]) /\ Piece(p[n], x)
    BY <1>2
  <2>6. PICK i \in 1..(Len(x) + 1) : p[Len(p)] = SubSeq(x, i, Len(x))
    BY <1>2 DEF LastPart
  <2>7. SlashFree(q[Len(q)]) /\ Ending(q[Len(q)], y)
    <3>1. CASE c = "/"
      <4>1. q[Len(q)] = <<>>
        BY <2>4, <3>1
      <4>2. SubSeq(y, Len(y) + 1, Len(y)) = <<>>
        BY <2>1, SubSeqEmpty
      <4>3. Len(y) + 1 \in 1..(Len(y) + 1)
        BY <2>1
      <4>4. SlashFree(<<>>)
        BY DEF SlashFree
      <4> HIDE DEF q, y
      <4> QED
        BY <4>1, <4>2, <4>3, <4>4
    <3>2. CASE c # "/"
      <4>1. q[Len(q)] = Append(p[Len(p)], c)
        BY <2>4, <3>2
      <4>2. SubSeq(y, i, Len(y)) = Append(SubSeq(y, i, Len(x)), c)
        <5> HIDE DEF y
        <5>1. i \in 1..Len(y) /\ Len(y) \in i..Len(y) /\ Len(y) - 1 = Len(x)
          BY <2>1
        <5>2. SubSeq(y, i, Len(y)) = SubSeq(y, i, Len(y) - 1) \o <<y[Len(y)]>>
          BY <2>1, <5>1, SubSeqRecursiveSecond DEF Text
        <5>3. SubSeq(y, i, Len(x)) \in Seq(Character)
          <6>1. \A n \in i..Len(x) : y[n] \in Character
            BY <2>1 DEF Text
          <6> QED
            BY <2>1, <6>1, SubSeqProperties
        <5> QED
          BY <2>1, <5>1, <5>2, <5>3, AppendIsConcat
      <4>3. SubSeq(y, i, Len(x)) = SubSeq(x, i, Len(x))
        BY <2>1, <2>2
      <4>4. i \in 1..(Len(y) + 1)
        BY <2>1
      <4>5. Ending(q[Len(q)], y)
        <5> HIDE DEF q, y, p
        <5> QED
          BY <2>6, <4>1, <4>2, <4>3, <4>4
      <4>6. SlashFree(q[Len(q)])
        <5> DEFINE l == p[Len(p)]
        <5>1. l \in Text /\ SlashFree(l)
          BY <2>4, <2>5 DEF Parts
        <5> HIDE DEF l
        <5>2. /\ Append(l, c) \in Seq(Character) /\ Len(Append(l, c)) = Len(l) + 1
              /\ \A n \in 1..Len(l) : Append(l, c)[n] = l[n]
              /\ Append(l, c)[Len(l) + 1] = c
              /\ Len(l) \in Nat
          BY <5>1, AppendProperties DEF Text
        <5>3. SlashFree(Append(l, c))
          BY <3>2, <5>1, <5>2 DEF SlashFree, Text
        <5> QED
          BY <4>1, <5>3 DEF l
      <4> QED
        BY <4>5, <4>6
    <3> QED
      BY <3>1, <3>2
  <2>8. Piece(q[Len(q)], y)
    <3>1. Len(y) \in 0..Len(y)
      BY <2>1
    <3> HIDE DEF q, y
    <3> QED
      BY <2>7, <3>1
  <2>9. ASSUME NEW n \in 1..Len(q)
        PROVE  SlashFree(q[n]) /\ Piece(q[n], y)
    <3>1. CASE n = Len(q)
      BY <2>7, <2>8, <3>1
    <3>2. CASE n # Len(q)
      <4>1. n \in 1..Len(p) /\ q[n] = p[n]
        <5> HIDE DEF p, q
        <5> QED
          BY <2>4, <3>2
      <4>2. SlashFree(p[n]) /\ Piece(p[n], x)
        BY <2>5, <4>1
      <4> HIDE DEF Piece, p, q, y
      <4> QED
        BY <2>3, <4>1, <4>2
    <3> QED
      BY <3>1, <3>2
  <2> HIDE DEF Piece, Ending
  <2> QED
    BY <2>1, <2>7, <2>9 DEF LastPart
<1>3. \A x \in Text : x \in S
  <2> HIDE DEF S
  <2> QED
    BY <1>1, <1>2, InductionOnSequences DEF Text
<1> QED
  BY <1>3

-----------------------------------------------------------------------------
(* A route with texts in the place of its stars *)

Filling(route, f) ==
    [i \in DOMAIN route |-> IF i \in DOMAIN f THEN f[i] ELSE <<route[i]>>]

FilledUpTo(route, f, n) == FlattenSeq(SubSeq(Filling(route, f), 1, n))

\* One more character of a route, filled.
LEMMA FilledStep ==
    ASSUME NEW route \in Text, NEW D, NEW f \in [D -> Text]
    PROVE  /\ FilledUpTo(route, f, 0) = <<>>
           /\ \A n \in 0..Len(route) : FilledUpTo(route, f, n) \in Text
           /\ \A n \in 1..Len(route) :
                 FilledUpTo(route, f, n) = FilledUpTo(route, f, n - 1) \o Filling(route, f)[n]
           /\ FilledUpTo(route, f, Len(route)) = FlattenSeq(Filling(route, f))
<1> DEFINE ss == Filling(route, f)
<1>1. /\ Len(route) \in Nat /\ DOMAIN route = 1..Len(route)
      /\ \A i \in 1..Len(route) : route[i] \in Character
  BY DEF Text
<1>2. ss \in Seq(Text) /\ Len(ss) = Len(route)
  <2>1. ASSUME NEW i \in 1..Len(route)
        PROVE  (IF i \in DOMAIN f THEN f[i] ELSE <<route[i]>>) \in Text
    <3>1. <<route[i]>> \in Text
      BY <1>1 DEF Text
    <3> QED
      BY <3>1
  <2>2. ss = [i \in 1..Len(route) |-> IF i \in DOMAIN f THEN f[i] ELSE <<route[i]>>]
    BY <1>1 DEF Filling
  <2>3. ss \in [1..Len(route) -> Text]
    BY <2>1, <2>2
  <2> HIDE DEF ss
  <2> QED
    BY <1>1, <2>3
<1> HIDE DEF ss
<1>3. FilledUpTo(route, f, 0) = <<>>
  <2>1. SubSeq(ss, 1, 0) = <<>>
    BY SubSeqEmpty
  <2> QED
    BY <2>1, FlattenSeqOfNone DEF FilledUpTo, ss
<1>4. ASSUME NEW n \in 1..Len(route)
      PROVE  /\ FilledUpTo(route, f, n - 1) \in Text
             /\ FilledUpTo(route, f, n) = FilledUpTo(route, f, n - 1) \o ss[n]
             /\ FilledUpTo(route, f, n) \in Text
  <2>1. /\ SubSeq(ss, 1, n - 1) \in Seq(Text) /\ ss[n] \in Text
        /\ SubSeq(ss, 1, n) = Append(SubSeq(ss, 1, n - 1), ss[n])
    BY <1>2, LastElement
  <2>2. /\ FlattenSeq(SubSeq(ss, 1, n - 1)) \in Text
        /\ FlattenSeq(SubSeq(ss, 1, n)) = FlattenSeq(SubSeq(ss, 1, n - 1)) \o ss[n]
    BY <2>1, FlattenSeqOfAppend DEF Text
  <2>3. FlattenSeq(SubSeq(ss, 1, n - 1)) \o ss[n] \in Text
    BY <2>1, <2>2, ConcatProperties DEF Text
  <2> QED
    BY <2>2, <2>3, Zenon DEF FilledUpTo, ss
<1>5. \A n \in 0..Len(route) : FilledUpTo(route, f, n) \in Text
  <2>1. <<>> \in Text
    BY DEF Text
  <2>2. ASSUME NEW n \in 0..Len(route)
          PROVE  FilledUpTo(route, f, n) \in Text
      <3>1. CASE n = 0
        BY <1>3, <2>1, <3>1
      <3>2. CASE n # 0
        <4>1. n \in 1..Len(route)
          BY <1>1, <3>2
        <4> QED
          BY <1>4, <4>1
      <3> QED
        BY <3>1, <3>2
  <2> QED
      BY <2>2
<1>6. FilledUpTo(route, f, Len(route)) = FlattenSeq(ss)
  BY <1>2, SubSeqFull DEF FilledUpTo, ss
<1> QED
  BY <1>3, <1>4, <1>5, <1>6 DEF ss

\* The number of the segment that character i of a route is in.
SegmentOf(route, i) == Len(Segments(SubSeq(route, 1, i)))

\* Every character of a route is in one of its segments.
LEMMA SegmentOfIsSegment ==
    ASSUME NEW route \in Text, NEW i \in 1..Len(route)
    PROVE  SegmentOf(route, i) \in 1..Len(Segments(route))
<1> DEFINE S == {n \in 0..Len(route) : i <= n => SegmentOf(route, i) <= SegmentOf(route, n)}
<1>1. Len(route) \in Nat
  BY DEF Text
<1>2. ASSUME NEW n \in 0..(Len(route) - 1)
      PROVE  /\ SegmentOf(route, n) \in Nat \ {0}
             /\ SegmentOf(route, n + 1) \in {SegmentOf(route, n), SegmentOf(route, n) + 1}
  <2> DEFINE t == SubSeq(route, 1, n)
             c == route[n + 1]
  <2>1. n + 1 \in 1..Len(route) /\ (n + 1) - 1 = n
    BY <1>1
  <2>2. t \in Text /\ c \in Character /\ SubSeq(route, 1, n + 1) = Append(t, c)
    BY <2>1, LastElement DEF Text
  <2> HIDE DEF t, c
  <2>3. /\ Len(Segments(t)) \in Nat \ {0}
        /\ Len(Segments(Append(t, c))) \in {Len(Segments(t)), Len(Segments(t)) + 1}
    BY <2>2, SegmentsStep
  <2> QED
    BY <2>2, <2>3 DEF SegmentOf, t
<1>3. SegmentOf(route, i) \in Nat \ {0}
  <2>1. i - 1 \in 0..(Len(route) - 1) /\ (i - 1) + 1 = i
    BY <1>1
  <2>2. /\ SegmentOf(route, i - 1) \in Nat \ {0}
        /\ SegmentOf(route, i) \in {SegmentOf(route, i - 1), SegmentOf(route, i - 1) + 1}
    BY <1>2, <2>1
  <2> QED
    BY <2>2
<1>4. 0 \in S
  BY <1>1
<1>5. ASSUME NEW n \in 0..(Len(route) - 1), n \in S
      PROVE  n + 1 \in S
  <2>1. n + 1 \in 0..Len(route)
    BY <1>1
  <2>2. ASSUME i <= n + 1
        PROVE  SegmentOf(route, i) <= SegmentOf(route, n + 1)
    <3>1. CASE i = n + 1
      BY <1>3, <3>1
    <3>2. CASE i # n + 1
      <4>1. i <= n
        BY <1>1, <2>2, <3>2
      <4>2. SegmentOf(route, i) <= SegmentOf(route, n)
        BY <1>5, <4>1
      <4> QED
        BY <1>2, <1>3, <4>2
    <3> QED
      BY <3>1, <3>2
  <2> QED
    BY <2>1, <2>2
<1>6. \A n \in 0..Len(route) : n \in S
  <2> HIDE DEF S
  <2> QED
    BY <1>1, <1>4, <1>5, InductionUpTo
<1>7. SegmentOf(route, i) <= SegmentOf(route, Len(route))
  <2>1. Len(route) \in 0..Len(route)
    BY <1>1
  <2> QED
    BY <1>6, <2>1
<1>8. SegmentOf(route, Len(route)) = Len(Segments(route))
  BY SubSeqFull DEF SegmentOf, Text
<1>9. Len(Segments(route)) \in Nat
  <2>1. Segments(route) \in Parts
    BY SegmentsOfAppend, RoutingAssumption
  <2> QED
    BY <2>1 DEF Parts
<1> QED
  BY <1>3, <1>7, <1>8, <1>9

\* Segment k of a route is a star and has its text in the filled route, or it
\* is the same in both.
FilledSegment(route, f, a, b, k) ==
    \/ \E i \in StarsOf(route) :
          SegmentOf(route, i) = k /\ a[k] = <<"*">> /\ b[k] = f[i]
    \/ a[k] # <<"*">> /\ b[k] = a[k]

\* The first characters of a text and the next one.
LEMMA Prefix ==
    ASSUME NEW t \in Text, NEW m \in 0..Len(t)
    PROVE  /\ m \in Nat /\ Len(t) \in Nat
           /\ SubSeq(t, 1, m) \in Text
           /\ Len(SubSeq(t, 1, m)) = m
           /\ \A i \in 1..m : SubSeq(t, 1, m)[i] = t[i]
<1>1. /\ m \in Nat /\ 1 \in Int /\ m \in Int /\ Len(t) \in Nat
      /\ \A i \in 1..m : t[i] \in Character
  BY DEF Text
<1>2. /\ SubSeq(t, 1, m) \in Seq(Character)
      /\ Len(SubSeq(t, 1, m)) = IF 1 <= m THEN m - 1 + 1 ELSE 0
      /\ \A i \in 1..(m - 1 + 1) : SubSeq(t, 1, m)[i] = t[1 + i - 1]
  BY <1>1, SubSeqProperties
<1> QED
  BY <1>1, <1>2 DEF Text

\* StarsOf in the words of the lemmas.
LEMMA StarsOfIsStars ==
    ASSUME NEW route \in Text, NEW i
    PROVE  i \in StarsOf(route) <=>
              /\ i \in 1..Len(route) /\ route[i] = "*"
              /\ i = 1 \/ route[i - 1] = "/"
              /\ i = Len(route) \/ route[i + 1] = "/"
<1>1. DOMAIN route = 1..Len(route)
  BY DEF Text
<1> QED
  BY <1>1, Zenon DEF StarsOf

\* A segment that has come to its end is "*" only where a star of the route is.
LEMMA StarSegmentIsStar ==
    ASSUME NEW route \in Text, NEW m \in 0..Len(route), m \notin StarsOf(route),
           m = Len(route) \/ route[m + 1] = "/"
    PROVE  LastPart(SubSeq(route, 1, m)) # <<"*">>
<1> DEFINE t == SubSeq(route, 1, m)
<1>1. m \in Nat /\ Len(route) \in Nat
  BY Prefix
<1>2. /\ t \in Text /\ Len(t) = m
      /\ \A i \in 1..m : t[i] = route[i]
  BY Prefix
<1> HIDE DEF t
<1> SUFFICES ASSUME LastPart(t) = <<"*">>
             PROVE  FALSE
  BY DEF t
<1>3. /\ t # <<>> /\ t[Len(t)] = "*"
      /\ Len(t) = 1 \/ t[Len(t) - 1] = "/"
  BY <1>2, LastPartTellsTheEnd
<1>4. m \in 1..Len(route)
  <2>1. m # 0
    BY <1>2, <1>3, EmptySeq DEF Text
  <2> QED
    BY <1>1, <2>1
<1>5. m = 1 \/ m - 1 \in 1..m
  BY <1>4
<1>6. route[m] = "*" /\ (m = 1 \/ route[m - 1] = "/")
  BY <1>2, <1>3, <1>4, <1>5
<1> QED
  BY <1>4, <1>6, StarsOfIsStars

\* The segments of a filled prefix are the filled segments of the prefix.
LEMMA SegmentsOfFilledUpTo ==
    ASSUME NEW route \in Text, NEW f \in [StarsOf(route) -> Text],
           \A i \in StarsOf(route) : SlashFree(f[i]),
           NEW n \in 0..Len(route)
    PROVE  LET a == Segments(SubSeq(route, 1, n))
               b == Segments(FilledUpTo(route, f, n))
           IN  /\ Len(a) = Len(b)
               /\ \A k \in 1..(Len(a) - 1) : FilledSegment(route, f, a, b, k)
               /\ n \in StarsOf(route) => a[Len(a)] = <<"*">> /\ b[Len(b)] = f[n]
               /\ n \notin StarsOf(route) => b[Len(b)] = a[Len(a)]
<1> DEFINE a(m) == Segments(SubSeq(route, 1, m))
           b(m) == Segments(FilledUpTo(route, f, m))
           Inv(m) == /\ Len(a(m)) = Len(b(m))
                     /\ \A k \in 1..(Len(a(m)) - 1) : FilledSegment(route, f, a(m), b(m), k)
                     /\ m \in StarsOf(route) =>
                           a(m)[Len(a(m))] = <<"*">> /\ b(m)[Len(b(m))] = f[m]
                     /\ m \notin StarsOf(route) => b(m)[Len(b(m))] = a(m)[Len(a(m))]
           S == {m \in 0..Len(route) : Inv(m)}
<1>1. Len(route) \in Nat /\ DOMAIN route = 1..Len(route)
  BY DEF Text
<1>2. 0 \in S
  <2>1. SubSeq(route, 1, 0) = <<>>
    BY SubSeqEmpty
  <2>2. FilledUpTo(route, f, 0) = <<>>
    BY FilledStep
  <2>3. a(0) = <<<<>>>> /\ b(0) = <<<<>>>>
    BY <2>1, <2>2, SegmentsOfNone
  <2>4. 0 \notin StarsOf(route)
    BY <1>1 DEF StarsOf
  <2>5. Len(a(0)) = 1 /\ Len(b(0)) = 1
    BY <2>3
  <2> HIDE DEF a, b
  <2>6. Inv(0)
    BY <2>3, <2>4, <2>5
  <2> QED
    BY <1>1, <2>6
<1>3. ASSUME NEW m \in 0..(Len(route) - 1), m \in S
      PROVE  m + 1 \in S
  <2> DEFINE t == SubSeq(route, 1, m)
             c == route[m + 1]
             u == FilledUpTo(route, f, m)
             p == Segments(t)
             q == Segments(u)
             p1 == Segments(Append(t, c))
             q1 == b(m + 1)
  <2>1. m + 1 \in 1..Len(route) /\ (m + 1) - 1 = m
    BY <1>1
  <2>2. t \in Text /\ c \in Character /\ SubSeq(route, 1, m + 1) = Append(t, c)
    BY <2>1, LastElement DEF Text
  <2>3. /\ u \in Text
        /\ FilledUpTo(route, f, m + 1) = u \o Filling(route, f)[m + 1]
    <3>1. /\ \A n_1 \in 0..Len(route) : FilledUpTo(route, f, n_1) \in Text
          /\ \A n_1 \in 1..Len(route) :
                FilledUpTo(route, f, n_1)
                  = FilledUpTo(route, f, n_1 - 1) \o Filling(route, f)[n_1]
      BY FilledStep
    <3>2. m \in 0..Len(route)
      BY <1>1
    <3> QED
      BY <2>1, <3>1, <3>2
  <2>4. Filling(route, f)[m + 1] = IF m + 1 \in StarsOf(route) THEN f[m + 1] ELSE <<c>>
    BY <1>1, <2>1 DEF Filling
  <2>5. /\ p \in Parts /\ p1 \in Parts /\ Len(p) \in Nat \ {0}
        /\ c = "/" => /\ Len(p1) = Len(p) + 1
                      /\ \A k \in 1..Len(p) : p1[k] = p[k]
                      /\ p1[Len(p1)] = <<>>
        /\ c # "/" => /\ Len(p1) = Len(p)
                      /\ \A k \in 1..(Len(p) - 1) : p1[k] = p[k]
                      /\ p1[Len(p1)] = Append(p[Len(p)], c)
    <3> HIDE DEF t, c
    <3> QED
      BY <2>2, SegmentsStep
  <2>6. /\ Len(p) = Len(q)
        /\ \A k \in 1..(Len(p) - 1) : FilledSegment(route, f, p, q, k)
        /\ m \in StarsOf(route) => p[Len(p)] = <<"*">> /\ q[Len(q)] = f[m]
        /\ m \notin StarsOf(route) => q[Len(q)] = p[Len(p)]
    BY <1>3
  <2>7. p1 = a(m + 1)
    BY <2>2
  <2> HIDE DEF a, b
  <2> SUFFICES /\ Len(p1) = Len(q1)
               /\ \A k \in 1..(Len(p1) - 1) : FilledSegment(route, f, p1, q1, k)
               /\ m + 1 \in StarsOf(route) =>
                     p1[Len(p1)] = <<"*">> /\ q1[Len(q1)] = f[m + 1]
               /\ m + 1 \notin StarsOf(route) => q1[Len(q1)] = p1[Len(p1)]
    <3>1. m + 1 \in 0..Len(route)
      BY <2>1
    <3> HIDE DEF p1, q1
    <3> QED
      BY <2>7, <3>1 DEF q1
  <2>8. m # 0 => m \in 1..Len(route) /\ t # <<>> /\ t[Len(t)] = route[m]
    <3>1. m \in 0..Len(route)
      BY <1>1
    <3>2. Len(t) = m /\ \A i \in 1..m : t[i] = route[i]
      BY <3>1, Prefix
    <3> HIDE DEF t
    <3> QED
      BY <1>1, <2>2, <3>2 DEF Text
  <2>9. m = 0 => t = <<>>
    BY SubSeqEmpty
  <2> HIDE DEF t, c, u
  <2>10. CASE m + 1 \in StarsOf(route)
    <3>1. c = "*" /\ (m = 0 \/ route[m] = "/")
      <4>1. m = 0 <=> m + 1 = 1
        BY <1>1
      <4> QED
        BY <2>1, <2>10, <4>1, StarsOfIsStars DEF c
    <3>2. m \notin StarsOf(route)
      BY <3>1, StarsOfIsStars
    <3>3. p[Len(p)] = <<>>
      BY <2>2, <2>8, <2>9, <3>1, LastPartTellsTheEnd DEF LastPart
    <3>4. q[Len(q)] = <<>>
      BY <2>6, <3>2, <3>3
    <3>5. f[m + 1] \in Text /\ SlashFree(f[m + 1])
      BY <2>10
    <3>6. q1 = Segments(u \o f[m + 1])
      BY <2>3, <2>4, <2>10 DEF b
    <3>7. /\ Len(q1) = Len(q)
          /\ \A k \in 1..(Len(q) - 1) : q1[k] = q[k]
          /\ q1[Len(q1)] = <<>> \o f[m + 1]
      <4>1. /\ Len(Segments(u \o f[m + 1])) = Len(Segments(u))
            /\ \A k \in 1..(Len(Segments(u)) - 1) :
                  Segments(u \o f[m + 1])[k] = Segments(u)[k]
            /\ Segments(u \o f[m + 1])[Len(Segments(u \o f[m + 1]))]
                 = Segments(u)[Len(Segments(u))] \o f[m + 1]
        BY <2>3, <3>5, SegmentsOfConcat
      <4> QED
        BY <3>4, <3>6, <4>1
    <3>8. <<>> \o f[m + 1] = f[m + 1]
      BY <3>5, ConcatEmptySeq DEF Text
    <3>9. Append(<<>>, "*") = <<"*">>
      OBVIOUS
    <3>10. Len(p1) = Len(p) /\ \A k \in 1..(Len(p) - 1) : p1[k] = p[k]
      BY <2>5, <3>1
    <3>11. p1[Len(p1)] = <<"*">>
      BY <2>5, <3>1, <3>3, <3>9
    <3> HIDE DEF p, q, p1, q1
    <3>12. \A k \in 1..(Len(p1) - 1) : FilledSegment(route, f, p1, q1, k)
      BY <2>6, <3>7, <3>10 DEF FilledSegment
    <3> QED
      BY <2>6, <2>10, <3>7, <3>8, <3>10, <3>11, <3>12
  <2>11. ASSUME m + 1 \notin StarsOf(route)
         PROVE  q1 = Segments(Append(u, c))
    <3>1. Append(u, c) = u \o <<c>>
      BY <2>2, <2>3, AppendIsConcat DEF Text
    <3> QED
      BY <2>3, <2>4, <2>11, <3>1 DEF b
  <2>12. CASE m + 1 \notin StarsOf(route) /\ c = "/"
    <3>1. /\ Len(q1) = Len(q) + 1
          /\ \A k \in 1..Len(q) : q1[k] = q[k]
          /\ q1[Len(q1)] = <<>>
      BY <2>2, <2>3, <2>11, <2>12, SegmentsStep
    <3>2. /\ Len(p1) = Len(p) + 1
          /\ \A k \in 1..Len(p) : p1[k] = p[k]
          /\ p1[Len(p1)] = <<>>
      BY <2>5, <2>12
    <3>3. FilledSegment(route, f, p, q, Len(p))
      <4>1. CASE m \in StarsOf(route)
        <5>1. SegmentOf(route, m) = Len(p)
          BY DEF SegmentOf, t
        <5> HIDE DEF p, q
        <5> QED
          BY <2>6, <4>1, <5>1 DEF FilledSegment
      <4>2. CASE m \notin StarsOf(route)
        <5>1. m \in 0..Len(route) /\ route[m + 1] = "/"
          BY <1>1, <2>12 DEF c
        <5>2. p[Len(p)] # <<"*">>
          BY <4>2, <5>1, StarSegmentIsStar DEF LastPart, t
        <5> HIDE DEF p, q
        <5> QED
          BY <2>6, <4>2, <5>2 DEF FilledSegment
      <4> QED
        BY <4>1, <4>2
    <3> HIDE DEF p, q, p1, q1
    <3>4. ASSUME NEW k \in 1..Len(p)
          PROVE  FilledSegment(route, f, p1, q1, k)
      <4>1. FilledSegment(route, f, p, q, k)
        <5>1. k = Len(p) \/ k \in 1..(Len(p) - 1)
          BY <2>5
        <5> QED
          BY <2>6, <3>3, <5>1
      <4> QED
        BY <2>6, <3>1, <3>2, <4>1 DEF FilledSegment
    <3>5. Len(p1) - 1 = Len(p)
      BY <2>5, <3>2
    <3> QED
      BY <2>6, <2>12, <3>1, <3>2, <3>4, <3>5
  <2>13. CASE m + 1 \notin StarsOf(route) /\ c # "/"
    <3>1. m \notin StarsOf(route)
      BY <2>1, <2>13, StarsOfIsStars DEF c
    <3>2. /\ Len(q1) = Len(q)
          /\ \A k \in 1..(Len(q) - 1) : q1[k] = q[k]
          /\ q1[Len(q1)] = Append(q[Len(q)], c)
      BY <2>2, <2>3, <2>11, <2>13, SegmentsStep
    <3>3. /\ Len(p1) = Len(p)
          /\ \A k \in 1..(Len(p) - 1) : p1[k] = p[k]
          /\ p1[Len(p1)] = Append(p[Len(p)], c)
      BY <2>5, <2>13
    <3> HIDE DEF p, q, p1, q1
    <3>4. \A k \in 1..(Len(p1) - 1) : FilledSegment(route, f, p1, q1, k)
      BY <2>6, <3>2, <3>3 DEF FilledSegment
    <3> QED
      BY <2>6, <2>13, <3>1, <3>2, <3>3, <3>4
  <2> QED
    BY <2>10, <2>12, <2>13
<1>4. \A m \in 0..Len(route) : m \in S
  <2> HIDE DEF S
  <2> QED
    BY <1>1, <1>2, <1>3, InductionUpTo
<1> QED
  BY <1>4

\* The segments of a filled route, one by one.
LEMMA SegmentsOfFilled ==
    ASSUME NEW route \in Text, NEW f \in [StarsOf(route) -> Text],
           \A i \in StarsOf(route) : SlashFree(f[i])
    PROVE  LET a == Segments(route)
               b == Segments(FlattenSeq(Filling(route, f)))
           IN  /\ FlattenSeq(Filling(route, f)) \in Text
               /\ a \in Parts /\ b \in Parts /\ Len(a) = Len(b)
               /\ \A k \in 1..Len(a) : FilledSegment(route, f, a, b, k)
<1> DEFINE n == Len(route)
           a == Segments(route)
           b == Segments(FlattenSeq(Filling(route, f)))
<1>1. n \in Nat /\ n \in 0..n
  BY DEF Text
<1>2. SubSeq(route, 1, n) = route
  BY SubSeqFull DEF Text
<1>3. FilledUpTo(route, f, n) = FlattenSeq(Filling(route, f)) /\ FilledUpTo(route, f, n) \in Text
  <2>1. /\ FilledUpTo(route, f, n) = FlattenSeq(Filling(route, f))
        /\ \A m \in 0..n : FilledUpTo(route, f, m) \in Text
    BY FilledStep
  <2> HIDE DEF n
  <2> QED
    BY <1>1, <2>1
<1>4. a \in Parts /\ b \in Parts
  BY <1>3, SegmentsOfAppend, RoutingAssumption
<1>5. /\ Len(a) = Len(b)
      /\ \A k \in 1..(Len(a) - 1) : FilledSegment(route, f, a, b, k)
      /\ n \in StarsOf(route) => a[Len(a)] = <<"*">> /\ b[Len(b)] = f[n]
      /\ n \notin StarsOf(route) => b[Len(b)] = a[Len(a)]
  <2> DEFINE a1 == Segments(SubSeq(route, 1, n))
             b1 == Segments(FilledUpTo(route, f, n))
  <2>1. /\ Len(a1) = Len(b1)
        /\ \A k \in 1..(Len(a1) - 1) : FilledSegment(route, f, a1, b1, k)
        /\ n \in StarsOf(route) => a1[Len(a1)] = <<"*">> /\ b1[Len(b1)] = f[n]
        /\ n \notin StarsOf(route) => b1[Len(b1)] = a1[Len(a1)]
    <3> HIDE DEF n
    <3> QED
      BY <1>1, SegmentsOfFilledUpTo DEF n
  <2>2. a1 = a /\ b1 = b
    BY <1>2, <1>3
  <2> HIDE DEF a, b, a1, b1
  <2> QED
    BY <2>1, <2>2
<1>6. SegmentOf(route, n) = Len(a)
  BY <1>2 DEF SegmentOf
<1>7. n \notin StarsOf(route) => a[Len(a)] # <<"*">>
  BY <1>1, <1>2, StarSegmentIsStar DEF LastPart
<1>8. Len(a) \in Nat \ {0}
  <2> HIDE DEF a
  <2> QED
    BY <1>4, EmptySeq DEF Parts
<1> HIDE DEF a, b, n
<1>9. FilledSegment(route, f, a, b, Len(a))
  BY <1>5, <1>6, <1>7 DEF FilledSegment
<1>10. \A k \in 1..Len(a) : FilledSegment(route, f, a, b, k)
  BY <1>5, <1>8, <1>9
<1> QED
  BY <1>3, <1>4, <1>5, <1>10 DEF a, b

-----------------------------------------------------------------------------
(* Matches *)

\* A normalized path is a text that is not empty.
LEMMA NormalizePathType ==
    ASSUME NEW t \in Text
    PROVE  NormalizePath(t) \in Text /\ NormalizePath(t) # <<>>
<1> DEFINE rooted == IF IsPrefix(<<"/">>, t) THEN t ELSE <<"/">> \o t
<1>1. <<"/">> \in Text
  <2>1. "/" \in Character
    BY RoutingAssumption
  <2> QED
    BY <2>1 DEF Text
<1>2. rooted \in Text
  BY <1>1, ConcatProperties DEF Text
<1>3. Len(rooted) >= 1 /\ Len(rooted) \in Nat
  <2>1. CASE IsPrefix(<<"/">>, t)
    BY <2>1 DEF IsPrefix, Text
  <2>2. CASE ~IsPrefix(<<"/">>, t)
    <3>1. Len(<<"/">> \o t) = Len(<<"/">>) + Len(t)
      BY <1>1, ConcatProperties DEF Text
    <3> QED
      BY <2>2, <3>1 DEF Text
  <2> QED
    BY <2>1, <2>2
<1> HIDE DEF rooted
<1>4. CASE Len(rooted) > 1 /\ Last(rooted) = "/"
  <2>1. Len(rooted) - 1 \in 0..Len(rooted)
    BY <1>3
  <2> DEFINE front == SubSeq(rooted, 1, Len(rooted) - 1)
  <2>2. front \in Text /\ Len(front) = Len(rooted) - 1
    BY <1>2, <2>1, Prefix
  <2>3. NormalizePath(t) = front
    BY <1>4, Zenon DEF NormalizePath, Front, rooted
  <2> HIDE DEF front
  <2>4. Len(front) # 0
    BY <1>3, <1>4, <2>2
  <2>5. front # <<>>
    BY <2>4
  <2> QED
    BY <2>2, <2>3, <2>5
<1>5. CASE ~(Len(rooted) > 1 /\ Last(rooted) = "/")
  <2>1. NormalizePath(t) = rooted
    BY <1>5, Zenon DEF NormalizePath, rooted
  <2> QED
    BY <1>2, <1>3, <2>1
<1> QED
  BY <1>4, <1>5

\* What may be in the place of a star.
LEMMA PiecesAreTexts ==
    ASSUME NEW path \in Text, NEW s
    PROVE  s \in PiecesOf(path) => s \in Text /\ SlashFree(s)
<1> SUFFICES ASSUME s \in PiecesOf(path)
             PROVE  s \in Text /\ SlashFree(s)
  OBVIOUS
<1>1. PICK i \in 1..Len(path), j \in 0..Len(path) : s = SubSeq(path, i, j)
  BY DEF PiecesOf
<1>2. "/" \notin ToSet(s)
  BY DEF PiecesOf
<1>3. s \in Text
  <2>1. i \in Int /\ j \in Int /\ \A n \in i..j : path[n] \in Character
    BY DEF Text
  <2> QED
    BY <1>1, <2>1, SubSeqProperties DEF Text
<1> QED
  BY <1>2, <1>3 DEF ToSet, SlashFree

\* Every segment of a path may stand for a star.
LEMMA SegmentIsPiece ==
    ASSUME NEW path \in Text, path # <<>>, NEW k \in 1..Len(Segments(path))
    PROVE  Segments(path)[k] \in PiecesOf(path)
<1> DEFINE s == Segments(path)[k]
<1>1. SlashFree(s) /\ \E i \in 1..(Len(path) + 1), j \in 0..Len(path) : s = SubSeq(path, i, j)
  BY SegmentsArePieces
<1> HIDE DEF s
<1>2. PICK i \in 1..(Len(path) + 1), j \in 0..Len(path) : s = SubSeq(path, i, j)
  BY <1>1
<1>3. Len(path) \in Nat \ {0}
  BY EmptySeq DEF Text
<1>4. \E i_1 \in 1..Len(path), j_1 \in 0..Len(path) : s = SubSeq(path, i_1, j_1)
  <2>1. CASE i = Len(path) + 1
    <3>1. SubSeq(path, i, j) = <<>>
      BY <1>3, <2>1, SubSeqEmpty
    <3>2. SubSeq(path, 1, 0) = <<>>
      BY SubSeqEmpty
    <3>3. 1 \in 1..Len(path) /\ 0 \in 0..Len(path)
      BY <1>3
    <3> QED
      BY <1>2, <3>1, <3>2, <3>3
  <2>2. CASE i # Len(path) + 1
    <3>1. i \in 1..Len(path)
      BY <1>3, <2>2
    <3> QED
      BY <1>2, <3>1
  <2> QED
    BY <2>1, <2>2
<1>5. "/" \notin ToSet(s)
  BY <1>1 DEF ToSet, SlashFree
<1> QED
  BY <1>4, <1>5 DEF PiecesOf, s

\* A route and a path match where the route, filled, is the path.
LEMMA SegmentsMatchFilled ==
    ASSUME NEW route \in Text, NEW path \in Text, path # <<>>
    PROVE  SegmentsMatch(Segments(route), Segments(path)) <=>
             \E f \in [StarsOf(route) -> PiecesOf(path)] :
                FlattenSeq(Filling(route, f)) = path
<1> DEFINE a == Segments(route)
           p == Segments(path)
<1>1. /\ a \in Parts /\ p \in Parts /\ Len(a) \in Nat
      /\ DOMAIN a = 1..Len(a)
  <2>1. a \in Parts /\ p \in Parts
    BY SegmentsOfAppend, RoutingAssumption
  <2> HIDE DEF a, p
  <2> QED
    BY <2>1, LenProperties DEF Parts
<1>2. ASSUME NEW f \in [StarsOf(route) -> PiecesOf(path)]
      PROVE  /\ f \in [StarsOf(route) -> Text]
             /\ \A i \in StarsOf(route) : SlashFree(f[i])
  BY PiecesAreTexts
<1>3. ASSUME NEW f \in [StarsOf(route) -> PiecesOf(path)],
             FlattenSeq(Filling(route, f)) = path
      PROVE  SegmentsMatch(a, p)
  <2>1. Len(a) = Len(p) /\ \A k \in 1..Len(a) : FilledSegment(route, f, a, p, k)
    BY <1>2, <1>3, SegmentsOfFilled
  <2> HIDE DEF a, p
  <2> QED
    BY <1>1, <2>1 DEF SegmentsMatch, FilledSegment
<1>4. ASSUME SegmentsMatch(a, p)
      PROVE  \E f \in [StarsOf(route) -> PiecesOf(path)] :
                FlattenSeq(Filling(route, f)) = path
  <2>1. Len(a) = Len(p) /\ \A k \in 1..Len(a) : a[k] \in {<<"*">>, p[k]}
    BY <1>1, <1>4 DEF SegmentsMatch
  <2> DEFINE f == [i \in StarsOf(route) |-> p[SegmentOf(route, i)]]
             b == Segments(FlattenSeq(Filling(route, f)))
  <2>2. f \in [StarsOf(route) -> PiecesOf(path)]
    <3>1. ASSUME NEW i \in StarsOf(route)
          PROVE  p[SegmentOf(route, i)] \in PiecesOf(path)
      <4>1. SegmentOf(route, i) \in 1..Len(a)
        BY StarsOfIsStars, SegmentOfIsSegment
      <4>2. SegmentOf(route, i) \in 1..Len(p)
        <5> HIDE DEF a, p
        <5> QED
          BY <2>1, <4>1
      <4> QED
        BY <4>2, SegmentIsPiece
    <3> QED
      BY <3>1
  <2>3. \A i \in StarsOf(route) : f[i] = p[SegmentOf(route, i)]
    OBVIOUS
  <2> HIDE DEF f
  <2>4. /\ FlattenSeq(Filling(route, f)) \in Text
        /\ b \in Parts /\ Len(a) = Len(b)
        /\ \A k \in 1..Len(a) : FilledSegment(route, f, a, b, k)
    BY <1>2, <2>2, SegmentsOfFilled
  <2>5. b = p
    <3> HIDE DEF a, b, p
    <3>1. ASSUME NEW k \in 1..Len(a)
          PROVE  b[k] = p[k]
      <4>1. FilledSegment(route, f, a, b, k)
        BY <2>4
      <4> QED
        BY <2>1, <2>3, <4>1 DEF FilledSegment
    <3>2. b \in Seq(Text) /\ p \in Seq(Text) /\ Len(b) = Len(p) /\ Len(b) = Len(a)
      BY <1>1, <2>1, <2>4 DEF Parts
    <3> QED
      BY <3>1, <3>2, SeqEqual
  <2>6. FlattenSeq(Filling(route, f)) = path
    BY <2>4, <2>5, SegmentsInjective
  <2> QED
    BY <2>2, <2>6
<1> HIDE DEF a, p
<1> QED
  BY <1>3, <1>4 DEF a, p

\* The comparison of whole paths finds nothing that segments do not.
LEMMA MatchesIsSegmentsMatch ==
    ASSUME NEW pattern \in Text, NEW path \in Text
    PROVE  Matches(pattern, path) <=>
             SegmentsMatch(Segments(NormalizePath(pattern)), Segments(NormalizePath(path)))
<1> DEFINE a == Segments(NormalizePath(pattern))
           p == Segments(NormalizePath(path))
<1>1. NormalizePath(pattern) = NormalizePath(path) => a = p
  BY Zenon
<1>2. a = p => SegmentsMatch(a, p)
  <2> HIDE DEF a, p
  <2> QED
    BY DEF SegmentsMatch
<1> HIDE DEF a, p
<1> QED
  BY <1>1, <1>2, Zenon DEF Matches, a, p

\* Methods match when they have the same letters.
LEMMA MatchesMethodIsSameLetters ==
    ASSUME NEW method \in Text, NEW reqMethod \in Text
    PROVE  MatchesMethod(method, reqMethod) <=>
             method = <<>> \/ SameLetters(method, reqMethod)
<1>1. /\ Len(method) \in Nat /\ DOMAIN method = 1..Len(method)
      /\ Len(reqMethod) \in Nat /\ DOMAIN reqMethod = 1..Len(reqMethod)
      /\ \A i \in 1..Len(method) : method[i] \in Character
      /\ \A i \in 1..Len(reqMethod) : reqMethod[i] \in Character
  BY DEF Text
<1>2. ASSUME NEW c \in Character, NEW d \in Character
      PROVE  UpperOf[c] = UpperOf[d] <=> \E e \in Character : {c, d} \subseteq CasesOf(e)
  <2>1. /\ UpperOf[c] \in Character
        /\ \A e \in Character : UpperOf[UpperOf[e]] = UpperOf[e]
    BY RoutingAssumption
  <2> QED
    BY <2>1 DEF CasesOf
<1>3. ASSUME SameLetters(method, reqMethod)
      PROVE  ToUpper(method) = ToUpper(reqMethod)
  <2>1. \A i \in 1..Len(method) : UpperOf[method[i]] = UpperOf[reqMethod[i]]
    BY <1>1, <1>2, <1>3 DEF SameLetters
  <2>2. Len(method) = Len(reqMethod)
    BY <1>3 DEF SameLetters
  <2> QED
    BY <1>1, <2>1, <2>2 DEF ToUpper
<1>4. ASSUME ToUpper(method) = ToUpper(reqMethod)
      PROVE  SameLetters(method, reqMethod)
  <2>1. DOMAIN ToUpper(method) = 1..Len(method) /\ DOMAIN ToUpper(reqMethod) = 1..Len(reqMethod)
    BY <1>1 DEF ToUpper
  <2>2. 1..Len(method) = 1..Len(reqMethod)
    BY <1>4, <2>1
  <2>3. Len(method) = Len(reqMethod)
    <3>1. ASSUME NEW m \in Nat, NEW n \in Nat, 1..m = 1..n
          PROVE  m <= n
      <4>1. m = 0 \/ m \in 1..n
        BY <3>1
      <4> QED
        BY <4>1
    <3>2. Len(method) <= Len(reqMethod) /\ Len(reqMethod) <= Len(method)
      BY <1>1, <2>2, <3>1
    <3>3. Len(method) \in Nat /\ Len(reqMethod) \in Nat
      BY <1>1
    <3>4. \A m, n \in Nat : m <= n /\ n <= m => m = n
      OBVIOUS
    <3> QED
      BY <3>2, <3>3, <3>4
  <2>4. ASSUME NEW i \in 1..Len(method)
        PROVE  UpperOf[method[i]] = UpperOf[reqMethod[i]]
    <3>1. ToUpper(method)[i] = UpperOf[method[i]] /\ ToUpper(reqMethod)[i] = UpperOf[reqMethod[i]]
      BY <1>1, <2>2 DEF ToUpper
    <3> QED
      BY <1>4, <3>1
  <2> QED
    BY <1>1, <1>2, <2>2, <2>3, <2>4 DEF SameLetters
<1> QED
  BY <1>3, <1>4 DEF MatchesMethod

Rooted(t) == IF IsPrefix(<<"/">>, t) THEN t ELSE <<"/">> \o t

\* The text of one slash.
LEMMA SlashText ==
    <<"/">> \in Text /\ Len(<<"/">>) = 1 /\ <<"/">>[1] = "/"
<1>1. "/" \in Character
  BY RoutingAssumption
<1> QED
  BY <1>1 DEF Text

\* A slash put in front of a text.
LEMMA SlashInFront ==
    ASSUME NEW t \in Text
    PROVE  IsPrefix(<<"/">>, t) <=> Len(t) >= 1 /\ t[1] = "/"
<1>1. Len(t) \in Nat /\ DOMAIN t = 1..Len(t)
  BY DEF Text
<1>2. ASSUME Len(t) >= 1
      PROVE  SubSeq(t, 1, 1) = <<t[1]>>
  <2>1. 1 \in 1..Len(t)
    BY <1>1, <1>2
  <2>2. SubSeq(t, 1, 0) = <<>> /\ SubSeq(t, 1, 1) = Append(SubSeq(t, 1, 1 - 1), t[1])
    BY <2>1, LastElement, SubSeqEmpty DEF Text
  <2>3. Append(<<>>, t[1]) = <<t[1]>> /\ 1 - 1 = 0
    OBVIOUS
  <2>4. SubSeq(t, 1, 1) = Append(SubSeq(t, 1, 0), t[1])
    BY <2>2, <2>3
  <2> QED
    BY <2>2, <2>3, <2>4, Zenon
<1>3. SubSeq(<<"/">>, 1, 1) = <<"/">>
  BY SlashText, SubSeqFull DEF Text
<1>4. <<t[1]>> = <<"/">> <=> t[1] = "/"
  OBVIOUS
<1> QED
  BY <1>1, <1>2, <1>3, <1>4, SlashText DEF IsPrefix

\* A slash put at the end of a text.
LEMMA SlashAtEnd ==
    ASSUME NEW t \in Text
    PROVE  IsSuffix(<<"/">>, t) <=> Len(t) >= 1 /\ t[Len(t)] = "/"
<1>1. Len(t) \in Nat
  BY DEF Text
<1>2. Reverse(t) \in Text /\ Len(Reverse(t)) = Len(t)
  <2>1. Reverse(t) \in [1..Len(t) -> Character]
    <3>1. ASSUME NEW i \in 1..Len(t)
          PROVE  t[(Len(t) - i) + 1] \in Character
      <4>1. (Len(t) - i) + 1 \in 1..Len(t)
        BY <1>1
      <4> QED
        BY <4>1 DEF Text
    <3> QED
      BY <3>1 DEF Reverse
  <2> QED
    BY <1>1, <2>1 DEF Text
<1>3. Len(t) >= 1 => Reverse(t)[1] = t[Len(t)]
  BY <1>1 DEF Reverse
<1>4. Reverse(<<"/">>) = <<"/">>
  BY DEF Reverse
<1> QED
  BY <1>1, <1>2, <1>3, <1>4, SlashInFront DEF IsSuffix

\* A text with its slash in front is a text that is not empty.
LEMMA RootedType ==
    ASSUME NEW t \in Text
    PROVE  Rooted(t) \in Text /\ Len(Rooted(t)) \in Nat \ {0}
<1>1. CASE IsPrefix(<<"/">>, t)
  <2>1. Rooted(t) = t /\ Len(t) >= 1
    BY <1>1, SlashInFront DEF Rooted
  <2> QED
    BY <2>1 DEF Text
<1>2. CASE ~IsPrefix(<<"/">>, t)
  <2>1. Rooted(t) = <<"/">> \o t
    BY <1>2 DEF Rooted
  <2>2. <<"/">> \o t \in Text /\ Len(<<"/">> \o t) = 1 + Len(t)
    BY SlashText, ConcatProperties DEF Text
  <2> QED
    BY <2>1, <2>2 DEF Text
<1> QED
  BY <1>1, <1>2

\* A slash that may be left out is not in a normalized path.
LEMMA NormalizePathIgnoresSlashes ==
    ASSUME NEW t \in Text, NEW q \in WithSlashes(t)
    PROVE  q \in Text /\ NormalizePath(q) = NormalizePath(t)
<1>1. \A x : NormalizePath(x) = IF Len(Rooted(x)) > 1 /\ Last(Rooted(x)) = "/"
                                  THEN Front(Rooted(x)) ELSE Rooted(x)
  BY Zenon DEF NormalizePath, Rooted
<1>2. Len(t) \in Nat
  BY DEF Text
<1>3. CASE ~IsPrefix(<<"/">>, t) /\ q = <<"/">> \o t
  <2>1. /\ q \in Text /\ Len(q) = 1 + Len(t)
        /\ \A i \in 1..(1 + Len(t)) : q[i] = IF i <= 1 THEN <<"/">>[i] ELSE t[i - 1]
    BY <1>3, SlashText, ConcatProperties DEF Text
  <2>2. 1 \in 1..(1 + Len(t))
    BY <1>2
  <2>3. q[1] = "/"
    BY <2>1, <2>2, SlashText
  <2>4. IsPrefix(<<"/">>, q)
    BY <1>2, <2>1, <2>3, SlashInFront
  <2>5. Rooted(q) = Rooted(t)
    BY <1>3, <2>4 DEF Rooted
  <2> QED
    BY <1>1, <2>1, <2>5
<1>4. CASE ~IsSuffix(<<"/">>, t) /\ q = t \o <<"/">>
  <2>1. /\ q \in Text /\ Len(q) = Len(t) + 1
        /\ \A i \in 1..(Len(t) + 1) :
              q[i] = IF i <= Len(t) THEN t[i] ELSE <<"/">>[i - Len(t)]
    BY <1>4, SlashText, ConcatProperties DEF Text
  <2>2. q[Len(t) + 1] = "/"
    <3>1. Len(t) + 1 \in 1..(Len(t) + 1) /\ ~(Len(t) + 1 <= Len(t)) /\ (Len(t) + 1) - Len(t) = 1
      BY <1>2
    <3> QED
      BY <2>1, <3>1, SlashText
  <2>3. CASE t = <<>>
    <3>1. q = <<"/">> /\ <<"/">> \o t = <<"/">>
      BY <1>4, <2>3, SlashText, ConcatEmptySeq DEF Text
    <3>2. Rooted(t) = <<"/">>
      <4>1. ~IsPrefix(<<"/">>, t)
        BY <2>3, SlashInFront
      <4> QED
        BY <3>1, <4>1 DEF Rooted
    <3>3. Rooted(q) = <<"/">>
      BY <3>1, SlashText, SlashInFront DEF Rooted
    <3> QED
      BY <1>1, <2>1, <3>2, <3>3
  <2>4. CASE t # <<>>
    <3>1. Len(t) >= 1
      BY <1>2, <2>4, EmptySeq DEF Text
    <3>2. t[Len(t)] # "/"
      BY <1>4, <3>1, SlashAtEnd
    <3>3. q[1] = t[1]
      BY <1>2, <2>1, <3>1
    <3>4. IsPrefix(<<"/">>, q) <=> IsPrefix(<<"/">>, t)
      BY <1>2, <2>1, <3>1, <3>3, SlashInFront
    <3> DEFINE r == Rooted(t)
    <3>5. r \in Text /\ Len(r) \in Nat \ {0}
      BY RootedType
    <3>6. Rooted(q) = r \o <<"/">>
      <4>1. (<<"/">> \o t) \o <<"/">> = <<"/">> \o (t \o <<"/">>)
        BY SlashText, ConcatAssociative DEF Text
      <4> QED
        BY <1>4, <3>4, <4>1 DEF Rooted
    <3>7. Last(r) # "/"
      <4>1. CASE IsPrefix(<<"/">>, t)
        BY <3>2, <4>1 DEF Rooted, Last
      <4>2. CASE ~IsPrefix(<<"/">>, t)
        <5>1. r = <<"/">> \o t
          BY <4>2 DEF Rooted
        <5>2. /\ Len(<<"/">> \o t) = 1 + Len(t)
              /\ \A i \in 1..(1 + Len(t)) :
                    (<<"/">> \o t)[i] = IF i <= 1 THEN <<"/">>[i] ELSE t[i - 1]
          BY SlashText, ConcatProperties DEF Text
        <5>3. 1 + Len(t) \in 1..(1 + Len(t)) /\ ~(1 + Len(t) <= 1) /\ (1 + Len(t)) - 1 = Len(t)
          BY <1>2, <3>1
        <5>4. (<<"/">> \o t)[1 + Len(t)] = t[Len(t)]
          BY <5>2, <5>3
        <5> QED
          BY <3>2, <5>1, <5>2, <5>4 DEF Last
      <4> QED
        BY <4>1, <4>2
    <3> HIDE DEF r
    <3> DEFINE e == r \o <<"/">>
    <3>8. /\ e \in Text /\ Len(e) = Len(r) + 1
          /\ \A i \in 1..(Len(r) + 1) :
                e[i] = IF i <= Len(r) THEN r[i] ELSE <<"/">>[i - Len(r)]
      BY <3>5, SlashText, ConcatProperties DEF Text
    <3> HIDE DEF e
    <3>9. Len(e) > 1 /\ Last(e) = "/"
      <4>1. Len(r) + 1 \in 1..(Len(r) + 1) /\ ~(Len(r) + 1 <= Len(r)) /\ (Len(r) + 1) - Len(r) = 1
        BY <3>5
      <4> QED
        BY <3>5, <3>8, <4>1, SlashText DEF Last
    <3>10. Front(e) = r
      <4>1. Len(e) - 1 = Len(r) /\ Len(r) \in 0..Len(e)
        BY <3>5, <3>8
      <4>2. /\ SubSeq(e, 1, Len(r)) \in Text /\ Len(SubSeq(e, 1, Len(r))) = Len(r)
            /\ \A i \in 1..Len(r) : SubSeq(e, 1, Len(r))[i] = e[i]
        BY <3>8, <4>1, Prefix
      <4>3. \A i \in 1..Len(r) : e[i] = r[i]
        BY <3>5, <3>8
      <4>4. SubSeq(e, 1, Len(r)) = r
        BY <3>5, <4>2, <4>3, SeqEqual DEF Text
      <4> QED
        BY <4>1, <4>4 DEF Front
    <3>11. NormalizePath(q) = r
      BY <1>1, <3>6, <3>9, <3>10 DEF e
    <3>12. NormalizePath(t) = r
      BY <1>1, <3>7 DEF r
    <3> QED
      BY <2>1, <3>11, <3>12
  <2> QED
    BY <2>3, <2>4
<1> QED
  BY <1>3, <1>4 DEF WithSlashes

-----------------------------------------------------------------------------
(* Routes: the theorems *)

\* What was answered is what the code computes for a question asked.
LEMMA AnswerInvHolds == Spec => []AnswerInv
<1>1. Init => AnswerInv
  BY Zenon DEF Init, AnswerInv
<1>2. AnswerInv /\ [Next]_vars => AnswerInv'
  <2> SUFFICES ASSUME AnswerInv, [Next]_vars
               PROVE  AnswerInv'
    OBVIOUS
  <2>1. CASE AskMatcher
    <3>1. query' = query /\ IsRouteQuery /\ answer' = Question
      BY <2>1, Zenon DEF AskMatcher, Question
    <3>2. Question' = Question
      BY <3>1, Zenon DEF Question, IsRouteQuery
    <3> QED
      BY <3>1, <3>2, Zenon DEF AnswerInv
  <2>2. CASE AskAllowlist
    <3>1. query' = query /\ ~IsRouteQuery /\ answer' = Question
      BY <2>2, Zenon DEF AskAllowlist, Question
    <3>2. Question' = Question
      BY <3>1, Zenon DEF Question, IsRouteQuery
    <3> QED
      BY <3>1, <3>2, Zenon DEF AnswerInv
  <2>3. CASE UNCHANGED vars
    <3>1. query' = query /\ answer' = answer
      BY <2>3, Zenon DEF vars
    <3>2. Question' = Question
      BY <3>1, Zenon DEF Question, IsRouteQuery
    <3> QED
      BY <3>1, <3>2, Zenon DEF AnswerInv
  <2> QED
    BY <2>1, <2>2, <2>3, Zenon DEF Next
<1> QED
  BY <1>1, <1>2, PTL DEF Spec

\* The answered question is about a route, and what was answered.
LEMMA AnsweredRoute ==
    ASSUME AnswerInv, RouteAnswered
    PROVE  /\ query.pattern \in Text /\ query.method \in Text
           /\ query.path \in Text /\ query.reqMethod \in Text
           /\ answer = MatchesWithMethod(query.pattern, query.method, query.path,
                                         query.reqMethod)
<1>1. query \in RouteQueries
  <2>1. query \in RouteQueries \/ query \in [entries: Seq(Text), host: Text]
    BY RoutingAssumption DEF AnswerInv
  <2>2. query \in [entries: Seq(Text), host: Text] => "pattern" \notin DOMAIN query
    OBVIOUS
  <2> QED
    BY <2>1, <2>2 DEF RouteAnswered, IsRouteQuery
<1>2. query \in [pattern: Text, method: Text, path: Text, reqMethod: Text]
  BY <1>1, RoutingAssumption
<1>3. answer = MatchesWithMethod(query.pattern, query.method, query.path, query.reqMethod)
  BY Zenon DEF AnswerInv, RouteAnswered, Question
<1> QED
  BY <1>2, <1>3

\* A rule matches exactly the requests that its route and method stand for,
\* for every route, path and method (Matches, MatchesWithMethod).
THEOREM RoutesStandForTheirPaths == Spec => []RouteStandsForItsPaths
<1>1. AnswerInv => RouteStandsForItsPaths
  <2> SUFFICES ASSUME AnswerInv, RouteAnswered
               PROVE  RouteStandsForItsPaths
    BY DEF RouteStandsForItsPaths
  <2> DEFINE route == NormalizePath(query.pattern)
             path  == NormalizePath(query.path)
             Filled(f) == FlattenSeq([i \in DOMAIN route |->
                                         IF i \in DOMAIN f THEN f[i] ELSE <<route[i]>>])
             M == query.method = <<>> \/ SameLetters(query.method, query.reqMethod)
             F == \E f \in [StarsOf(route) -> PiecesOf(path)] : Filled(f) = path
  <2>1. /\ query.pattern \in Text /\ query.method \in Text
        /\ query.path \in Text /\ query.reqMethod \in Text
        /\ answer = MatchesWithMethod(query.pattern, query.method, query.path,
                                      query.reqMethod)
    BY AnsweredRoute
  <2>2. route \in Text /\ path \in Text /\ path # <<>>
    BY <2>1, NormalizePathType
  <2>3. Matches(query.pattern, query.path) <=> SegmentsMatch(Segments(route), Segments(path))
    BY <2>1, MatchesIsSegmentsMatch
  <2>4. SegmentsMatch(Segments(route), Segments(path)) <=>
          \E f \in [StarsOf(route) -> PiecesOf(path)] : FlattenSeq(Filling(route, f)) = path
    <3> HIDE DEF route, path
    <3> QED
      BY <2>2, SegmentsMatchFilled
  <2>5. \A f : FlattenSeq(Filling(route, f)) = Filled(f)
    BY Zenon DEF Filling
  <2>6. F <=> Matches(query.pattern, query.path)
    <3> HIDE DEF route, path, Filled
    <3> QED
      BY <2>3, <2>4, <2>5
  <2>7. M <=> MatchesMethod(query.method, query.reqMethod)
    BY <2>1, MatchesMethodIsSameLetters
  <2>8. answer <=> M /\ F
    <3> HIDE DEF M, F
    <3> QED
      BY <2>1, <2>6, <2>7, Zenon DEF MatchesWithMethod
  <2> QED
    BY <2>8, Zenon DEF RouteStandsForItsPaths
<1> QED
  BY <1>1, AnswerInvHolds, PTL

\* Slashes at the ends make no difference, for every route and path
\* (normalizePath).
THEOREM SlashesDoNotMatter == Spec => []SlashesAtTheEndsDoNotMatter
<1>1. AnswerInv => SlashesAtTheEndsDoNotMatter
  <2> SUFFICES ASSUME AnswerInv, RouteAnswered
               PROVE  SlashesAtTheEndsDoNotMatter
    BY DEF SlashesAtTheEndsDoNotMatter
  <2>1. /\ query.pattern \in Text /\ query.path \in Text
        /\ answer = MatchesWithMethod(query.pattern, query.method, query.path,
                                      query.reqMethod)
    BY AnsweredRoute
  <2>2. ASSUME NEW q \in WithSlashes(query.path)
        PROVE  MatchesWithMethod(query.pattern, query.method, q, query.reqMethod) = answer
    <3>1. NormalizePath(q) = NormalizePath(query.path)
      BY <2>1, NormalizePathIgnoresSlashes
    <3> QED
      BY <2>1, <3>1, Zenon DEF MatchesWithMethod, Matches
  <2>3. ASSUME NEW p \in WithSlashes(query.pattern)
        PROVE  MatchesWithMethod(p, query.method, query.path, query.reqMethod) = answer
    <3>1. NormalizePath(p) = NormalizePath(query.pattern)
      BY <2>1, NormalizePathIgnoresSlashes
    <3> QED
      BY <2>1, <3>1, Zenon DEF MatchesWithMethod, Matches
  <2> QED
    BY <2>2, <2>3, Zenon DEF SlashesAtTheEndsDoNotMatter
<1> QED
  BY <1>1, AnswerInvHolds, PTL

-----------------------------------------------------------------------------
(* Hosts *)

\* A cleaned name is a text.
LEMMA CleanNameType ==
    ASSUME NEW text \in Text
    PROVE  CleanName(text) \in Text
<1> DEFINE I == {i \in 1..Len(text) : text[i] # " "}
           t == TrimSpace(text)
<1>1. t = IF I = {} THEN <<>> ELSE SubSeq(text, Min(I), Max(I))
  <2>1. I \in SUBSET Nat /\ 0 \notin I
    <3>1. I \subseteq 1..Len(text)
      BY Zenon
    <3>2. 1..Len(text) \subseteq Nat /\ 0 \notin 1..Len(text)
      OBVIOUS
    <3> HIDE DEF I
    <3> QED
      BY <3>1, <3>2
  <2>2. I # {} => Min(I) \in I
    <3> HIDE DEF I
    <3> QED
      BY <2>1, MinOfNat
  <2> QED
    BY <2>1, <2>2 DEF TrimSpace, SelectInSeq, SelectLastInSeq
<1>2. t \in Text
  <2>1. CASE I = {}
    <3>1. t = <<>>
      BY <1>1, <2>1
    <3> QED
      BY <3>1, EmptySeq DEF Text
  <2>2. CASE I # {}
    <3>0. Len(text) \in Nat /\ I \in SUBSET Nat /\ I \in SUBSET (1..Len(text))
      <4>1. Len(text) \in Nat
        BY LenProperties DEF Text
      <4>2. I \subseteq 1..Len(text)
        BY Zenon
      <4>3. 1..Len(text) \subseteq Nat
        OBVIOUS
      <4> HIDE DEF I
      <4> QED
        BY <4>1, <4>2, <4>3
    <3>1. Min(I) \in I /\ Max(I) \in I
      <4> HIDE DEF I
      <4> QED
        BY <2>2, <3>0, MinOfNat, MaxOfBounded
    <3>2. Min(I) \in 1..Len(text) /\ Max(I) \in 1..Len(text)
      BY <3>1
    <3> HIDE DEF I
    <3>3. \A i \in Min(I)..Max(I) : text[i] \in Character
      <4> TAKE i \in Min(I)..Max(I)
      <4>1. i \in 1..Len(text)
        BY <3>0, <3>2
      <4> QED
        BY <4>1, ElementOfSeq DEF Text
    <3>4. Min(I) \in Int /\ Max(I) \in Int
      BY <3>2
    <3>5. SubSeq(text, Min(I), Max(I)) \in Seq(Character)
      BY <3>3, <3>4, SubSeqProperties
    <3> QED
      BY <1>1, <2>2, <3>5 DEF Text
  <2> QED
    BY <2>1, <2>2
<1> HIDE DEF t
<1>3. Len(t) \in Nat /\ DOMAIN t = 1..Len(t) /\ \A i \in 1..Len(t) : t[i] \in Character
  BY <1>2, LenProperties, ElementOfSeq DEF Text
<1>4. \A i \in 1..Len(t) : LowerOf[t[i]] \in Character
  BY <1>3, RoutingAssumption
<1>5. [i \in 1..Len(t) |-> LowerOf[t[i]]] \in Seq(Character)
  BY <1>3, <1>4
<1>6. CleanName(text) = [i \in 1..Len(t) |-> LowerOf[t[i]]]
  BY <1>3, Zenon DEF CleanName, t
<1> QED
  BY <1>5, <1>6 DEF Text

\* A wildcard is "*." and its suffix, and every text after "*." is the suffix
\* of one.
LEMMA WildcardAndSuffix ==
    ASSUME NEW name \in Text
    PROVE  /\ IsWildcard(name) =>
                /\ Suffix(name) \in Text
                /\ Suffix(name) = <<>> <=> Bare(name)
           /\ Bare(name) => IsWildcard(name)
           /\ IsWildcard(<<"*", ".">> \o name)
           /\ Suffix(<<"*", ".">> \o name) = name
<1> DEFINE w == <<"*", ".">>
<1>0. "*" \in Character /\ "." \in Character
  BY RoutingAssumption
<1>1. /\ w \in Seq(Character) /\ Len(w) = 2 /\ w[1] = "*" /\ w[2] = "."
      /\ SubSeq(w, 1, 2) = w
  <2>1. w \in Seq(Character) /\ Len(w) = 2 /\ w[1] = "*" /\ w[2] = "."
    BY <1>0
  <2> QED
    BY <2>1, SubSeqFull
<1>2. name \in Seq(Character) /\ Len(name) \in Nat
  BY LenProperties DEF Text
<1> HIDE DEF w
<1>3. IsWildcard(name) <=> 2 <= Len(name) /\ w = SubSeq(name, 1, 2)
  BY <1>1, Zenon DEF IsWildcard, IsPrefix, w
<1>4. ASSUME IsWildcard(name)
      PROVE  /\ Suffix(name) \in Text
             /\ Suffix(name) = <<>> <=> Bare(name)
  <2>1. 2 <= Len(name) /\ w = SubSeq(name, 1, 2)
    BY <1>3, <1>4
  <2>2. \A i \in 3..Len(name) : name[i] \in Character
    BY <1>2, ElementOfSeq
  <2>3. /\ Suffix(name) \in Seq(Character)
        /\ Len(Suffix(name)) = IF 3 <= Len(name) THEN Len(name) - 2 ELSE 0
    BY <1>2, <2>2, SubSeqProperties DEF Suffix
  <2>4. CASE Len(name) = 2
    <3>1. Suffix(name) = <<>>
      BY <1>2, <2>4, SubSeqEmpty DEF Suffix
    <3>2. SubSeq(name, 1, 2) = name
      BY <1>2, <2>4, SubSeqFull
    <3>3. Bare(name)
      BY <2>1, <3>2, Zenon DEF Bare, w
    <3> QED
      BY <2>3, <3>1, <3>3 DEF Text
  <2>5. CASE Len(name) # 2
    <3>0. 3 <= Len(name)
      BY <1>2, <2>1, <2>5
    <3>1. Suffix(name) # <<>>
      BY <1>2, <2>3, <3>0, EmptySeq
    <3>2. ~Bare(name)
      BY <1>1, <2>5 DEF Bare, w
    <3> QED
      BY <2>3, <3>1, <3>2 DEF Text
  <2> QED
    BY <2>4, <2>5
<1>5. Bare(name) => IsWildcard(name)
  BY <1>1, <1>3 DEF Bare, w
<1>6. IsWildcard(w \o name) /\ Suffix(w \o name) = name
  <2> DEFINE a == w \o name
  <2>1. /\ a \in Seq(Character) /\ Len(a) = Len(name) + 2
        /\ \A i \in 1..(Len(name) + 2) : a[i] = IF i <= 2 THEN w[i] ELSE name[i - 2]
    <3>1. /\ a \in Seq(Character) /\ Len(a) = Len(w) + Len(name)
          /\ \A i \in 1..(Len(w) + Len(name)) :
                a[i] = IF i <= Len(w) THEN w[i] ELSE name[i - Len(w)]
      <4>1. w \in Seq(Character) /\ name \in Seq(Character)
        BY <1>1, <1>2
      <4> QED
        BY <4>1, ConcatProperties, Zenon
    <3>2. Len(w) = 2 /\ 2 + Len(name) = Len(name) + 2
      BY <1>1, <1>2
    <3> HIDE DEF a
    <3> QED
      BY <3>1, <3>2
  <2> HIDE DEF a
  <2>2. SubSeq(a, 1, 2) = w
    <3>1. \A i \in 1..2 : a[i] \in Character /\ a[i] = w[i]
      <4> TAKE i \in 1..2
      <4>1. i \in 1..(Len(name) + 2) /\ i \in 1..Len(w) /\ i <= 2
        BY <1>1, <1>2
      <4>2. a[i] = w[i]
        BY <2>1, <4>1
      <4> QED
        BY <1>1, <4>1, <4>2, ElementOfSeq
    <3>2. /\ SubSeq(a, 1, 2) \in Seq(Character)
          /\ Len(SubSeq(a, 1, 2)) = 2
          /\ \A i \in 1..2 : SubSeq(a, 1, 2)[i] = a[i]
      <4>1. \A i \in 1..2 : a[i] \in Character
        BY <3>1
      <4>2. /\ SubSeq(a, 1, 2) \in Seq(Character)
            /\ Len(SubSeq(a, 1, 2)) = IF 1 <= 2 THEN 2 - 1 + 1 ELSE 0
            /\ \A i \in 1..(2 - 1 + 1) : SubSeq(a, 1, 2)[i] = a[1 + i - 1]
        BY <4>1, SubSeqProperties
      <4>3. \A i \in 1..2 : i \in 1..(2 - 1 + 1) /\ 1 + i - 1 = i
        OBVIOUS
      <4> QED
        BY <4>2, <4>3
    <3> QED
      BY <1>1, <3>1, <3>2, SeqEqual
  <2>3. SubSeq(a, 3, Len(a)) = name
    <3>1. \A i \in 3..Len(a) : a[i] \in Character
      BY <1>2, <2>1, ElementOfSeq
    <3>2. /\ SubSeq(a, 3, Len(a)) \in Seq(Character)
          /\ Len(SubSeq(a, 3, Len(a))) = IF 3 <= Len(a) THEN Len(a) - 3 + 1 ELSE 0
          /\ \A i \in 1..(Len(a) - 3 + 1) : SubSeq(a, 3, Len(a))[i] = a[3 + i - 1]
      BY <1>2, <2>1, <3>1, SubSeqProperties
    <3>3. Len(SubSeq(a, 3, Len(a))) = Len(name)
      BY <1>2, <2>1, <3>2
    <3>4. \A i \in 1..Len(name) : SubSeq(a, 3, Len(a))[i] = name[i]
      <4> TAKE i \in 1..Len(name)
      <4>1. /\ i \in 1..(Len(a) - 3 + 1) /\ i + 2 \in 1..(Len(name) + 2)
            /\ 3 + i - 1 = i + 2 /\ ~(i + 2 <= 2) /\ (i + 2) - 2 = i
        BY <1>2, <2>1
      <4>2. a[i + 2] = name[(i + 2) - 2]
        BY <2>1, <4>1
      <4> QED
        BY <3>2, <4>1, <4>2
    <3> QED
      BY <1>2, <3>2, <3>3, <3>4, SeqEqual
  <2>4. IsWildcard(a)
    <3>1. Len(w) <= Len(a) /\ SubSeq(w, 1, Len(w)) = SubSeq(a, 1, Len(w))
      BY <1>1, <1>2, <2>1, <2>2
    <3> QED
      BY <3>1, Zenon DEF IsWildcard, IsPrefix, w
  <2> QED
    BY <2>3, <2>4 DEF a, Suffix
<1> QED
  BY <1>4, <1>5, <1>6 DEF w

\* A text ends with every rest of it.
LEMMA RestIsSuffix ==
    ASSUME NEW text \in Text, NEW m \in 1..(Len(text) + 1)
    PROVE  IsSuffix(SubSeq(text, m, Len(text)), text)
<1> DEFINE n == Len(text)
           s == SubSeq(text, m, n)
<1>0. text \in Seq(Character) /\ n \in Nat /\ m \in Nat
  BY LenProperties DEF Text
<1>1. \A i \in m..n : text[i] \in Character
  BY <1>0, ElementOfSeq
<1> HIDE DEF n
<1>2. /\ s \in Seq(Character)
      /\ Len(s) = IF m <= n THEN n - m + 1 ELSE 0
      /\ \A i \in 1..(n - m + 1) : s[i] = text[m + i - 1]
  BY <1>0, <1>1, SubSeqProperties
<1>3. m \in 1..(n + 1)
  BY DEF n
<1>4. Len(s) = n - m + 1 /\ Len(s) \in Nat /\ Len(s) <= n
  BY <1>0, <1>2, <1>3
<1> HIDE DEF s
<1>5. ASSUME NEW t \in Seq(Character)
      PROVE  /\ Reverse(t) \in Seq(Character) /\ Len(Reverse(t)) = Len(t)
             /\ \A i \in 1..Len(t) : Reverse(t)[i] = t[(Len(t) - i) + 1]
  <2>1. Len(t) \in Nat
    BY LenProperties
  <2>2. \A i \in 1..Len(t) : t[(Len(t) - i) + 1] \in Character
    BY <2>1, ElementOfSeq
  <2>3. Reverse(t) = [i \in 1..Len(t) |-> t[(Len(t) - i) + 1]]
    BY DEF Reverse
  <2> QED
    BY <2>1, <2>2, <2>3
<1> DEFINE rs == Reverse(s)
           rt == Reverse(text)
<1>6. /\ rs \in Seq(Character) /\ Len(rs) = Len(s)
      /\ \A i \in 1..Len(s) : rs[i] = s[(Len(s) - i) + 1]
  BY <1>2, <1>5
<1>7. /\ rt \in Seq(Character) /\ Len(rt) = n
      /\ \A i \in 1..n : rt[i] = text[(n - i) + 1]
  BY <1>0, <1>5 DEF n
<1> HIDE DEF rs, rt
<1>8. SubSeq(rs, 1, Len(rs)) = rs
  BY <1>6, SubSeqFull
<1>9. SubSeq(rt, 1, Len(rs)) = rs
  <2>1. \A i \in 1..Len(s) : rt[i] \in Character
    BY <1>0, <1>4, <1>7, ElementOfSeq
  <2>2. /\ SubSeq(rt, 1, Len(s)) \in Seq(Character)
        /\ Len(SubSeq(rt, 1, Len(s))) = IF 1 <= Len(s) THEN Len(s) - 1 + 1 ELSE 0
        /\ \A i \in 1..(Len(s) - 1 + 1) : SubSeq(rt, 1, Len(s))[i] = rt[1 + i - 1]
    BY <1>4, <2>1, SubSeqProperties
  <2>3. Len(SubSeq(rt, 1, Len(s))) = Len(s)
    BY <1>4, <2>2
  <2>4. \A i \in 1..Len(s) : SubSeq(rt, 1, Len(s))[i] = rs[i]
    <3> TAKE i \in 1..Len(s)
    <3>1. /\ i \in 1..(Len(s) - 1 + 1) /\ 1 + i - 1 = i /\ i \in 1..n
          /\ (Len(s) - i) + 1 \in 1..(n - m + 1)
          /\ m + ((Len(s) - i) + 1) - 1 = (n - i) + 1
      BY <1>0, <1>4
    <3>2. SubSeq(rt, 1, Len(s))[i] = text[(n - i) + 1]
      BY <1>7, <2>2, <3>1
    <3>3. s[(Len(s) - i) + 1] = text[(n - i) + 1]
      BY <1>2, <3>1
    <3> QED
      BY <1>6, <3>2, <3>3
  <2> QED
    BY <1>6, <2>2, <2>3, <2>4, SeqEqual
<1> QED
  BY <1>4, <1>6, <1>7, <1>8, <1>9 DEF IsSuffix, IsPrefix, rs, rt, s, n

\* What an entry says of a host, from their clean names.
LEMMA VerdictOfNames ==
    ASSUME NEW entry \in Text, NEW host \in Text
    PROVE  LET name == CleanName(entry) IN
           /\ Bare(name) => Verdict(entry, host) = "panic"
           /\ ~Bare(name) =>
                /\ Verdict(entry, host) \in {"accept", "pass"}
                /\ Verdict(entry, host) = "accept" <=>
                     IF IsWildcard(name) THEN SuffixAccepts(Suffix(name), CleanName(host))
                                         ELSE CleanName(host) = name
<1> DEFINE name == CleanName(entry)
           h == CleanName(host)
           accepts == IF IsWildcard(name) THEN SuffixAccepts(Suffix(name), h) ELSE h = name
<1>1. name \in Text
  BY CleanNameType
<1> HIDE DEF name
<1>2. IsWildcard(name) /\ Suffix(name) = <<>> <=> Bare(name)
  BY <1>1, WildcardAndSuffix
<1>3. Verdict(entry, host) = IF IsWildcard(name) /\ Suffix(name) = <<>> THEN "panic"
                             ELSE IF accepts THEN "accept" ELSE "pass"
  BY Zenon DEF Verdict, name
<1> HIDE DEF accepts
<1>4. /\ Bare(name) => Verdict(entry, host) = "panic"
      /\ ~Bare(name) =>
           /\ Verdict(entry, host) \in {"accept", "pass"}
           /\ Verdict(entry, host) = "accept" <=> accepts
  BY <1>2, <1>3
<1> QED
  BY <1>4, Zenon DEF name, accepts

\* An entry that names a host accepts it.
LEMMA NamedIsAccepted ==
    ASSUME NEW name \in Text, NEW host \in Text, NamesHost(name, host), ~Bare(name)
    PROVE  IF IsWildcard(name) THEN SuffixAccepts(Suffix(name), host) ELSE host = name
<1>0. Len(host) \in Nat /\ Len(name) \in Nat /\ DOMAIN host = 1..Len(host)
  BY LenProperties DEF Text
<1>1. CASE name = host
  <2>1. CASE IsWildcard(name)
    <3>1. 2 <= Len(name)
      <4>1. Len(<<"*", ".">>) = 2
        OBVIOUS
      <4> QED
        BY <2>1, <4>1 DEF IsWildcard, IsPrefix
    <3>2. 3 \in 1..(Len(host) + 1)
      BY <1>0, <1>1, <3>1
    <3> QED
      BY <1>1, <2>1, <3>2, RestIsSuffix DEF SuffixAccepts, Suffix
  <2> QED
    BY <1>1, <2>1
<1>2. CASE name = <<"*", ".">> \o host
  <2>1. IsWildcard(name) /\ Suffix(name) = host
    BY <1>2, WildcardAndSuffix
  <2>2. SubSeq(host, 1, Len(host)) = host /\ 1 \in 1..(Len(host) + 1)
    BY <1>0, SubSeqFull DEF Text
  <2>3. IsSuffix(host, host)
    BY <2>2, RestIsSuffix
  <2> QED
    BY <2>1, <2>3 DEF SuffixAccepts
<1>3. ASSUME NEW i \in DOMAIN host, name = <<"*", ".">> \o SubSeq(host, i + 1, Len(host))
      PROVE  IsWildcard(name) /\ SuffixAccepts(Suffix(name), host)
  <2> DEFINE r == SubSeq(host, i + 1, Len(host))
  <2>1. i \in Nat /\ i + 1 \in 1..(Len(host) + 1)
    BY <1>0
  <2>2. \A k \in (i + 1)..Len(host) : host[k] \in Character
    BY <1>0, <2>1, ElementOfSeq DEF Text
  <2>3. r \in Text
    BY <1>0, <2>1, <2>2, SubSeqProperties DEF Text
  <2>4. IsSuffix(r, host)
    BY <2>1, RestIsSuffix
  <2> HIDE DEF r
  <2>5. name = <<"*", ".">> \o r
    BY <1>3 DEF r
  <2>6. IsWildcard(name) /\ Suffix(name) = r
    BY <2>3, <2>5, WildcardAndSuffix
  <2> QED
    BY <2>4, <2>6 DEF SuffixAccepts
<1> QED
  BY <1>1, <1>2, <1>3 DEF NamesHost

\* The search ends at the first entry that does not pass the host on.
LEMMA FindHostIsFirst ==
    ASSUME NEW entries \in Seq(Text), NEW host
    PROVE  /\ FindHost(entries, host) = 0 =>
                \A k \in 1..Len(entries) : Verdict(entries[k], host) = "pass"
           /\ FindHost(entries, host) # 0 =>
                /\ FindHost(entries, host) \in 1..Len(entries)
                /\ Verdict(entries[FindHost(entries, host)], host) # "pass"
                /\ \A k \in 1..Len(entries) :
                      k < FindHost(entries, host) => Verdict(entries[k], host) = "pass"
<1> DEFINE S == {k \in 1..Len(entries) : Verdict(entries[k], host) # "pass"}
<1>0. Len(entries) \in Nat
  BY LenProperties
<1>1. S \in SUBSET Nat
  OBVIOUS
<1>2. FindHost(entries, host) = IF S # {} THEN Min(S) ELSE 0
  BY Zenon DEF FindHost, SelectInSeq
<1>3. S # {} => Min(S) \in S /\ \A y \in S : Min(S) <= y
  <2> HIDE DEF S
  <2> QED
    BY <1>1, MinOfNat
<1>4. 0 \notin S
  OBVIOUS
<1>5. CASE S = {}
  BY <1>2, <1>5
<1>6. CASE S # {}
  <2> DEFINE f == Min(S)
  <2>1. f \in 1..Len(entries) /\ Verdict(entries[f], host) # "pass"
    BY <1>3, <1>6
  <2>2. FindHost(entries, host) = f
    BY <1>2, <1>6
  <2>3. ASSUME NEW k \in 1..Len(entries), k < f
        PROVE  Verdict(entries[k], host) = "pass"
    <3>1. k \notin S
      <4> HIDE DEF S
      <4>1. k \in S => f <= k
        BY <1>3, <1>6
      <4>2. f \in Nat /\ k \in Nat
        BY <2>1
      <4> HIDE DEF f
      <4> QED
        BY <4>1, <4>2, <2>3
    <3> QED
      BY <3>1
  <2> HIDE DEF f
  <2> QED
    BY <2>1, <2>2, <2>3
<1> QED
  BY <1>5, <1>6

\* The answered question is about a host, and what was answered.
LEMMA AnsweredHost ==
    ASSUME AnswerInv, HostAnswered
    PROVE  /\ query.entries \in Seq(Text) /\ query.host \in Text
           /\ answer = FindHost(query.entries, query.host)
<1>1. query \in HostQueries
  <2>1. query \in HostQueries
          \/ query \in [pattern: Text, method: Text, path: Text, reqMethod: Text]
    BY RoutingAssumption DEF AnswerInv
  <2>2. query \in [pattern: Text, method: Text, path: Text, reqMethod: Text]
          => "pattern" \in DOMAIN query
    OBVIOUS
  <2> QED
    BY <2>1, <2>2 DEF HostAnswered, IsRouteQuery
<1>2. query \in [entries: Seq(Text), host: Text]
  BY <1>1, RoutingAssumption
<1>3. answer = FindHost(query.entries, query.host)
  BY Zenon DEF AnswerInv, HostAnswered, Question
<1> QED
  BY <1>2, <1>3

\* A host that an entry of the allowlist names is accepted, for every list and
\* every host, unless a bare "*." stands before the entry (IsHostAllowed).
THEOREM NamedHostsAreServed == Spec => []NamedHostsAreAccepted
<1>1. AnswerInv => NamedHostsAreAccepted
  <2> SUFFICES ASSUME AnswerInv, HostAnswered,
                      NEW i \in DOMAIN Names,
                      NamesHost(Names[i], Host),
                      \A j \in 1..i : ~Bare(Names[j])
               PROVE  /\ answer \in 1..i
                      /\ Verdict(query.entries[answer], query.host) = "accept"
    BY DEF NamedHostsAreAccepted
  <2> DEFINE entries == query.entries
             host == query.host
  <2>1. entries \in Seq(Text) /\ host \in Text /\ answer = FindHost(entries, host)
    BY AnsweredHost
  <2>2. Host = CleanName(host) /\ Host \in Text
    BY <2>1, CleanNameType DEF Host
  <2>3. DOMAIN entries = 1..Len(entries) /\ Len(entries) \in Nat
    BY <2>1, LenProperties
  <2>4. DOMAIN Names = 1..Len(entries)
    BY <2>3 DEF Names
  <2> HIDE DEF entries, host
  <2>5. ASSUME NEW k \in 1..i
        PROVE  /\ k \in 1..Len(entries) /\ entries[k] \in Text
               /\ Names[k] = CleanName(entries[k]) /\ Names[k] \in Text
               /\ ~Bare(CleanName(entries[k]))
    <3>1. k \in 1..Len(entries)
      BY <2>3, <2>4
    <3>2. entries[k] \in Text
      BY <2>1, <3>1, ElementOfSeq
    <3>3. Names[k] = CleanName(entries[k])
      BY <2>3, <3>1 DEF Names, entries
    <3> QED
      BY <3>1, <3>2, <3>3, CleanNameType
  <2>6. i \in 1..i /\ i \in Nat
    BY <2>3, <2>4
  <2>7. Verdict(entries[i], host) = "accept"
    <3>1. IF IsWildcard(Names[i]) THEN SuffixAccepts(Suffix(Names[i]), Host)
                                  ELSE Host = Names[i]
      BY <2>2, <2>5, <2>6, NamedIsAccepted
    <3>2. /\ entries[i] \in Text /\ Names[i] = CleanName(entries[i])
          /\ ~Bare(CleanName(entries[i]))
      BY <2>5, <2>6
    <3>3. IF IsWildcard(CleanName(entries[i]))
            THEN SuffixAccepts(Suffix(CleanName(entries[i])), CleanName(host))
            ELSE CleanName(host) = CleanName(entries[i])
      BY <2>2, <3>1, <3>2, Zenon
    <3> QED
      BY <2>1, <3>2, <3>3, VerdictOfNames
  <2>8. answer \in 1..i
    <3>1. i \in 1..Len(entries)
      BY <2>5, <2>6
    <3>2. answer # 0
      BY <2>1, <2>7, <3>1, FindHostIsFirst
    <3>3. answer \in 1..Len(entries) /\ (i < answer => Verdict(entries[i], host) = "pass")
      BY <2>1, <3>1, <3>2, FindHostIsFirst
    <3> QED
      BY <2>3, <2>6, <2>7, <3>3
  <2>9. Verdict(entries[answer], host) = "accept"
    <3>1. entries[answer] \in Text /\ ~Bare(CleanName(entries[answer]))
      BY <2>5, <2>8
    <3>2. answer # 0
      BY <2>6, <2>8
    <3>3. Verdict(entries[answer], host) # "pass"
      BY <2>1, <3>2, FindHostIsFirst
    <3> QED
      BY <2>1, <3>1, <3>3, VerdictOfNames
  <2> QED
    BY <2>8, <2>9 DEF entries, host
<1> QED
  BY <1>1, AnswerInvHolds, PTL

-----------------------------------------------------------------------------
(* The allowlist of Policy, where a host has a spelling and a name and a     *)
(* wildcard has the set of names that it accepts, is this one.  The allowlist *)
(* depends on none of Policy's other constants but the schemes, which may be  *)
(* any texts.                                                                 *)

\* The names that a wildcard accepts.
AcceptedBy(entry) == {n \in Text : SuffixAccepts(Suffix(CleanName(entry)), n)}

WildcardTexts == {h \in Text : IsWildcard(CleanName(h))}

Abstract == INSTANCE Policy WITH
    Token <- {}, NoToken <- 0, Cred <- {}, NoCred <- 0, NoHost <- 0,
    Endpoint <- {}, Passthrough <- FALSE, Scheme <- Text,
    HostText <- Text, HostName <- Text,
    Canonical <- [h \in Text |-> CleanName(h)],
    WildcardHost <- WildcardTexts,
    Suffixed <- [h \in WildcardTexts |-> AcceptedBy(h)]

HostsOf(entries) == [i \in DOMAIN entries |-> entries[i].host]

\* For every list without a bare "*." and every host, the entry that decides is
\* the one that Policy's FindHost finds: the proxy's modules, which know only
\* names and the sets that wildcards accept, leave nothing else out of FindHost.
THEOREM AllowlistIsAbstracted ==
    ASSUME NEW entries \in Seq(Abstract!HostEntry), NEW host \in Text,
           \A i \in 1..Len(entries) : ~Bare(CleanName(entries[i].host))
    PROVE  Abstract!FindHost(entries, host) = FindHost(HostsOf(entries), host)
<1> DEFINE texts == HostsOf(entries)
           S == {i \in 1..Len(entries) : Abstract!EntryAccepts(entries[i], host)}
           T == {i \in 1..Len(texts) : Verdict(texts[i], host) # "pass"}
<1>1. Len(entries) \in Nat /\ DOMAIN entries = 1..Len(entries)
  BY LenProperties
<1>2. \A i \in 1..Len(entries) : entries[i].host \in Text
  <2> TAKE i \in 1..Len(entries)
  <2>1. entries[i] \in Abstract!HostEntry
    BY ElementOfSeq
  <2> QED
    BY <2>1 DEF Abstract!HostEntry
<1>3. /\ Len(texts) = Len(entries)
      /\ \A i \in 1..Len(entries) : texts[i] = entries[i].host
  BY <1>1 DEF HostsOf
<1> HIDE DEF texts
<1>4. ASSUME NEW i \in 1..Len(entries)
      PROVE  Abstract!EntryAccepts(entries[i], host) <=> Verdict(texts[i], host) # "pass"
  <2> DEFINE entry == entries[i].host
             name == CleanName(entry)
  <2>1. entry \in Text /\ texts[i] = entry /\ ~Bare(name)
    BY <1>2, <1>3
  <2> HIDE DEF entry
  <2>2. CleanName(host) \in Text /\ name \in Text
    BY <2>1, CleanNameType
  <2>3. Verdict(entry, host) # "pass" <=>
          IF IsWildcard(name) THEN SuffixAccepts(Suffix(name), CleanName(host))
                              ELSE CleanName(host) = name
    BY <2>1, VerdictOfNames
  <2>4. entry \in WildcardTexts <=> IsWildcard(name)
    BY <2>1 DEF WildcardTexts
  <2>5. CleanName(host) \in AcceptedBy(entry) <=> SuffixAccepts(Suffix(name), CleanName(host))
    BY <2>2 DEF AcceptedBy
  <2>6. Abstract!EntryAccepts(entries[i], host) <=>
          \/ entry \in WildcardTexts /\ CleanName(host) \in AcceptedBy(entry)
          \/ entry \notin WildcardTexts /\ CleanName(host) = name
    <3> HIDE DEF name
    <3>1. /\ [h \in Text |-> CleanName(h)][host] = CleanName(host)
          /\ [h \in Text |-> CleanName(h)][entry] = name
      BY <2>1 DEF name
    <3>2. entry \in WildcardTexts =>
            [h \in WildcardTexts |-> AcceptedBy(h)][entry] = AcceptedBy(entry)
      OBVIOUS
    <3> QED
      BY <3>1, <3>2 DEF Abstract!EntryAccepts, entry
  <2> QED
    BY <2>1, <2>3, <2>4, <2>5, <2>6
<1>5. S = T
  BY <1>3, <1>4
<1>6. Abstract!FindHost(entries, host) = IF S # {} THEN Min(S) ELSE 0
  BY Zenon DEF Abstract!FindHost, Abstract!SelectInSeq, SelectInSeq, Abstract!Min, Min
<1>7. FindHost(texts, host) = IF T # {} THEN Min(T) ELSE 0
  BY Zenon DEF FindHost, SelectInSeq
<1>8. Abstract!FindHost(entries, host) = FindHost(texts, host)
  <2> HIDE DEF S, T
  <2> QED
    BY <1>5, <1>6, <1>7
<1> QED
  BY <1>8 DEF texts

=============================================================================
