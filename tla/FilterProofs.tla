---------------------------- MODULE FilterProofs ----------------------------
(***************************************************************************)
(* Proofs about Filter, for documents and fields of any size.              *)
(***************************************************************************)
EXTENDS Filter, SequenceLemmas

-----------------------------------------------------------------------------
(* Documents *)

\* Documents without anything in them, and those that are made of others.
Shallow == {Null} \union [kind : {"value"}, is : Atom]
MadeOf(D) == D \union [kind : {"array"}, items : Seq(D)]
               \union [kind : {"object"}, at : [Key -> D \union {Absent}]]

Layers(f, m) == \A n \in 0..m : f[n] = IF n = 0 THEN Shallow ELSE MadeOf(f[n - 1])

\* The documents by their depth.
LEMMA DocumentsUnfold ==
    /\ Documents[0] = Shallow
    /\ \A n \in 1..MaxDepth : Documents[n] = MadeOf(Documents[n - 1])
<1> DEFINE N == MaxDepth
           S == {m \in 0..N : \E f : Layers(f, m)}
<1>1. N \in Nat
  BY FilterAssumption
<1>2. 0 \in S
  <2> DEFINE f == [n \in 0..0 |-> Shallow]
  <2>1. Layers(f, 0)
    BY DEF Layers
  <2> HIDE DEF f
  <2>2. \E h : Layers(h, 0)
    BY <2>1
  <2> QED
    BY <1>1, <2>2
<1>3. ASSUME NEW m \in 0..(N - 1), m \in S
      PROVE  m + 1 \in S
  <2>1. PICK f : Layers(f, m)
    BY <1>3
  <2> DEFINE g == [n \in 0..(m + 1) |-> IF n <= m THEN f[n] ELSE MadeOf(f[m])]
  <2>2. ASSUME NEW n \in 0..(m + 1)
        PROVE  g[n] = IF n = 0 THEN Shallow ELSE MadeOf(g[n - 1])
    <3>1. CASE n = 0
      <4>1. 0 \in 0..m /\ 0 \in 0..(m + 1) /\ 0 <= m
        BY <1>1
      <4>2. g[0] = f[0] /\ f[0] = Shallow
        BY <2>1, <4>1 DEF Layers
      <4> HIDE DEF g
      <4> QED
        BY <3>1, <4>2
    <3>2. CASE n \in 1..m
      <4>1. n \in 0..m /\ n - 1 \in 0..(m + 1) /\ n - 1 <= m /\ n <= m /\ n # 0
        BY <3>2
      <4>2. g[n] = f[n] /\ g[n - 1] = f[n - 1]
        BY <4>1
      <4>3. f[n] = MadeOf(f[n - 1])
        BY <2>1, <4>1 DEF Layers
      <4> HIDE DEF g
      <4> QED
        BY <4>1, <4>2, <4>3
    <3>3. CASE n = m + 1
      <4>1. m \in 0..(m + 1) /\ m <= m /\ ~(m + 1 <= m) /\ (m + 1) - 1 = m /\ m + 1 # 0
            /\ m + 1 \in 0..(m + 1)
        OBVIOUS
      <4>2. g[m + 1] = MadeOf(f[m]) /\ g[m] = f[m]
        BY <4>1
      <4> HIDE DEF g
      <4> QED
        BY <3>3, <4>1, <4>2
    <3> QED
      BY <3>1, <3>2, <3>3
  <2> HIDE DEF g
  <2>3. Layers(g, m + 1)
    BY <2>2 DEF Layers
  <2>4. \E h : Layers(h, m + 1)
    BY <2>3
  <2>5. m + 1 \in 0..N
    BY <1>1
  <2> QED
    BY <2>4, <2>5
<1>4. N \in S
  <2> HIDE DEF S
  <2>1. \A i \in 0..N : i \in S
    BY <1>1, <1>2, <1>3, InductionUpTo
  <2> QED
    BY <1>1, <2>1
<1>5. PICK f : Layers(f, N)
  BY <1>4
<1> DEFINE Equation(h) == h = [n \in 0..N |-> IF n = 0 THEN Shallow ELSE MadeOf(h[n - 1])]
           g == [n \in 0..N |-> f[n]]
<1>6. Equation(g)
  <2>1. ASSUME NEW n \in 0..N
        PROVE  g[n] = IF n = 0 THEN Shallow ELSE MadeOf(g[n - 1])
    <3>1. CASE n = 0
      BY <1>5, <3>1 DEF Layers
    <3>2. CASE n # 0
      <4>1. n - 1 \in 0..N
        BY <1>1, <3>2
      <4>2. g[n] = f[n] /\ g[n - 1] = f[n - 1]
        BY <4>1
      <4>3. f[n] = MadeOf(f[n - 1])
        BY <1>5, <3>2 DEF Layers
      <4> HIDE DEF g
      <4> QED
        BY <3>2, <4>2, <4>3
    <3> QED
      BY <3>1, <3>2
  <2> QED
    BY <2>1
<1>7. Documents = CHOOSE h : Equation(h)
  BY DEF Documents, Shallow, MadeOf
<1>8. Equation(Documents)
  <2> HIDE DEF g, Equation
  <2> QED
    BY <1>6, <1>7
<1>9. \A n \in 0..N : Documents[n] = IF n = 0 THEN Shallow ELSE MadeOf(Documents[n - 1])
  BY <1>8
<1> QED
  BY <1>1, <1>9

\* A document that is nested less is a document, and MaxDepth is deep enough
\* for all.
LEMMA DocumentsGrow ==
    /\ \A n \in 1..MaxDepth : Documents[n - 1] \subseteq Documents[n]
    /\ \A n \in 0..MaxDepth : Documents[n] \subseteq Document
<1>1. MaxDepth \in Nat
  BY FilterAssumption
<1>2. \A n \in 1..MaxDepth : Documents[n - 1] \subseteq Documents[n]
  BY DocumentsUnfold DEF MadeOf
<1> DEFINE S == {i \in 0..MaxDepth : Documents[MaxDepth - i] \subseteq Document}
<1>3. 0 \in S
  BY <1>1 DEF Document
<1>4. ASSUME NEW i \in 0..(MaxDepth - 1), i \in S
      PROVE  i + 1 \in S
  <2>1. MaxDepth - i \in 1..MaxDepth /\ (MaxDepth - i) - 1 = MaxDepth - (i + 1)
        /\ i + 1 \in 0..MaxDepth
    BY <1>1
  <2>2. Documents[(MaxDepth - i) - 1] \subseteq Documents[MaxDepth - i]
    BY <1>2, <2>1
  <2> QED
    BY <1>4, <2>1, <2>2
<1>5. \A i \in 0..MaxDepth : i \in S
  <2> HIDE DEF S
  <2> QED
    BY <1>1, <1>3, <1>4, InductionUpTo
<1>6. ASSUME NEW n \in 0..MaxDepth
      PROVE  Documents[n] \subseteq Document
  <2>1. MaxDepth - n \in 0..MaxDepth /\ MaxDepth - (MaxDepth - n) = n
    BY <1>1
  <2>2. MaxDepth - n \in S
    <3> HIDE DEF S
    <3> QED
      BY <1>5, <2>1
  <2> QED
    BY <2>1, <2>2
<1> QED
  BY <1>2, <1>6

\* What a document is when what is in it is from D.
Shape(d, D) ==
    \/ d = Null
    \/ d.kind = "value" /\ d.is \in Atom /\ d = Value(d.is)
    \/ d.kind = "array" /\ d.items \in Seq(D) /\ d = Array(d.items)
    \/ /\ d.kind = "object" /\ d.at \in [Key -> D \union {Absent}]
       /\ d = [kind |-> "object", at |-> d.at]

\* What a document is made of, at each depth.
LEMMA ShapeOfDocument ==
    /\ \A d \in Documents[0] : Shape(d, {})
    /\ \A n \in 1..MaxDepth : \A d \in Documents[n] : Shape(d, Documents[n - 1])
    /\ \A d \in Document : Shape(d, Document)
<1>1. MaxDepth \in Nat
  BY FilterAssumption
<1>2. ASSUME NEW d \in Shallow, NEW D
      PROVE  Shape(d, D)
  BY DEF Shallow, Shape, Value
<1>3. ASSUME NEW D, NEW E, D \subseteq E, NEW d, Shape(d, D)
      PROVE  Shape(d, E)
  <2>1. d.items \in Seq(D) => d.items \in Seq(E)
    BY <1>3, SeqMonotonic
  <2>2. d.at \in [Key -> D \union {Absent}] => d.at \in [Key -> E \union {Absent}]
    BY <1>3
  <2> QED
    BY <1>3, <2>1, <2>2 DEF Shape
<1>4. ASSUME NEW D, NEW d \in MadeOf(D) \ D
      PROVE  Shape(d, D)
  BY DEF MadeOf, Shape, Array
<1> DEFINE S == {n \in 0..MaxDepth :
                    /\ n = 0 => \A d \in Documents[n] : Shape(d, {})
                    /\ n > 0 => \A d \in Documents[n] : Shape(d, Documents[n - 1])}
<1>5. 0 \in S
  BY <1>1, <1>2, DocumentsUnfold
<1>6. ASSUME NEW n \in 0..(MaxDepth - 1), n \in S
      PROVE  n + 1 \in S
  <2>1. n + 1 \in 1..MaxDepth /\ (n + 1) - 1 = n /\ n + 1 \in 0..MaxDepth /\ n + 1 # 0
    BY <1>1
  <2>2. Documents[n + 1] = MadeOf(Documents[n])
    BY <2>1, DocumentsUnfold
  <2>3. ASSUME NEW d \in Documents[n]
        PROVE  Shape(d, Documents[n])
    <3>1. CASE n = 0
      <4>1. Shape(d, {})
        BY <1>6, <3>1
      <4> QED
        BY <1>3, <4>1
    <3>2. CASE n > 0
      <4>1. Shape(d, Documents[n - 1])
        BY <1>6, <3>2
      <4>2. Documents[n - 1] \subseteq Documents[n]
        BY <1>1, <3>2, DocumentsGrow
      <4> QED
        BY <1>3, <4>1, <4>2
    <3> QED
      BY <3>1, <3>2
  <2>4. \A d \in Documents[n + 1] : Shape(d, Documents[n])
    BY <1>4, <2>2, <2>3
  <2> QED
    BY <2>1, <2>4
<1>7. \A n \in 0..MaxDepth : n \in S
  <2> HIDE DEF S
  <2> QED
    BY <1>1, <1>5, <1>6, InductionUpTo
<1>8. \A d \in Documents[0] : Shape(d, {})
  BY <1>1, <1>7
<1>9. \A n \in 1..MaxDepth : \A d \in Documents[n] : Shape(d, Documents[n - 1])
  BY <1>1, <1>7
<1>10. ASSUME NEW d \in Document
       PROVE  Shape(d, Document)
  <2>1. CASE MaxDepth = 0
    <3>1. Shape(d, {})
      BY <1>8, <2>1 DEF Document
    <3> QED
      BY <1>3, <3>1
  <2>2. CASE MaxDepth # 0
    <3>1. MaxDepth \in 1..MaxDepth /\ MaxDepth - 1 \in 0..MaxDepth
      BY <1>1, <2>2
    <3>2. Shape(d, Documents[MaxDepth - 1])
      BY <1>9, <3>1 DEF Document
    <3>3. Documents[MaxDepth - 1] \subseteq Document
      BY <3>1, DocumentsGrow
    <3> QED
      BY <1>3, <3>2, <3>3
  <2> QED
    BY <2>1, <2>2
<1> QED
  BY <1>8, <1>9, <1>10

\* The kinds of documents; null is the only one of its kind.
LEMMA DocumentsHaveKinds ==
    /\ Absent \notin Document
    /\ Null \in Document /\ Null.kind = "null"
    /\ \A d \in Document : d.kind = "null" => d = Null
    /\ \A d \in Document : d.kind \in {"null", "value", "array", "object"}
    /\ \A s : Array(s).kind = "array" /\ Array(s).items = s /\ Array(s) # Null
    /\ \A f : Object(f).kind = "object" /\ Object(f) # Null
<1>1. \A d \in Document : Shape(d, Document)
  BY ShapeOfDocument
<1>2. Null.kind = "null" /\ Absent.kind = "absent"
  BY DEF Null, Absent
<1>3. \A v : Value(v).kind = "value"
  BY DEF Value
<1>4. \A s : Array(s).kind = "array" /\ Array(s).items = s
  BY DEF Array
<1>5. \A f : Object(f).kind = "object"
  BY DEF Object
<1>6. Null \in Document
  <2>1. Null \in Documents[0]
    BY DocumentsUnfold DEF Shallow
  <2>2. 0 \in 0..MaxDepth
    <3>1. MaxDepth \in Nat
      BY FilterAssumption
    <3> QED
      BY <3>1
  <2> QED
    BY <2>1, <2>2, DocumentsGrow
<1>7. \A d \in Document : d.kind \in {"null", "value", "array", "object"}
                          /\ (d.kind = "null" => d = Null)
  BY <1>1, <1>2 DEF Shape
<1> QED
  BY <1>2, <1>4, <1>5, <1>6, <1>7

\* What an object or an array is directly made of.
Inside(d) ==
    {e \in Document : \/ d.kind = "array" /\ \E i \in DOMAIN d.items : e = d.items[i]
                      \/ d.kind = "object" /\ \E k \in Keys(d.at) : e = d.at[k]}

\* An array is its items, an object what it has under its keys.
LEMMA InsideOfDocument ==
    ASSUME NEW d \in Document
    PROVE  /\ d.kind = "array" => /\ d.items \in Seq(Inside(d))
                                  /\ d.items \in Seq(Document)
                                  /\ d = Array(d.items)
           /\ d.kind = "object" => /\ \A k \in Keys(d.at) : d.at[k] \in Inside(d)
                                   /\ \A k \in Key : d.at[k] \in Document \union {Absent}
                                   /\ DOMAIN d.at = Key
                                   /\ d = [kind |-> "object", at |-> d.at]
<1>1. Shape(d, Document)
  BY ShapeOfDocument
<1>2. d = Null => d.kind = "null"
  BY DocumentsHaveKinds
<1>3. CASE d.kind = "array"
  <2>1. d.items \in Seq(Document) /\ d = Array(d.items)
    BY <1>1, <1>2, <1>3 DEF Shape
  <2>2. \A i \in 1..Len(d.items) : d.items[i] \in Inside(d)
    BY <1>3, <2>1 DEF Inside
  <2>3. d.items \in Seq(Inside(d))
    BY <2>1, <2>2
  <2> QED
    BY <1>3, <2>1, <2>3
<1>4. CASE d.kind = "object"
  <2>1. d.at \in [Key -> Document \union {Absent}] /\ d = [kind |-> "object", at |-> d.at]
    BY <1>1, <1>2, <1>4 DEF Shape
  <2>2. \A k \in Keys(d.at) : d.at[k] \in Document
    BY <2>1 DEF Keys
  <2>3. \A k \in Keys(d.at) : d.at[k] \in Inside(d)
    BY <1>4, <2>2 DEF Inside
  <2> QED
    BY <1>4, <2>1, <2>3
<1> QED
  BY <1>3, <1>4

\* It is nested less.
LEMMA InsideIsNestedLess ==
    /\ \A d \in Documents[0] : Inside(d) = {}
    /\ \A n \in 1..MaxDepth : \A d \in Documents[n] : Inside(d) \subseteq Documents[n - 1]
<1>1. ASSUME NEW D, NEW d, Shape(d, D)
      PROVE  Inside(d) \subseteq D
  <2>1. d = Null => d.kind = "null"
    BY DocumentsHaveKinds
  <2>2. CASE d.kind = "array"
    <3>1. d.items \in Seq(D)
      BY <1>1, <2>1, <2>2 DEF Shape
    <3> QED
      BY <2>2, <3>1 DEF Inside
  <2>3. CASE d.kind = "object"
    <3>1. d.at \in [Key -> D \union {Absent}]
      BY <1>1, <2>1, <2>3 DEF Shape
    <3> QED
      BY <2>3, <3>1 DEF Inside, Keys
  <2> QED
    BY <2>2, <2>3 DEF Inside
<1> QED
  BY <1>1, ShapeOfDocument

\* What passes to a document from what is inside it holds for all documents.
LEMMA DocumentInduction ==
    ASSUME NEW S, \A d \in Document : Inside(d) \subseteq S => d \in S
    PROVE  Document \subseteq S
<1> DEFINE T == {n \in 0..MaxDepth : Documents[n] \subseteq S}
<1>1. MaxDepth \in Nat
  BY FilterAssumption
<1>2. 0 \in T
  <2>1. Documents[0] \subseteq Document
    BY <1>1, DocumentsGrow
  <2> QED
    BY <1>1, <2>1, InsideIsNestedLess
<1>3. ASSUME NEW n \in 0..(MaxDepth - 1), n \in T
      PROVE  n + 1 \in T
  <2>1. n + 1 \in 1..MaxDepth /\ (n + 1) - 1 = n /\ n + 1 \in 0..MaxDepth
    BY <1>1
  <2>2. Documents[n + 1] \subseteq Document
    BY <2>1, DocumentsGrow
  <2>3. \A d \in Documents[n + 1] : Inside(d) \subseteq Documents[n]
    BY <2>1, InsideIsNestedLess
  <2> QED
    BY <1>3, <2>1, <2>2, <2>3
<1>4. \A n \in 0..MaxDepth : n \in T
  <2> HIDE DEF T
  <2> QED
    BY <1>1, <1>2, <1>3, InductionUpTo
<1> QED
  BY <1>1, <1>4 DEF Document

\* A function on documents may be defined by what it makes of a document when
\* its values on what is inside are known.
StepsFromInside(F, step) ==
    \A f, g \in F, d \in Document :
       (\A e \in Inside(d) : f[e] = g[e]) => step[f][d] = step[g][d]

\* Every such definition has a solution: step has a fixed point.
LEMMA DocumentRecursion ==
    ASSUME NEW F, FunctionsOn(Document, F),
           NEW first \in F, NEW step \in [F -> F], StepsFromInside(F, step)
    PROVE  \E f \in F : step[f] = f
<1>1. MaxDepth \in Nat /\ Documents[MaxDepth] = Document
  BY FilterAssumption DEF Document
<1>2. ASSUME NEW f \in F, NEW g \in F, NEW n \in 0..MaxDepth,
             n > 0 => \A d \in Documents[n - 1] : f[d] = g[d],
             NEW d \in Documents[n]
      PROVE  step[f][d] = step[g][d]
  <2>1. d \in Document
    BY DocumentsGrow
  <2>2. \A e \in Inside(d) : f[e] = g[e]
    <3>1. CASE n = 0
      BY <3>1, InsideIsNestedLess
    <3>2. CASE n > 0
      BY <1>1, <1>2, <3>2, InsideIsNestedLess
    <3> QED
      BY <3>1, <3>2
  <2> QED
    BY <2>1, <2>2 DEF StepsFromInside
<1>3. StepsFromBelow(Documents, MaxDepth, F, step)
  BY <1>2 DEF StepsFromBelow
<1> QED
  BY <1>1, <1>3, LevelRecursionExists

\* Objects and arrays that are made of documents are nested one deeper.
LEMMA MadeOfDocuments ==
    ASSUME NEW n \in 1..MaxDepth
    PROVE  /\ \A s \in Seq(Documents[n - 1]) : Array(s) \in Documents[n]
           /\ \A f : (\A k \in DOMAIN f : f[k] \in Documents[n - 1])
                     => Object(f) \in Documents[n]
<1> DEFINE D == Documents[n - 1]
<1>1. Documents[n] = MadeOf(D)
  BY DocumentsUnfold
<1> HIDE DEF D
<1>2. \A s \in Seq(D) : Array(s) \in MadeOf(D)
  BY DEF MadeOf, Array
<1>3. ASSUME NEW f, \A k \in DOMAIN f : f[k] \in D
      PROVE  Object(f) \in MadeOf(D)
  BY <1>3 DEF MadeOf, Object
<1> QED
  BY <1>1, <1>2, <1>3 DEF D

\* An object has the keys that it is made with.
LEMMA KeysOfObject ==
    ASSUME NEW K \in SUBSET Key, NEW f \in [K -> Document]
    PROVE  /\ Keys(Object(f).at) = K
           /\ \A k \in K : Object(f).at[k] = f[k]
BY DocumentsHaveKinds DEF Object, Keys

-----------------------------------------------------------------------------
(* Without *)

\* What is left of the first places of s, for each number of them.
Leaving(s, x, f) ==
    /\ f[0] = <<>>
    /\ \A i \in 1..Len(s) :
          f[i] = IF s[i] = x THEN f[i - 1] ELSE Append(f[i - 1], s[i])

\* The recursive function of Without is well defined.
LEMMA WithoutUnfolds ==
    ASSUME NEW S, NEW s \in Seq(S), NEW x
    PROVE  \E f \in [0..Len(s) -> Seq(S)] : Leaving(s, x, f) /\ Without(s, x) = f[Len(s)]
<1> DEFINE n == Len(s)
           Left(i, t) == IF s[i] = x THEN t ELSE Append(t, s[i])
           next == [i \in 1..n |-> [t \in Seq(S) |-> Left(i, t)]]
           Equation(h) == h = [i \in 0..n |-> IF i = 0 THEN <<>> ELSE Left(i, h[i - 1])]
<1>1. n \in Nat /\ \A i \in 1..n : s[i] \in S
  OBVIOUS
<1>2. \A i \in 1..n, t \in Seq(S) : Left(i, t) \in Seq(S)
  BY <1>1, AppendProperties
<1>3. next \in Steps(n, Seq(S))
  <2> HIDE DEF Left
  <2> QED
    BY <1>2 DEF Steps
<1>4. <<>> \in Seq(S)
  OBVIOUS
<1>5. PICK f \in [0..n -> Seq(S)] :
         f[0] = <<>> /\ \A i \in 1..n : f[i] = next[i][f[i - 1]]
  <2>1. \E f \in [0..n -> Seq(S)] : Recursion(f, n, <<>>, next)
    <3> HIDE DEF n, next
    <3> QED
      BY <1>1, <1>3, <1>4, RecursionExists
  <2> HIDE DEF n, next
  <2> QED
    BY <2>1 DEF Recursion
<1>6. \A i \in 1..n : f[i] = Left(i, f[i - 1])
  <2> TAKE i \in 1..n
  <2>1. i - 1 \in 0..n
    BY <1>1
  <2>2. f[i - 1] \in Seq(S)
    BY <2>1
  <2> HIDE DEF Left
  <2> QED
    BY <1>5, <2>2
<1>7. Equation(f)
  <2> HIDE DEF Left
  <2> QED
    BY <1>1, <1>5, <1>6
<1> DEFINE left == CHOOSE h : Equation(h)
<1>8. Equation(left)
  <2> HIDE DEF Equation
  <2> QED
    BY <1>7
<1>9. Without(s, x) = left[n]
  BY DEF Without
<1> HIDE DEF left
<1>10. \A i \in 0..n : left[i] = f[i]
  <2> DEFINE T == {i \in 0..n : left[i] = f[i]}
  <2> HIDE DEF Left
  <2>1. 0 \in T
    BY <1>1, <1>5, <1>8
  <2>2. ASSUME NEW i \in 0..(n - 1), i \in T
        PROVE  i + 1 \in T
    <3>1. i + 1 \in 1..n /\ (i + 1) - 1 = i /\ i + 1 \in 0..n /\ i + 1 # 0
      BY <1>1
    <3>2. left[i + 1] = Left(i + 1, left[i])
      BY <1>8, <3>1
    <3>3. f[i + 1] = Left(i + 1, f[i])
      BY <1>6, <3>1
    <3> QED
      BY <2>2, <3>1, <3>2, <3>3
  <2>3. \A i \in 0..n : i \in T
    <3> HIDE DEF T
    <3> QED
      BY <1>1, <2>1, <2>2, InductionUpTo
  <2> QED
    BY <2>3
<1>11. Without(s, x) = f[n]
  <2>1. n \in 0..n
    BY <1>1
  <2> QED
    BY <1>9, <1>10, <2>1
<1>12. Leaving(s, x, f)
  BY <1>5, <1>6 DEF Leaving
<1> QED
  BY <1>11, <1>12

\* Nothing is left of nothing.
LEMMA WithoutOfNone ==
    ASSUME NEW x
    PROVE  Without(<<>>, x) = <<>>
<1>1. <<>> \in Seq({}) /\ Len(<<>>) = 0
  OBVIOUS
<1>2. PICK f \in [0..Len(<<>>) -> Seq({})] :
         Leaving(<<>>, x, f) /\ Without(<<>>, x) = f[Len(<<>>)]
  BY <1>1, WithoutUnfolds
<1> QED
  BY <1>1, <1>2 DEF Leaving

\* What is appended is left out or kept.
LEMMA WithoutOfAppend ==
    ASSUME NEW S, NEW s \in Seq(S), NEW c \in S, NEW x
    PROVE  /\ Without(s, x) \in Seq(S)
           /\ Without(Append(s, c), x) =
                 IF c = x THEN Without(s, x) ELSE Append(Without(s, x), c)
<1> DEFINE n == Len(s)
           tt == Append(s, c)
<1>1. /\ n \in Nat /\ tt \in Seq(S) /\ Len(tt) = n + 1
      /\ \A i \in 1..n : tt[i] = s[i]
      /\ tt[n + 1] = c
  BY AppendProperties
<1>3. PICK f \in [0..n -> Seq(S)] : Leaving(s, x, f) /\ Without(s, x) = f[n]
  BY WithoutUnfolds
<1> HIDE DEF tt
<1>4. PICK g \in [0..(n + 1) -> Seq(S)] : Leaving(tt, x, g) /\ Without(tt, x) = g[n + 1]
  <2>1. tt \in Seq(S) /\ Len(tt) = n + 1
    BY <1>1
  <2>2. \E g \in [0..Len(tt) -> Seq(S)] : Leaving(tt, x, g) /\ Without(tt, x) = g[Len(tt)]
    BY <2>1, WithoutUnfolds, Zenon
  <2> QED
    BY <2>1, <2>2, Zenon
<1> DEFINE T == {i \in 0..n : f[i] = g[i]}
<1>5. 0 \in T
  BY <1>1, <1>3, <1>4 DEF Leaving
<1>6. ASSUME NEW i \in 0..(n - 1), i \in T
      PROVE  i + 1 \in T
  <2>1. i + 1 \in 1..n /\ i + 1 \in 1..Len(tt) /\ (i + 1) - 1 = i /\ i + 1 \in 0..n
    BY <1>1
  <2>2. f[i + 1] = IF s[i + 1] = x THEN f[i] ELSE Append(f[i], s[i + 1])
    BY <1>3, <2>1 DEF Leaving
  <2>3. g[i + 1] = IF tt[i + 1] = x THEN g[i] ELSE Append(g[i], tt[i + 1])
    BY <1>4, <2>1 DEF Leaving
  <2>4. tt[i + 1] = s[i + 1]
    BY <1>1, <2>1
  <2> QED
    BY <1>6, <2>1, <2>2, <2>3, <2>4
<1>7. f[n] = g[n]
  <2>1. \A i \in 0..n : i \in T
    <3> HIDE DEF T
    <3> QED
      BY <1>1, <1>5, <1>6, InductionUpTo
  <2> QED
    BY <1>1, <2>1
<1>8. g[n + 1] = IF c = x THEN g[n] ELSE Append(g[n], c)
  <2>1. n + 1 \in 1..Len(tt) /\ (n + 1) - 1 = n
    BY <1>1
  <2> QED
    BY <1>1, <1>4, <2>1 DEF Leaving
<1>9. f[n] \in Seq(S)
  BY <1>1
<1> QED
  BY <1>3, <1>4, <1>7, <1>8, <1>9 DEF tt

\* Nothing that is left out is left, and a sequence that holds nothing of that
\* is as it was.
LEMMA WithoutLeavesOthers ==
    ASSUME NEW S, NEW x
    PROVE  /\ \A s \in Seq(S) : Without(s, x) \in Seq(S \ {x})
           /\ \A s \in Seq(S \ {x}) : Without(s, x) = s
<1> DEFINE A == {s \in Seq(S) : Without(s, x) \in Seq(S \ {x})}
           B == {s \in Seq(S \ {x}) : Without(s, x) = s}
<1>1. \A s \in Seq(S) : s \in A
  <2>1. <<>> \in A
    <3>1. <<>> \in Seq(S) /\ <<>> \in Seq(S \ {x})
      OBVIOUS
    <3>2. Without(<<>>, x) = <<>>
      BY WithoutOfNone
    <3>3. Without(<<>>, x) \in Seq(S \ {x})
      BY <3>1, <3>2, Zenon
    <3> QED
      BY <3>1, <3>3
  <2>2. ASSUME NEW s \in Seq(S), NEW c \in S, s \in A
        PROVE  Append(s, c) \in A
    <3>1. Append(s, c) \in Seq(S)
      OBVIOUS
    <3>2. Without(s, x) \in Seq(S \ {x})
      BY <2>2
    <3>3. c # x => Append(Without(s, x), c) \in Seq(S \ {x})
      <4> DEFINE w == Without(s, x)
                 R == S \ {x}
      <4>1. w \in Seq(R) /\ (c # x => c \in R)
        BY <3>2
      <4> HIDE DEF w, R
      <4>2. c # x => Append(w, c) \in Seq(R)
        BY <4>1, AppendProperties
      <4> QED
        BY <4>2 DEF w, R
    <3>4. Without(Append(s, c), x) =
             IF c = x THEN Without(s, x) ELSE Append(Without(s, x), c)
      <4> HIDE DEF A
      <4> QED
        BY WithoutOfAppend
    <3> QED
      BY <3>1, <3>2, <3>3, <3>4, Zenon
  <2> HIDE DEF A
  <2> QED
    BY <2>1, <2>2, InductionOnSequences
<1>2. \A s \in Seq(S \ {x}) : s \in B
  <2>1. <<>> \in B
    BY WithoutOfNone
  <2>2. ASSUME NEW s \in Seq(S \ {x}), NEW c \in S \ {x}, s \in B
        PROVE  Append(s, c) \in B
    <3>1. Append(s, c) \in Seq(S \ {x})
      OBVIOUS
    <3>2. Without(s, x) = s
      BY <2>2
    <3> QED
      BY <3>1, <3>2, WithoutOfAppend
  <2> HIDE DEF B
  <2> QED
    BY <2>1, <2>2, InductionOnSequences
<1> QED
  BY <1>1, <1>2

\* What is left are elements of the sequence, in its order.
LEMMA WithoutKeepsOrder ==
    ASSUME NEW S, NEW x, NEW s \in Seq(S)
    PROVE  \E at \in [DOMAIN Without(s, x) -> DOMAIN s] :
              /\ Increasing(at)
              /\ \A i \in DOMAIN Without(s, x) : Without(s, x)[i] = s[at[i]]
<1> DEFINE Placed(t, at) == /\ at \in [DOMAIN Without(t, x) -> DOMAIN t]
                            /\ Increasing(at)
                            /\ \A i \in DOMAIN Without(t, x) : Without(t, x)[i] = t[at[i]]
           A == {t \in Seq(S) : \E at : Placed(t, at)}
<1>1. <<>> \in A
  <2>1. Without(<<>>, x) = <<>>
    BY WithoutOfNone
  <2>2. Placed(<<>>, <<>>)
    BY <2>1 DEF Increasing
  <2> HIDE DEF Placed
  <2> QED
    BY <2>2
<1>2. ASSUME NEW t \in Seq(S), NEW c \in S, t \in A
      PROVE  Append(t, c) \in A
  <2>1. PICK at : Placed(t, at)
    BY <1>2
  <2> DEFINE u == Append(t, c)
             w == Without(t, x)
             v == Without(u, x)
             n == Len(t)
             m == Len(w)
  <2>2. /\ n \in Nat /\ u \in Seq(S) /\ Len(u) = n + 1 /\ u[n + 1] = c
        /\ \A i \in 1..n : u[i] = t[i]
        /\ DOMAIN t = 1..n /\ DOMAIN u = 1..(n + 1)
    BY AppendProperties
  <2>3. /\ w \in Seq(S) /\ v = IF c = x THEN w ELSE Append(w, c)
        /\ DOMAIN w = 1..m /\ m \in Nat
    BY WithoutOfAppend
  <2>4. at \in [1..m -> 1..n] /\ Increasing(at) /\ \A i \in 1..m : w[i] = t[at[i]]
    BY <2>1, <2>2, <2>3
  <2>5. CASE c = x
    <3>1. at \in [1..m -> 1..(n + 1)] /\ \A i \in 1..m : w[i] = u[at[i]]
      <4>1. \A i \in 1..m : at[i] \in 1..n /\ w[i] = u[at[i]]
        BY <2>2, <2>4
      <4>2. 1..n \subseteq 1..(n + 1)
        BY <2>2
      <4> QED
        BY <2>4, <4>1, <4>2
    <3>2. v = w
      BY <2>3, <2>5
    <3> HIDE DEF u, v, w, n, m
    <3>3. Placed(u, at)
      BY <2>2, <2>3, <2>4, <3>1, <3>2 DEF v
    <3> HIDE DEF Placed
    <3> QED
      BY <2>2, <3>3 DEF u
  <2>6. CASE c # x
    <3> HIDE DEF u, v, w, n, m
    <3> DEFINE bt == [i \in 1..(m + 1) |-> IF i = m + 1 THEN n + 1 ELSE at[i]]
    <3>1. v \in Seq(S) /\ Len(v) = m + 1 /\ v[m + 1] = c /\ \A i \in 1..m : v[i] = w[i]
      <4>1. v = Append(w, c)
        BY <2>3, <2>6
      <4> QED
        BY <2>3, <4>1, AppendProperties DEF m
    <3>2. \A i \in 1..(m + 1) : i = m + 1 \/ i \in 1..m
      BY <2>3
    <3>3. \A i \in 1..m : at[i] \in 1..n /\ bt[i] = at[i] /\ i # m + 1
      BY <2>3, <2>4
    <3>4. bt[m + 1] = n + 1
      BY <2>3
    <3>5. \A i \in 1..(m + 1) : bt[i] \in 1..(n + 1)
      <4> TAKE i \in 1..(m + 1)
      <4>1. CASE i = m + 1
        <5>1. n + 1 \in 1..(n + 1)
          BY <2>2
        <5> HIDE DEF bt
        <5> QED
          BY <3>4, <4>1, <5>1
      <4>2. CASE i \in 1..m
        <5>1. at[i] \in 1..n /\ bt[i] = at[i]
          BY <3>3, <4>2
        <5> HIDE DEF bt
        <5> QED
          BY <2>2, <5>1
      <4> QED
        BY <3>2, <4>1, <4>2
    <3>6. \A i \in 1..(m + 1) : v[i] = u[bt[i]]
      <4> TAKE i \in 1..(m + 1)
      <4>1. CASE i = m + 1
        BY <2>2, <3>1, <3>4, <4>1
      <4>2. CASE i \in 1..m
        <5>1. v[i] = w[i] /\ w[i] = t[at[i]] /\ at[i] \in 1..n /\ bt[i] = at[i]
          BY <2>4, <3>1, <3>3, <4>2
        <5>2. t[at[i]] = u[at[i]]
          BY <2>2, <5>1
        <5> QED
          BY <5>1, <5>2
      <4> QED
        BY <3>2, <4>1, <4>2
    <3>7. ASSUME NEW i \in 1..(m + 1), NEW j \in 1..(m + 1), i < j
          PROVE  bt[i] < bt[j]
      <4>1. i \in 1..m /\ at[i] \in 1..n /\ bt[i] = at[i]
        <5>1. i \in 1..m
          BY <2>3, <3>7
        <5> QED
          BY <3>3, <5>1
      <4>2. CASE j = m + 1
        BY <2>2, <3>4, <4>1, <4>2
      <4>3. CASE j \in 1..m
        <5>1. at[i] < at[j]
          BY <2>4, <3>7, <4>1, <4>3 DEF Increasing
        <5> QED
          BY <3>3, <4>1, <4>3, <5>1
      <4> QED
        BY <3>2, <4>2, <4>3
    <3>8. bt = [i \in 1..(m + 1) |-> bt[i]]
      OBVIOUS
    <3> HIDE DEF bt
    <3>9. bt \in [1..(m + 1) -> 1..(n + 1)] /\ DOMAIN bt = 1..(m + 1)
      BY <3>5, <3>8
    <3>10. DOMAIN v = 1..(m + 1)
      BY <3>1
    <3>11. Increasing(bt)
      BY <3>7, <3>9 DEF Increasing
    <3>12. Placed(u, bt)
      BY <2>2, <3>6, <3>9, <3>10, <3>11 DEF v
    <3> HIDE DEF Placed
    <3> QED
      BY <2>2, <3>12 DEF u
  <2> QED
    BY <2>5, <2>6
<1>3. s \in A
  <2> HIDE DEF A
  <2> QED
    BY <1>1, <1>2, InductionOnSequences
<1> QED
  BY <1>3

\* Everything else is left.
LEMMA WithoutKeepsOthers ==
    ASSUME NEW S, NEW x, NEW s \in Seq(S)
    PROVE  \A i \in DOMAIN s : s[i] # x =>
              \E j \in DOMAIN Without(s, x) : Without(s, x)[j] = s[i]
<1> DEFINE A == {t \in Seq(S) : \A i \in 1..Len(t) : t[i] # x =>
                    \E j \in 1..Len(Without(t, x)) : Without(t, x)[j] = t[i]}
<1>1. <<>> \in A
  OBVIOUS
<1>2. ASSUME NEW t \in Seq(S), NEW c \in S, t \in A
      PROVE  Append(t, c) \in A
  <2> DEFINE u == Append(t, c)
             v == Without(t, x)
             w == Without(u, x)
  <2>1. /\ u \in Seq(S) /\ Len(t) \in Nat /\ Len(u) = Len(t) + 1
        /\ u[Len(t) + 1] = c /\ \A i \in 1..Len(t) : u[i] = t[i]
    BY AppendProperties
  <2>2. v \in Seq(S) /\ w = IF c = x THEN v ELSE Append(v, c)
    BY WithoutOfAppend
  <2>3. \A i \in 1..Len(t) : t[i] # x => \E j \in 1..Len(v) : v[j] = t[i]
    BY <1>2
  <2> HIDE DEF u, v, w, A
  <2>4. /\ Len(v) \in Nat
        /\ c # x => /\ Len(w) = Len(v) + 1 /\ w[Len(v) + 1] = c
                    /\ \A j \in 1..Len(v) : w[j] = v[j]
    BY <2>2, AppendProperties
  <2>5. \A j \in 1..Len(v) : j \in 1..Len(w) /\ w[j] = v[j]
    BY <2>2, <2>4
  <2>6. ASSUME NEW i \in 1..Len(u), u[i] # x
        PROVE  \E j \in 1..Len(w) : w[j] = u[i]
    <3>1. CASE i \in 1..Len(t)
      BY <2>1, <2>3, <2>5, <2>6, <3>1
    <3>2. CASE i = Len(t) + 1
      BY <2>1, <2>4, <2>6, <3>2
    <3> QED
      BY <2>1, <3>1, <3>2
  <2> QED
    BY <2>1, <2>6 DEF A, u, w
<1>3. s \in A
  <2> HIDE DEF A
  <2> QED
    BY <1>1, <1>2, InductionOnSequences
<1>4. /\ \A r \in Seq(S) : DOMAIN r = 1..Len(r)
      /\ Without(s, x) \in Seq(S)
  <2>1. Without(s, x) \in Seq(S \ {x})
    BY WithoutLeavesOthers
  <2> QED
    BY <2>1, LenProperties, SeqMonotonic
<1> QED
  BY <1>3, <1>4

-----------------------------------------------------------------------------
(* filterWithTree *)

\* The nodes below a node.
LEMMA NodesBelow ==
    ASSUME NEW node \in Node, NEW part
    PROVE  Child(node, part) \in Node /\ ChildOrWildcard(node, part) \in Node
<1>1. ASSUME NEW p
      PROVE  Child(node, p) \in Node
  <2>1. ASSUME NEW f \in node, f # <<>>
        PROVE  Tail(f) \in Seq(Part)
    BY <2>1, HeadTailProperties DEF Node
  <2> QED
    BY <2>1 DEF Child, Node
<1> QED
  BY <1>1 DEF ChildOrWildcard

\* A document from what is inside it, for some Inner in the place of
\* FilterWithTree: the key k of an object, the keys that stay, the items of an
\* array, and the document.
FilteredKey(fields, node, Inner, k) ==
    IF IsTerminal(ChildOrWildcard(node, k)) THEN fields[k]
    ELSE Inner[fields[k]][ChildOrWildcard(node, k)]

KeptKeys(fields, node, Inner) ==
    {k \in Keys(fields) :
        /\ ChildOrWildcard(node, k) # {}
        /\ \/ IsTerminal(ChildOrWildcard(node, k))
           \/ FilteredKey(fields, node, Inner, k) # Null}

FilteredKeys(fields, node, Inner) ==
    [k \in KeptKeys(fields, node, Inner) |-> FilteredKey(fields, node, Inner, k)]

FilteredItems(items, node, Inner) ==
    [i \in DOMAIN items |-> Inner[items[i]][ChildOrWildcard(node, "[]")]]

Filtered(d, node, Inner) ==
    CASE d.kind = "object" -> FilterObject(d.at, node, Inner)
      [] d.kind = "array"  -> FilterArray(d.items, node, Inner)
      [] OTHER             -> IF IsTerminal(node) THEN d ELSE Null

\* FilterObject in these terms.
LEMMA FilterObjectByKeys ==
    ASSUME NEW fields, NEW node, NEW Inner
    PROVE  FilterObject(fields, node, Inner) =
              IF KeptKeys(fields, node, Inner) = {} THEN Null
              ELSE Object(FilteredKeys(fields, node, Inner))
BY Zenon DEF FilterObject, KeptKeys, FilteredKey, FilteredKeys

\* FilterArray in these terms.
LEMMA FilterArrayByItems ==
    ASSUME NEW items, NEW node, NEW Inner
    PROVE  FilterArray(items, node, Inner) =
              IF ChildOrWildcard(node, "[]") = {} THEN Null
              ELSE Array(Without(FilteredItems(items, node, Inner), Null))
BY Zenon DEF FilterArray, FilteredItems

\* Inner leaves document d at its depth, for every node or path x.
KeepsDepth(d, Inner, X) ==
    \A n \in 0..MaxDepth, x \in X : d \in Documents[n] => Inner[d][x] \in Documents[n]

\* A null is a document of any depth.
LEMMA NullIsShallow ==
    \A n \in 0..MaxDepth : Null \in Documents[n]
<1> DEFINE S == {n \in 0..MaxDepth : Null \in Documents[n]}
<1>1. MaxDepth \in Nat
  BY FilterAssumption
<1>2. 0 \in S
  BY <1>1, DocumentsUnfold DEF Shallow
<1>3. ASSUME NEW n \in 0..(MaxDepth - 1), n \in S
      PROVE  n + 1 \in S
  <2>1. n + 1 \in 1..MaxDepth /\ (n + 1) - 1 = n /\ n + 1 \in 0..MaxDepth
    BY <1>1
  <2> QED
    BY <1>3, <2>1, DocumentsGrow
<1> HIDE DEF S
<1>4. \A n \in 0..MaxDepth : n \in S
  BY <1>1, <1>2, <1>3, InductionUpTo
<1> QED
  BY <1>4 DEF S

\* The filter nests nothing deeper than it was, if it does not inside.
LEMMA FilteredKeepsDepth ==
    ASSUME NEW Inner, NEW n \in 0..MaxDepth, NEW d \in Documents[n], NEW node \in Node,
           \A e \in Inside(d) : KeepsDepth(e, Inner, Node)
    PROVE  Filtered(d, node, Inner) \in Documents[n]
<1>1. MaxDepth \in Nat /\ d \in Document /\ Null \in Documents[n]
  BY FilterAssumption, DocumentsGrow, NullIsShallow
<1>2. CASE d.kind \in {"array", "object"}
  <2>1. n \in 1..MaxDepth /\ n - 1 \in 0..MaxDepth
    <3>1. n # 0
      <4>1. \A e \in Documents[0] : e.kind \in {"null", "value"}
        BY DocumentsUnfold, DocumentsHaveKinds DEF Shallow
      <4> QED
        BY <1>2, <4>1
    <3> QED
      BY <1>1, <3>1
  <2> DEFINE D == Documents[n - 1]
  <2>2. Inside(d) \subseteq D
    BY <2>1, InsideIsNestedLess
  <2>3. ASSUME NEW e \in Inside(d), NEW below \in Node
        PROVE  e \in D /\ Inner[e][below] \in D
    BY <2>1, <2>2 DEF KeepsDepth
  <2>4. /\ \A s \in Seq(D) : Array(s) \in Documents[n]
        /\ \A f : (\A k \in DOMAIN f : f[k] \in D) => Object(f) \in Documents[n]
    BY <2>1, MadeOfDocuments
  <2> HIDE DEF D
  <2>5. CASE d.kind = "object"
    <3>1. \A k \in Keys(d.at) : FilteredKey(d.at, node, Inner, k) \in D
      BY <2>3, <2>5, <1>1, InsideOfDocument, NodesBelow DEF FilteredKey
    <3>2. Object(FilteredKeys(d.at, node, Inner)) \in Documents[n]
      BY <2>4, <3>1 DEF FilteredKeys, KeptKeys
    <3> QED
      BY <1>1, <2>5, <3>2, FilterObjectByKeys DEF Filtered
  <2>6. CASE d.kind = "array"
    <3>1. d.items \in Seq(Inside(d))
      BY <1>1, <2>6, InsideOfDocument
    <3>2. ASSUME NEW i \in DOMAIN d.items
          PROVE  Inner[d.items[i]][ChildOrWildcard(node, "[]")] \in D
      BY <2>3, <3>1, NodesBelow
    <3>3. FilteredItems(d.items, node, Inner) \in Seq(D)
      BY <3>1, <3>2 DEF FilteredItems
    <3>4. Without(FilteredItems(d.items, node, Inner), Null) \in Seq(D)
      <4>1. Without(FilteredItems(d.items, node, Inner), Null) \in Seq(D \ {Null})
        BY <3>3, WithoutLeavesOthers
      <4> QED
        BY <4>1, SeqMonotonic
    <3> QED
      BY <1>1, <2>4, <2>6, <3>4, FilterArrayByItems DEF Filtered
  <2> QED
    BY <1>2, <2>5, <2>6
<1>3. CASE d.kind \notin {"array", "object"}
  BY <1>1, <1>3 DEF Filtered
<1> QED
  BY <1>2, <1>3

\* It depends on what the filter makes of what is inside.
LEMMA FilteredFromInside ==
    ASSUME NEW f, NEW g, NEW d \in Document, NEW node,
           \A e \in Inside(d) : f[e] = g[e]
    PROVE  Filtered(d, node, f) = Filtered(d, node, g)
<1>1. CASE d.kind = "object"
  <2>1. \A k \in Keys(d.at) : FilteredKey(d.at, node, f, k) = FilteredKey(d.at, node, g, k)
    BY <1>1, InsideOfDocument DEF FilteredKey
  <2>2. KeptKeys(d.at, node, f) = KeptKeys(d.at, node, g)
    BY <2>1 DEF KeptKeys
  <2>3. FilteredKeys(d.at, node, f) = FilteredKeys(d.at, node, g)
    <3>1. \A k \in KeptKeys(d.at, node, f) :
             FilteredKey(d.at, node, f, k) = FilteredKey(d.at, node, g, k)
      BY <2>1 DEF KeptKeys
    <3> QED
      BY <2>2, <3>1 DEF FilteredKeys
  <2> QED
    BY <1>1, <2>2, <2>3, FilterObjectByKeys DEF Filtered
<1>2. CASE d.kind = "array"
  <2>1. d.items \in Seq(Inside(d))
    BY <1>2, InsideOfDocument
  <2>2. \A i \in DOMAIN d.items : f[d.items[i]] = g[d.items[i]]
    BY <2>1
  <2>3. FilteredItems(d.items, node, f) = FilteredItems(d.items, node, g)
    BY <2>2 DEF FilteredItems
  <2> QED
    BY <1>2, <2>3, FilterArrayByItems DEF Filtered
<1>3. CASE d.kind \notin {"array", "object"}
  BY <1>3 DEF Filtered
<1> QED
  BY <1>1, <1>2, <1>3

\* FilterWithTree is well defined, and leaves documents at their depth.
LEMMA FilterWithTreeUnfolds ==
    /\ \A d \in Document, node \in Node :
          FilterWithTree[d][node] = Filtered(d, node, FilterWithTree)
    /\ \A d \in Document : KeepsDepth(d, FilterWithTree, Node)
    /\ \A d \in Document, node \in Node : FilterWithTree[d][node] \in Document
<1> DEFINE Equation(h) == h = [d \in Document |-> [node \in Node |-> Filtered(d, node, h)]]
           F == {f \in [Document -> [Node -> Document]] : \A d \in Document : KeepsDepth(d, f, Node)}
           step == [f \in F |-> [d \in Document |-> [node \in Node |-> Filtered(d, node, f)]]]
           same == [d \in Document |-> [node \in Node |-> d]]
<1>1. MaxDepth \in Nat /\ \A n \in 0..MaxDepth : Documents[n] \subseteq Document
  BY FilterAssumption, DocumentsGrow
<1>2. ASSUME NEW h, NEW d \in Document, \A e \in Inside(d) : KeepsDepth(e, h, Node)
      PROVE  /\ \A n \in 0..MaxDepth, node \in Node :
                   d \in Documents[n] => Filtered(d, node, h) \in Documents[n]
             /\ \A node \in Node : Filtered(d, node, h) \in Document
  <2>1. \A n \in 0..MaxDepth, node \in Node :
           d \in Documents[n] => Filtered(d, node, h) \in Documents[n]
    BY <1>2, FilteredKeepsDepth
  <2>2. MaxDepth \in 0..MaxDepth /\ Documents[MaxDepth] = Document
    BY <1>1 DEF Document
  <2> QED
    BY <2>1, <2>2
<1>3. FunctionsOn(Document, F)
  BY DEF FunctionsOn
<1>4. same \in F
  BY <1>1 DEF KeepsDepth
<1>5. ASSUME NEW f \in F
      PROVE  [d \in Document |-> [node \in Node |-> Filtered(d, node, f)]] \in F
  <2> DEFINE g == [d \in Document |-> [node \in Node |-> Filtered(d, node, f)]]
  <2>1. \A d \in Document : \A e \in Inside(d) : KeepsDepth(e, f, Node)
    BY DEF Inside
  <2>2. g \in [Document -> [Node -> Document]]
    BY <1>2, <2>1
  <2>3. \A d \in Document : KeepsDepth(d, g, Node)
    BY <1>2, <2>1 DEF KeepsDepth
  <2> QED
    BY <2>2, <2>3
<1>6. step \in [F -> F]
  <2> HIDE DEF F
  <2> QED
    BY <1>5
<1>7. StepsFromInside(F, step)
  <2> HIDE DEF F
  <2>1. ASSUME NEW f \in F, NEW g \in F, NEW d \in Document, \A e \in Inside(d) : f[e] = g[e]
        PROVE  step[f][d] = step[g][d]
    <3>1. \A node \in Node : Filtered(d, node, f) = Filtered(d, node, g)
      BY <2>1, FilteredFromInside
    <3>2. [node \in Node |-> Filtered(d, node, f)] = [node \in Node |-> Filtered(d, node, g)]
      BY <3>1
    <3> QED
      BY <3>2
  <2> QED
    BY <2>1 DEF StepsFromInside
<1>8. PICK f \in F : step[f] = f
  <2> HIDE DEF F, step, same
  <2> QED
    BY <1>3, <1>4, <1>6, <1>7, DocumentRecursion
<1>9. Equation(f)
  <2>1. step[f] = [d \in Document |-> [node \in Node |-> Filtered(d, node, f)]]
    <3> HIDE DEF F
    <3> QED
      OBVIOUS
  <2> QED
    BY <1>8, <2>1
<1>10. FilterWithTree = CHOOSE h : Equation(h)
  BY DEF FilterWithTree, Filtered
<1>11. Equation(FilterWithTree)
  <2> HIDE DEF Equation
  <2> QED
    BY <1>9, <1>10
<1>12. \A d \in Document, node \in Node :
          FilterWithTree[d][node] = Filtered(d, node, FilterWithTree)
  <2>1. \A d \in Document :
           FilterWithTree[d] = [node \in Node |-> Filtered(d, node, FilterWithTree)]
    BY <1>11
  <2> QED
    BY <2>1, Zenon
<1> DEFINE S == {d \in Document : KeepsDepth(d, FilterWithTree, Node)}
<1>13. Document \subseteq S
  <2>1. ASSUME NEW d \in Document, Inside(d) \subseteq S
        PROVE  d \in S
    <3>1. \A e \in Inside(d) : KeepsDepth(e, FilterWithTree, Node)
      BY <2>1
    <3>2. \A n \in 0..MaxDepth, node \in Node :
             d \in Documents[n] => Filtered(d, node, FilterWithTree) \in Documents[n]
      BY <1>2, <3>1
    <3>3. KeepsDepth(d, FilterWithTree, Node)
      BY <1>12, <3>2 DEF KeepsDepth
    <3> QED
      BY <3>3
  <2> HIDE DEF S
  <2> QED
    BY <2>1, DocumentInduction
<1>14. \A d \in Document : KeepsDepth(d, FilterWithTree, Node)
  BY <1>13
<1>15. \A d \in Document, node \in Node : FilterWithTree[d][node] \in Document
  BY <1>2, <1>12, <1>14 DEF Inside
<1> QED
  BY <1>12, <1>14, <1>15

-----------------------------------------------------------------------------
(* excludeRecursive *)

\* A document from what is inside it, for some Inner in the place of exclude.
Excluded(d, path, fields, Inner) ==
    CASE d.kind = "object" ->
           Object([k \in Kept(fields, d.at, path) |-> Inner[d.at[k]][path \o Split[k]]])
      [] d.kind = "array" ->
           Array([i \in DOMAIN d.items |-> Inner[d.items[i]][path]])
      [] OTHER -> d

\* The function exclude of ExcludeRecursive.
Exclude(fields) ==
    CHOOSE h : h = [d \in Document |-> [path \in Seq(Name) |-> Excluded(d, path, fields, h)]]

\* ExcludeRecursive begins at the top of the document.
LEMMA ExcludeRecursiveIs ==
    ASSUME NEW d, NEW fields
    PROVE  ExcludeRecursive(d, fields) = Exclude(fields)[d][<<>>]
BY Zenon DEF ExcludeRecursive, Exclude, Excluded

\* The path of a key.
LEMMA PathsBelow ==
    ASSUME NEW path \in Seq(Name), NEW k \in Key
    PROVE  Split[k] \in Seq(Name) /\ Split[k] # <<>> /\ path \o Split[k] \in Seq(Name)
<1>1. Split[k] \in Seq(Name) \ {<<>>}
  <2>1. Split \in [Key -> Seq(Name) \ {<<>>}]
    BY FilterAssumption
  <2> QED
    BY <2>1
<1> QED
  BY <1>1, ConcatProperties

\* What is left of a document is not nested deeper, if this is so inside.
LEMMA ExcludedKeepsDepth ==
    ASSUME NEW Inner, NEW fields, NEW n \in 0..MaxDepth, NEW d \in Documents[n],
           NEW path \in Seq(Name), \A e \in Inside(d) : KeepsDepth(e, Inner, Seq(Name))
    PROVE  Excluded(d, path, fields, Inner) \in Documents[n]
<1>1. MaxDepth \in Nat /\ d \in Document
  BY FilterAssumption, DocumentsGrow
<1>2. CASE d.kind \in {"array", "object"}
  <2>1. n \in 1..MaxDepth /\ n - 1 \in 0..MaxDepth
    <3>1. n # 0
      <4>1. \A e \in Documents[0] : e.kind \in {"null", "value"}
        BY DocumentsUnfold, DocumentsHaveKinds DEF Shallow
      <4> QED
        BY <1>2, <4>1
    <3> QED
      BY <1>1, <3>1
  <2> DEFINE D == Documents[n - 1]
  <2>2. Inside(d) \subseteq D
    BY <2>1, InsideIsNestedLess
  <2>3. ASSUME NEW e \in Inside(d), NEW p \in Seq(Name)
        PROVE  Inner[e][p] \in D
    BY <2>1, <2>2 DEF KeepsDepth
  <2>4. /\ \A s \in Seq(D) : Array(s) \in Documents[n]
        /\ \A f : (\A k \in DOMAIN f : f[k] \in D) => Object(f) \in Documents[n]
    BY <2>1, MadeOfDocuments
  <2> HIDE DEF D
  <2>5. CASE d.kind = "object"
    <3> DEFINE f == [k \in Kept(fields, d.at, path) |-> Inner[d.at[k]][path \o Split[k]]]
    <3>1. \A k \in Kept(fields, d.at, path) : f[k] \in D
      BY <1>1, <2>3, <2>5, InsideOfDocument, PathsBelow DEF Kept, Keys
    <3>2. DOMAIN f = Kept(fields, d.at, path)
      OBVIOUS
    <3>3. Object(f) \in Documents[n]
      <4> HIDE DEF f
      <4> QED
        BY <2>4, <3>1, <3>2
    <3> QED
      BY <2>5, <3>3 DEF Excluded
  <2>6. CASE d.kind = "array"
    <3> DEFINE s == [i \in DOMAIN d.items |-> Inner[d.items[i]][path]]
    <3>1. d.items \in Seq(Inside(d))
      BY <1>1, <2>6, InsideOfDocument
    <3>2. \A i \in DOMAIN d.items : Inner[d.items[i]][path] \in D
      BY <2>3, <3>1
    <3>3. s \in Seq(D)
      BY <3>1, <3>2
    <3>4. Array(s) \in Documents[n]
      <4> HIDE DEF s
      <4> QED
        BY <2>4, <3>3
    <3> QED
      BY <2>6, <3>4 DEF Excluded
  <2> QED
    BY <1>2, <2>5, <2>6
<1>3. CASE d.kind \notin {"array", "object"}
  BY <1>3 DEF Excluded
<1> QED
  BY <1>2, <1>3

\* It depends on what is left of what is inside only.
LEMMA ExcludedFromInside ==
    ASSUME NEW f, NEW g, NEW fields, NEW d \in Document, NEW path,
           \A e \in Inside(d) : f[e] = g[e]
    PROVE  Excluded(d, path, fields, f) = Excluded(d, path, fields, g)
<1>1. CASE d.kind = "object"
  <2>1. \A k \in Kept(fields, d.at, path) : f[d.at[k]] = g[d.at[k]]
    BY <1>1, InsideOfDocument DEF Kept
  <2>2. [k \in Kept(fields, d.at, path) |-> f[d.at[k]][path \o Split[k]]]
        = [k \in Kept(fields, d.at, path) |-> g[d.at[k]][path \o Split[k]]]
    BY <2>1
  <2> QED
    BY <1>1, <2>2 DEF Excluded
<1>2. CASE d.kind = "array"
  <2>1. d.items \in Seq(Inside(d))
    BY <1>2, InsideOfDocument
  <2>2. \A i \in DOMAIN d.items : f[d.items[i]] = g[d.items[i]]
    BY <2>1
  <2>3. [i \in DOMAIN d.items |-> f[d.items[i]][path]]
        = [i \in DOMAIN d.items |-> g[d.items[i]][path]]
    BY <2>2
  <2> QED
    BY <1>2, <2>3 DEF Excluded
<1>3. CASE d.kind \notin {"array", "object"}
  BY <1>3 DEF Excluded
<1> QED
  BY <1>1, <1>2, <1>3

\* ExcludeRecursive is well defined, and leaves documents at their depth.
LEMMA ExcludeUnfolds ==
    ASSUME NEW fields
    PROVE  /\ \A d \in Document, path \in Seq(Name) :
                 Exclude(fields)[d][path] = Excluded(d, path, fields, Exclude(fields))
           /\ \A d \in Document, path \in Seq(Name) : Exclude(fields)[d][path] \in Document
<1> DEFINE X == Seq(Name)
           Body(d, x, h) == Excluded(d, x, fields, h)
           Equation(h) == h = [d \in Document |-> [x \in X |-> Body(d, x, h)]]
           F == {f \in [Document -> [X -> Document]] : \A d \in Document : KeepsDepth(d, f, X)}
           step == [f \in F |-> [d \in Document |-> [x \in X |-> Body(d, x, f)]]]
           same == [d \in Document |-> [x \in X |-> d]]
           E == Exclude(fields)
<1>1. MaxDepth \in Nat /\ \A n \in 0..MaxDepth : Documents[n] \subseteq Document
  BY FilterAssumption, DocumentsGrow
<1>2. ASSUME NEW h, NEW d \in Document, \A e \in Inside(d) : KeepsDepth(e, h, X)
      PROVE  /\ \A n \in 0..MaxDepth, x \in X :
                   d \in Documents[n] => Body(d, x, h) \in Documents[n]
             /\ \A x \in X : Body(d, x, h) \in Document
  <2>1. \A n \in 0..MaxDepth, x \in X :
           d \in Documents[n] => Body(d, x, h) \in Documents[n]
    BY <1>2, ExcludedKeepsDepth
  <2>2. MaxDepth \in 0..MaxDepth /\ Documents[MaxDepth] = Document
    BY <1>1 DEF Document
  <2> QED
    BY <2>1, <2>2
<1>10. \A f, g, d, x : (d \in Document /\ \A e \in Inside(d) : f[e] = g[e])
                        => Body(d, x, f) = Body(d, x, g)
  BY ExcludedFromInside
<1>11. E = CHOOSE h : Equation(h)
  BY DEF Exclude
<1> HIDE DEF Body, E, X
<1>3. FunctionsOn(Document, F)
  BY DEF FunctionsOn
<1>4. same \in F
  BY <1>1 DEF KeepsDepth
<1>5. ASSUME NEW f \in F
      PROVE  [d \in Document |-> [x \in X |-> Body(d, x, f)]] \in F
  <2> DEFINE g == [d \in Document |-> [x \in X |-> Body(d, x, f)]]
  <2>1. \A d \in Document : \A e \in Inside(d) : KeepsDepth(e, f, X)
    BY DEF Inside
  <2>2. g \in [Document -> [X -> Document]]
    BY <1>2, <2>1
  <2>3. \A d \in Document : KeepsDepth(d, g, X)
    BY <1>2, <2>1 DEF KeepsDepth
  <2> QED
    BY <2>2, <2>3
<1>6. step \in [F -> F]
  <2> HIDE DEF F
  <2> QED
    BY <1>5
<1>7. StepsFromInside(F, step)
  <2> HIDE DEF F
  <2>1. ASSUME NEW f \in F, NEW g \in F, NEW d \in Document, \A e \in Inside(d) : f[e] = g[e]
        PROVE  step[f][d] = step[g][d]
    <3>1. \A x \in X : Body(d, x, f) = Body(d, x, g)
      BY <1>10, <2>1
    <3>2. [x \in X |-> Body(d, x, f)] = [x \in X |-> Body(d, x, g)]
      BY <3>1
    <3> QED
      BY <3>2
  <2> QED
    BY <2>1 DEF StepsFromInside
<1>8. PICK f \in F : step[f] = f
  <2> HIDE DEF F, step, same
  <2> QED
    BY <1>3, <1>4, <1>6, <1>7, DocumentRecursion
<1>9. Equation(f)
  <2>1. step[f] = [d \in Document |-> [x \in X |-> Body(d, x, f)]]
    <3> HIDE DEF F
    <3> QED
      OBVIOUS
  <2> QED
    BY <1>8, <2>1
<1>12. Equation(E)
  <2> HIDE DEF Equation
  <2> QED
    BY <1>9, <1>11
<1>13. \A d \in Document, x \in X : E[d][x] = Body(d, x, E)
  <2>1. \A d \in Document : E[d] = [x \in X |-> Body(d, x, E)]
    BY <1>12
  <2> QED
    BY <2>1, Zenon
<1> DEFINE S == {d \in Document : KeepsDepth(d, E, X)}
<1>14. Document \subseteq S
  <2>1. ASSUME NEW d \in Document, Inside(d) \subseteq S
        PROVE  d \in S
    <3>1. \A e \in Inside(d) : KeepsDepth(e, E, X)
      BY <2>1
    <3>2. \A n \in 0..MaxDepth, x \in X :
             d \in Documents[n] => Body(d, x, E) \in Documents[n]
      BY <1>2, <3>1
    <3>3. KeepsDepth(d, E, X)
      BY <1>13, <3>2 DEF KeepsDepth
    <3> QED
      BY <3>3
  <2> HIDE DEF S
  <2> QED
    BY <2>1, DocumentInduction
<1>15. \A d \in Document, x \in X : E[d][x] \in Document
  <2>1. \A d \in Document : \A e \in Inside(d) : KeepsDepth(e, E, X)
    BY <1>14 DEF Inside
  <2> QED
    BY <1>2, <1>13, <2>1
<1> QED
  BY <1>13, <1>15 DEF E, X, Body

-----------------------------------------------------------------------------
(* Filtering twice *)

\* An include list makes of what it made of a document the same again.
LEMMA IncludedStays ==
    \A d \in Document, node \in Node :
        FilterWithTree[FilterWithTree[d][node]][node] = FilterWithTree[d][node]
<1> DEFINE W == FilterWithTree
           S == {d \in Document : \A node \in Node : W[W[d][node]][node] = W[d][node]}
<1>1. /\ \A d \in Document, node \in Node : W[d][node] = Filtered(d, node, W)
      /\ \A d \in Document, node \in Node : W[d][node] \in Document
  BY FilterWithTreeUnfolds
<1>2. \A node \in Node : W[Null][node] = Null
  BY <1>1, DocumentsHaveKinds DEF Filtered
<1>3. ASSUME NEW d \in Document, Inside(d) \subseteq S, NEW node \in Node
      PROVE  W[W[d][node]][node] = W[d][node]
  <2> DEFINE r == W[d][node]
  <2>1. r \in Document /\ r = Filtered(d, node, W) /\ W[r][node] = Filtered(r, node, W)
    BY <1>1
  <2>2. \A e \in Inside(d), n \in Node : e \in Document /\ W[W[e][n]][n] = W[e][n]
    BY <1>3
  <2>3. \A k : ChildOrWildcard(node, k) \in Node
    BY NodesBelow
  <2> HIDE DEF W, S
  <2>4. CASE d.kind = "object"
    <3> DEFINE K == KeptKeys(d.at, node, W)
               g == FilteredKeys(d.at, node, W)
    <3>1. r = IF K = {} THEN Null ELSE Object(g)
      BY <2>1, <2>4, FilterObjectByKeys DEF Filtered
    <3>2. CASE K = {}
      BY <1>2, <3>1, <3>2
    <3>3. CASE K # {}
      <4>1. K \subseteq Keys(d.at) /\ K \in SUBSET Key
        BY DEF KeptKeys, Keys
      <4>2. \A k \in K : d.at[k] \in Inside(d) /\ d.at[k] \in Document
        BY <2>2, <2>4, <4>1, InsideOfDocument
      <4>3. \A k \in K : g[k] = FilteredKey(d.at, node, W, k) /\ g[k] \in Document
        <5>1. \A k \in K : g[k] = FilteredKey(d.at, node, W, k)
          BY DEF FilteredKeys
        <5>2. \A k \in K : FilteredKey(d.at, node, W, k) \in Document
          BY <1>1, <2>3, <4>2 DEF FilteredKey
        <5> QED
          BY <5>1, <5>2
      <4>4. g \in [K -> Document]
        BY <4>3 DEF FilteredKeys
      <4>5. r = Object(g)
        BY <3>1, <3>3
      <4> HIDE DEF g, r
      <4>6. Keys(r.at) = K /\ \A k \in K : r.at[k] = g[k]
        BY <4>1, <4>4, <4>5, KeysOfObject
      <4>7. ASSUME NEW k \in K
            PROVE  FilteredKey(r.at, node, W, k) = FilteredKey(d.at, node, W, k)
        <5>1. CASE IsTerminal(ChildOrWildcard(node, k))
          BY <4>3, <4>6, <5>1 DEF FilteredKey
        <5>2. CASE ~IsTerminal(ChildOrWildcard(node, k))
          <6> DEFINE below == ChildOrWildcard(node, k)
          <6>1. r.at[k] = W[d.at[k]][below] /\ FilteredKey(d.at, node, W, k) = W[d.at[k]][below]
            BY <4>3, <4>6, <5>2 DEF FilteredKey
          <6>2. FilteredKey(r.at, node, W, k) = W[r.at[k]][below]
            BY <5>2 DEF FilteredKey
          <6>3. W[W[d.at[k]][below]][below] = W[d.at[k]][below]
            BY <2>2, <2>3, <4>2
          <6> QED
            BY <6>1, <6>2, <6>3
        <5> QED
          BY <5>1, <5>2
      <4>8. KeptKeys(r.at, node, W) = K
        BY <4>6, <4>7 DEF KeptKeys
      <4>9. FilteredKeys(r.at, node, W) = g
        BY <4>7, <4>8 DEF FilteredKeys, g
      <4>10. r.kind = "object"
        BY <4>5, DocumentsHaveKinds
      <4>11. Filtered(r, node, W) = Object(g)
        BY <3>3, <4>8, <4>9, <4>10, FilterObjectByKeys DEF Filtered
      <4> QED
        BY <2>1, <4>5, <4>11 DEF r
    <3> QED
      BY <3>2, <3>3
  <2>5. CASE d.kind = "array"
    <3> DEFINE below == ChildOrWildcard(node, "[]")
               items == FilteredItems(d.items, node, W)
               t     == Without(items, Null)
    <3>1. r = IF below = {} THEN Null ELSE Array(t)
      BY <2>1, <2>5, FilterArrayByItems DEF Filtered
    <3>2. CASE below = {}
      BY <1>2, <3>1, <3>2
    <3>3. CASE below # {}
      <4> DEFINE Q == {e \in Document : W[e][below] = e}
      <4>1. d.items \in Seq(Inside(d))
        BY <2>5, InsideOfDocument
      <4>2. \A i \in DOMAIN d.items : W[d.items[i]][below] \in Q
        BY <1>1, <2>2, <2>3, <4>1
      <4>3. items \in Seq(Q)
        <5> HIDE DEF Q
        <5> QED
          BY <4>1, <4>2 DEF FilteredItems
      <4>4. t \in Seq(Q \ {Null})
        <5> HIDE DEF Q, items
        <5> QED
          BY <4>3, WithoutLeavesOthers
      <4> HIDE DEF items, t, r
      <4>5. \A i \in DOMAIN t : W[t[i]][below] = t[i]
        <5>1. \A i \in DOMAIN t : t[i] \in Q
          <6> HIDE DEF Q
          <6> QED
            BY <4>4
        <5> QED
          BY <5>1
      <4>6. FilteredItems(t, node, W) = t
        <5>1. t = [i \in DOMAIN t |-> t[i]]
          BY <4>4
        <5> QED
          BY <4>5, <5>1 DEF FilteredItems
      <4>7. Without(t, Null) = t
        <5> HIDE DEF Q
        <5> QED
          BY <4>4, WithoutLeavesOthers
      <4>8. r = Array(t) /\ r.kind = "array" /\ r.items = t
        BY <3>1, <3>3, DocumentsHaveKinds
      <4>9. Filtered(r, node, W) = Array(t)
        BY <3>3, <4>6, <4>7, <4>8, FilterArrayByItems DEF Filtered
      <4> QED
        BY <2>1, <4>8, <4>9 DEF r
    <3> QED
      BY <3>2, <3>3
  <2>6. CASE d.kind \notin {"object", "array"}
    <3>1. r = IF IsTerminal(node) THEN d ELSE Null
      BY <2>1, <2>6 DEF Filtered
    <3> QED
      BY <1>2, <3>1
  <2> QED
    BY <2>4, <2>5, <2>6
<1>4. Document \subseteq S
  <2>1. \A d \in Document : Inside(d) \subseteq S => d \in S
    BY <1>3
  <2> HIDE DEF S
  <2> QED
    BY <2>1, DocumentInduction
<1> QED
  BY <1>4

\* So does an exclude list.
LEMMA RestStays ==
    ASSUME NEW fields
    PROVE  \A d \in Document, path \in Seq(Name) :
              Exclude(fields)[Exclude(fields)[d][path]][path] = Exclude(fields)[d][path]
<1> DEFINE E == Exclude(fields)
           S == {d \in Document : \A path \in Seq(Name) : E[E[d][path]][path] = E[d][path]}
<1>1. /\ \A d \in Document, path \in Seq(Name) : E[d][path] = Excluded(d, path, fields, E)
      /\ \A d \in Document, path \in Seq(Name) : E[d][path] \in Document
  BY ExcludeUnfolds
<1>2. ASSUME NEW d \in Document, Inside(d) \subseteq S, NEW path \in Seq(Name)
      PROVE  E[E[d][path]][path] = E[d][path]
  <2> DEFINE r == E[d][path]
  <2>1. r \in Document /\ r = Excluded(d, path, fields, E) /\ E[r][path] = Excluded(r, path, fields, E)
    BY <1>1
  <2>2. \A e \in Inside(d), p \in Seq(Name) : e \in Document /\ E[E[e][p]][p] = E[e][p]
    BY <1>2
  <2> HIDE DEF E, S
  <2>3. CASE d.kind = "object"
    <3> DEFINE K == Kept(fields, d.at, path)
               g == [k \in K |-> E[d.at[k]][path \o Split[k]]]
    <3>1. r = Object(g)
      BY <2>1, <2>3, Zenon DEF Excluded
    <3>2. K \subseteq Keys(d.at) /\ K \in SUBSET Key
      BY DEF Kept, Keys
    <3>3. \A k \in K : /\ d.at[k] \in Inside(d) /\ d.at[k] \in Document
                       /\ path \o Split[k] \in Seq(Name)
      BY <2>2, <2>3, <3>2, InsideOfDocument, PathsBelow
    <3>4. g \in [K -> Document]
      BY <1>1, <3>3
    <3>5. \A k \in K : g[k] = E[d.at[k]][path \o Split[k]]
      OBVIOUS
    <3> HIDE DEF g, r
    <3>6. r.kind = "object" /\ Keys(r.at) = K /\ \A k \in K : r.at[k] = g[k]
      BY <3>1, <3>2, <3>4, DocumentsHaveKinds, KeysOfObject
    <3>7. Kept(fields, r.at, path) = K
      BY <3>6 DEF Kept
    <3>8. \A k \in K : E[r.at[k]][path \o Split[k]] = g[k]
      <4> TAKE k \in K
      <4> DEFINE p == path \o Split[k]
      <4>1. d.at[k] \in Inside(d) /\ p \in Seq(Name)
        BY <3>3
      <4> HIDE DEF p
      <4>2. E[E[d.at[k]][p]][p] = E[d.at[k]][p]
        BY <2>2, <4>1
      <4> QED
        BY <3>5, <3>6, <4>2 DEF p
    <3>9. Excluded(r, path, fields, E) = Object(g)
      <4>1. g = [k \in K |-> g[k]]
        BY <3>4
      <4>2. [k \in K |-> E[r.at[k]][path \o Split[k]]] = g
        <5> DEFINE h(k) == E[r.at[k]][path \o Split[k]]
        <5>1. \A k \in K : h(k) = g[k]
          BY <3>8, Zenon
        <5> HIDE DEF K, h
        <5>2. [k \in K |-> h(k)] = g
          BY <4>1, <5>1
        <5> QED
          BY <5>2, Zenon DEF h
      <4> QED
        BY <3>6, <3>7, <4>2, Zenon DEF Excluded
    <3> QED
      BY <2>1, <3>1, <3>9, Zenon DEF r
  <2>4. CASE d.kind = "array"
    <3> DEFINE at(i) == E[d.items[i]][path]
               D == DOMAIN d.items
               s == [i \in D |-> at(i)]
    <3>1. d.items \in Seq(Inside(d))
      BY <2>4, InsideOfDocument
    <3>2. r = Array(s)
      BY <2>1, <2>4, Zenon DEF Excluded
    <3>3. \A i \in D : d.items[i] \in Inside(d)
      BY <3>1
    <3>4. \A i \in D : E[at(i)][path] = at(i)
      BY <2>2, <3>3, Zenon
    <3> HIDE DEF D, at, r
    <3>5. DOMAIN s = D /\ [i \in D |-> E[s[i]][path]] = s
      BY <3>4
    <3> HIDE DEF s
    <3>6. r.kind = "array" /\ r.items = s
      BY <3>2, DocumentsHaveKinds
    <3>7. Excluded(r, path, fields, E) = Array(s)
      <4>1. Excluded(r, path, fields, E) = Array([i \in DOMAIN r.items |-> E[r.items[i]][path]])
        BY <3>6 DEF Excluded
      <4> QED
        BY <3>5, <3>6, <4>1, Zenon
    <3> QED
      BY <2>1, <3>2, <3>7, Zenon DEF r
  <2>5. CASE d.kind \notin {"object", "array"}
    BY <2>1, <2>5, Zenon DEF Excluded
  <2> QED
    BY <2>3, <2>4, <2>5
<1>3. Document \subseteq S
  <2>1. \A d \in Document : Inside(d) \subseteq S => d \in S
    BY <1>2
  <2> HIDE DEF S
  <2> QED
    BY <2>1, DocumentInduction
<1> QED
  BY <1>3

-----------------------------------------------------------------------------
(* The filter of one response *)

\* The result is what Apply makes of the document.
Inv ==
    /\ data \in Docs /\ filter \in Filters
    /\ result \in {NoResult, Apply(data, filter)}

\* This is so in every state.
LEMMA AlwaysApplied ==
    Spec => []Inv
<1>1. Init => Inv
  BY DEF Init, Inv
<1>2. Inv /\ [Next]_vars => Inv'
  BY DEF Inv, Next, ApplyFilter, vars
<1> QED
  BY <1>1, <1>2, PTL DEF Spec

\* The documents, nodes and texts that Apply works on.
LEMMA FilterTypes ==
    ASSUME Inv
    PROVE  /\ data \in Document
           /\ filter.fields \in SUBSET Seq(Part)
           /\ BuildIncludeTree(filter.fields) \in Node
           /\ <<>> \in Seq(Name)
<1>1. data \in Document /\ filter.fields \in SUBSET Seq(Part)
  <2>1. Docs \subseteq Document /\ \A f \in Filters : f.fields \subseteq Seq(Part)
    BY FilterAssumption
  <2> QED
    BY <2>1 DEF Inv
<1>2. ASSUME NEW f \in Seq(Part)
      PROVE  ParsePathPattern(f) \in Seq(Part)
  <2>1. Without(f, ".") \in Seq(Part \ {"."})
    BY WithoutLeavesOthers
  <2>2. Without(f, ".") \in Seq(Part)
    BY <2>1, SeqMonotonic
  <2> QED
    BY <2>2 DEF ParsePathPattern
<1>3. BuildIncludeTree(filter.fields) \in Node
  BY <1>1, <1>2 DEF BuildIncludeTree, Node
<1> QED
  BY <1>1, <1>3

\* A response that was filtered is not changed by the same filter.
THEOREM FilteringTwiceIsFilteringOnce ==
    Spec => []FilteredStays
<1>1. Inv => FilteredStays
  <2> SUFFICES ASSUME Inv, result # NoResult
               PROVE  Apply(result, filter) = result
    BY DEF FilteredStays
  <2>1. result = Apply(data, filter)
    BY DEF Inv
  <2>2. CASE filter.type = "include_fields"
    BY <2>1, <2>2, FilterTypes, IncludedStays DEF Apply
  <2>3. CASE filter.type # "include_fields"
    BY <2>1, <2>3, FilterTypes, RestStays, ExcludeRecursiveIs DEF Apply
  <2> QED
    BY <2>2, <2>3
<1> QED
  BY <1>1, AlwaysApplied, PTL

-----------------------------------------------------------------------------
(* The values of a document and where they are *)

Leaf == {<<path, v>> : path \in Path, v \in Atom}

LeavesFrom(d, Inner) ==
    CASE d.kind = "object" -> UNION {Under(k, Inner[d.at[k]]) : k \in Keys(d.at)}
      [] d.kind = "array"  -> UNION {Under("[]", Inner[d.items[i]]) : i \in DOMAIN d.items}
      [] d.kind = "value"  -> {<<<<>>, d.is>>}
      [] OTHER             -> {}

\* The leaves below a key or an array have paths that are one longer.
LEMMA UnderIsLeaves ==
    ASSUME NEW part \in Key \union {"[]"}, NEW L \in SUBSET Leaf
    PROVE  /\ Under(part, L) \in SUBSET Leaf
           /\ \A l \in Under(part, L) :
                \E m \in L : l = <<<<part>> \o m[1], m[2]>> /\ m[1] \in Path
           /\ \A m \in L : <<<<part>> \o m[1], m[2]>> \in Under(part, L)
<1>1. \A m \in L : m[1] \in Path /\ m[2] \in Atom
  BY DEF Leaf
<1>2. \A p \in Path : <<part>> \o p \in Path
  <2> TAKE p \in Path
  <2>1. <<part>> \in Path /\ p \in Path
    BY DEF Path
  <2> QED
    BY <2>1, ConcatProperties DEF Path
<1>3. \A m \in L : <<<<part>> \o m[1], m[2]>> \in Leaf
  <2>1. \A p \in Path, v \in Atom : <<p, v>> \in Leaf
    BY DEF Leaf
  <2> QED
    BY <1>1, <1>2, <2>1
<1>4. \A l \in Under(part, L) : \E m \in L : l = <<<<part>> \o m[1], m[2]>>
  BY DEF Under
<1>5. \A m \in L : <<<<part>> \o m[1], m[2]>> \in Under(part, L)
  BY DEF Under
<1>6. Under(part, L) \in SUBSET Leaf
  <2> SUFFICES ASSUME NEW l \in Under(part, L)
               PROVE  l \in Leaf
    OBVIOUS
  <2> QED
    BY <1>3, <1>4
<1> QED
  BY <1>1, <1>4, <1>5, <1>6

\* Leaves is well defined.
LEMMA LeavesUnfold ==
    /\ \A d \in Document : Leaves[d] = LeavesFrom(d, Leaves)
    /\ \A d \in Document : Leaves[d] \in SUBSET Leaf
<1> DEFINE Equation(h) == h = [d \in Document |-> LeavesFrom(d, h)]
           F == [Document -> SUBSET Leaf]
           step == [f \in F |-> [d \in Document |-> LeavesFrom(d, f)]]
           none == [d \in Document |-> {}]
<1>1. ASSUME NEW h, NEW d \in Document, \A e \in Inside(d) : h[e] \in SUBSET Leaf
      PROVE  LeavesFrom(d, h) \in SUBSET Leaf
  <2>1. CASE d.kind = "object"
    <3>1. \A k \in Keys(d.at) : Under(k, h[d.at[k]]) \in SUBSET Leaf
      BY <1>1, <2>1, InsideOfDocument, UnderIsLeaves DEF Keys
    <3> QED
      BY <2>1, <3>1 DEF LeavesFrom
  <2>2. CASE d.kind = "array"
    <3>1. d.items \in Seq(Inside(d))
      BY <2>2, InsideOfDocument
    <3>2. \A i \in DOMAIN d.items : h[d.items[i]] \in SUBSET Leaf
      BY <1>1, <3>1
    <3>3. \A i \in DOMAIN d.items : Under("[]", h[d.items[i]]) \in SUBSET Leaf
      BY <3>2, UnderIsLeaves
    <3> QED
      BY <2>2, <3>3 DEF LeavesFrom
  <2>3. CASE d.kind = "value"
    <3>1. Shape(d, Document) /\ d # Null
      BY <2>3, ShapeOfDocument, DocumentsHaveKinds
    <3>2. d.is \in Atom /\ <<>> \in Path
      BY <2>3, <3>1 DEF Shape, Path
    <3>3. <<<<>>, d.is>> \in Leaf
      BY <3>2 DEF Leaf
    <3> QED
      BY <2>3, <3>3 DEF LeavesFrom
  <2>4. CASE d.kind \notin {"object", "array", "value"}
    BY <2>4 DEF LeavesFrom
  <2> QED
    BY <2>1, <2>2, <2>3, <2>4
<1>2. ASSUME NEW f, NEW g, NEW d \in Document, \A e \in Inside(d) : f[e] = g[e]
      PROVE  LeavesFrom(d, f) = LeavesFrom(d, g)
  <2>1. CASE d.kind = "object"
    <3>1. \A k \in Keys(d.at) : Under(k, f[d.at[k]]) = Under(k, g[d.at[k]])
      BY <1>2, <2>1, InsideOfDocument
    <3> QED
      BY <2>1, <3>1 DEF LeavesFrom
  <2>2. CASE d.kind = "array"
    <3>1. d.items \in Seq(Inside(d))
      BY <2>2, InsideOfDocument
    <3>2. \A i \in DOMAIN d.items : Under("[]", f[d.items[i]]) = Under("[]", g[d.items[i]])
      BY <1>2, <3>1
    <3> QED
      BY <2>2, <3>2 DEF LeavesFrom
  <2>3. CASE d.kind \notin {"object", "array"}
    BY <2>3 DEF LeavesFrom
  <2> QED
    BY <2>1, <2>2, <2>3
<1>3. FunctionsOn(Document, F) /\ none \in F
  BY DEF FunctionsOn
<1>4. step \in [F -> F]
  <2>1. ASSUME NEW f \in F
        PROVE  [d \in Document |-> LeavesFrom(d, f)] \in F
    BY <1>1 DEF Inside
  <2> HIDE DEF F
  <2> QED
    BY <2>1
<1>5. StepsFromInside(F, step)
  <2> HIDE DEF F
  <2> QED
    BY <1>2 DEF StepsFromInside
<1>6. PICK f \in F : step[f] = f
  <2> HIDE DEF F, step, none
  <2> QED
    BY <1>3, <1>4, <1>5, DocumentRecursion
<1>7. Equation(f)
  <2>1. step[f] = [d \in Document |-> LeavesFrom(d, f)]
    <3> HIDE DEF F
    <3> QED
      OBVIOUS
  <2> QED
    BY <1>6, <2>1
<1>8. Leaves = CHOOSE h : Equation(h)
  BY DEF Leaves, LeavesFrom
<1>9. Equation(Leaves)
  <2> HIDE DEF Equation
  <2> QED
    BY <1>7, <1>8
<1>10. \A d \in Document : Leaves[d] = LeavesFrom(d, Leaves)
  BY <1>9
<1> DEFINE S == {d \in Document : Leaves[d] \in SUBSET Leaf}
<1>11. Document \subseteq S
  <2>1. \A d \in Document : Inside(d) \subseteq S => d \in S
    BY <1>1, <1>10
  <2> HIDE DEF S
  <2> QED
    BY <2>1, DocumentInduction
<1> QED
  BY <1>10, <1>11

\* What is under the keys of an object, under the items of an array.
LEMMA LeavesOfParts ==
    ASSUME NEW d \in Document
    PROVE  /\ d.kind = "object" =>
                 \A l : l \in Leaves[d] <=> \E k \in Keys(d.at) : l \in Under(k, Leaves[d.at[k]])
           /\ d.kind = "array" =>
                 \A l : l \in Leaves[d] <=>
                        \E i \in DOMAIN d.items : l \in Under("[]", Leaves[d.items[i]])
           /\ d.kind = "value" => Leaves[d] = {<<<<>>, d.is>>}
           /\ d.kind = "null" => Leaves[d] = {}
<1>1. Leaves[d] = LeavesFrom(d, Leaves)
  BY LeavesUnfold
<1>2. d.kind = "object" =>
         Leaves[d] = UNION {Under(k, Leaves[d.at[k]]) : k \in Keys(d.at)}
  BY <1>1 DEF LeavesFrom
<1>3. d.kind = "array" =>
         Leaves[d] = UNION {Under("[]", Leaves[d.items[i]]) : i \in DOMAIN d.items}
  BY <1>1 DEF LeavesFrom
<1>4. d.kind = "value" => Leaves[d] = {<<<<>>, d.is>>}
  BY <1>1 DEF LeavesFrom
<1>5. d.kind = "null" => Leaves[d] = {}
  BY <1>1 DEF LeavesFrom
<1> QED
  BY <1>2, <1>3, <1>4, <1>5, Zenon

-----------------------------------------------------------------------------
(* Parts of a document *)

IsPart(d, r, Inner) ==
    \/ r \in {d, Null}
    \/ /\ r.kind = "object" /\ d.kind = "object"
       /\ Keys(r.at) \subseteq Keys(d.at)
       /\ \A k \in Keys(r.at) : Inner[d.at[k]][r.at[k]]
    \/ /\ r.kind = "array" /\ d.kind = "array"
       /\ \E at \in [DOMAIN r.items -> DOMAIN d.items] :
             /\ Increasing(at)
             /\ \A i \in DOMAIN r.items : Inner[d.items[at[i]]][r.items[i]]

\* PartOf is well defined.
LEMMA PartOfUnfolds ==
    \A d, r \in Document : PartOf[d][r] = IsPart(d, r, PartOf)
<1> DEFINE Equation(h) == h = [d \in Document |-> [r \in Document |-> IsPart(d, r, h)]]
           F == [Document -> [Document -> BOOLEAN]]
           step == [f \in F |-> [d \in Document |-> [r \in Document |-> IsPart(d, r, f)]]]
           none == [d \in Document |-> [r \in Document |-> FALSE]]
<1>1. \A d, r, h : IsPart(d, r, h) \in BOOLEAN
  BY DEF IsPart
<1>2. ASSUME NEW f, NEW g, NEW d \in Document, NEW r \in Document,
             \A e \in Inside(d) : f[e] = g[e]
      PROVE  IsPart(d, r, f) = IsPart(d, r, g)
  <2>1. CASE d.kind = "object"
    <3>1. \A k \in Keys(d.at) : f[d.at[k]] = g[d.at[k]]
      BY <1>2, <2>1, InsideOfDocument
    <3> QED
      BY <2>1, <3>1 DEF IsPart
  <2>2. CASE d.kind = "array"
    <3>1. d.items \in Seq(Inside(d))
      BY <2>2, InsideOfDocument
    <3>2. \A i \in DOMAIN d.items : f[d.items[i]] = g[d.items[i]]
      BY <1>2, <3>1
    <3> QED
      BY <2>2, <3>2 DEF IsPart
  <2>3. CASE d.kind \notin {"object", "array"}
    BY <2>3 DEF IsPart
  <2> QED
    BY <2>1, <2>2, <2>3
<1>3. FunctionsOn(Document, F) /\ none \in F
  BY DEF FunctionsOn
<1>4. step \in [F -> F]
  <2>1. ASSUME NEW f \in F
        PROVE  [d \in Document |-> [r \in Document |-> IsPart(d, r, f)]] \in F
    BY <1>1
  <2> HIDE DEF F
  <2> QED
    BY <2>1
<1>5. StepsFromInside(F, step)
  <2> HIDE DEF F
  <2>1. ASSUME NEW f \in F, NEW g \in F, NEW d \in Document, \A e \in Inside(d) : f[e] = g[e]
        PROVE  step[f][d] = step[g][d]
    <3>1. \A r \in Document : IsPart(d, r, f) = IsPart(d, r, g)
      BY <1>2, <2>1
    <3>2. [r \in Document |-> IsPart(d, r, f)] = [r \in Document |-> IsPart(d, r, g)]
      BY <3>1
    <3> QED
      BY <3>2
  <2> QED
    BY <2>1 DEF StepsFromInside
<1>6. PICK f \in F : step[f] = f
  <2> HIDE DEF F, step, none
  <2> QED
    BY <1>3, <1>4, <1>5, DocumentRecursion
<1>7. Equation(f)
  <2>1. step[f] = [d \in Document |-> [r \in Document |-> IsPart(d, r, f)]]
    <3> HIDE DEF F
    <3> QED
      OBVIOUS
  <2> QED
    BY <1>6, <2>1
<1>8. PartOf = CHOOSE h : Equation(h)
  BY DEF PartOf, IsPart
<1>9. Equation(PartOf)
  <2> HIDE DEF Equation
  <2> QED
    BY <1>7, <1>8
<1>10. \A d \in Document : PartOf[d] = [r \in Document |-> IsPart(d, r, PartOf)]
  BY <1>9
<1> QED
  BY <1>10, Zenon

-----------------------------------------------------------------------------
(* Include lists: what is listed *)

\* What an include list makes of an object and of an array.
LEMMA IncludedParts ==
    ASSUME NEW d \in Document, NEW node \in Node,
           NEW r, r = FilterWithTree[d][node]
    PROVE  /\ r \in Document
           /\ d.kind = "object" =>
                \/ r = Null
                \/ LET K == KeptKeys(d.at, node, FilterWithTree)
                   IN  /\ r.kind = "object" /\ Keys(r.at) = K /\ K \subseteq Keys(d.at)
                       /\ \A k \in K :
                             /\ d.at[k] \in Inside(d)
                             /\ r.at[k] = FilteredKey(d.at, node, FilterWithTree, k)
                             /\ r.at[k] \in Document
           /\ d.kind = "array" =>
                \/ r = Null
                \/ /\ r.kind = "array" /\ r.items \in Seq(Document)
                   /\ \E at \in [DOMAIN r.items -> DOMAIN d.items] :
                         /\ Increasing(at)
                         /\ \A i \in DOMAIN r.items :
                              /\ d.items[at[i]] \in Inside(d)
                              /\ r.items[i] = FilterWithTree[d.items[at[i]]][ChildOrWildcard(node, "[]")]
           /\ d.kind \notin {"object", "array"} =>
                r = Null \/ (r = d /\ IsTerminal(node))
<1> DEFINE W == FilterWithTree
           below(k) == ChildOrWildcard(node, k)
<1>1. /\ r \in Document /\ r = Filtered(d, node, W)
      /\ \A e \in Document, n \in Node : W[e][n] \in Document
      /\ \A k : below(k) \in Node
  BY FilterWithTreeUnfolds, NodesBelow
<1> HIDE DEF W, below
<1>2. CASE d.kind = "object"
  <2> DEFINE K == KeptKeys(d.at, node, W)
             g == FilteredKeys(d.at, node, W)
  <2>1. r = IF K = {} THEN Null ELSE Object(g)
    BY <1>1, <1>2, FilterObjectByKeys DEF Filtered
  <2>2. K \subseteq Keys(d.at) /\ K \in SUBSET Key
    BY DEF KeptKeys, Keys
  <2>3. \A k \in K : d.at[k] \in Inside(d) /\ d.at[k] \in Document
    BY <1>2, <2>2, InsideOfDocument DEF Inside
  <2>4. \A k \in K : g[k] = FilteredKey(d.at, node, W, k)
    BY DEF FilteredKeys
  <2>5. \A k \in K : FilteredKey(d.at, node, W, k) \in Document
    BY <1>1, <2>3 DEF FilteredKey, below
  <2>6. g \in [K -> Document]
    BY <2>4, <2>5 DEF FilteredKeys
  <2>7. CASE K # {}
    <3>1. r = Object(g)
      BY <2>1, <2>7
    <3> HIDE DEF g, K
    <3>2. r.kind = "object" /\ Keys(r.at) = K /\ \A k \in K : r.at[k] = g[k]
      BY <2>2, <2>6, <3>1, DocumentsHaveKinds, KeysOfObject
    <3> QED
      BY <1>1, <1>2, <2>2, <2>3, <2>4, <2>5, <3>2 DEF K, W
  <2> QED
    BY <1>1, <1>2, <2>1, <2>7
<1>3. CASE d.kind = "array"
  <2> DEFINE items == FilteredItems(d.items, node, W)
             t     == Without(items, Null)
  <2>1. r = IF below("[]") = {} THEN Null ELSE Array(t)
    BY <1>1, <1>3, FilterArrayByItems DEF Filtered, below
  <2>2. d.items \in Seq(Inside(d))
    BY <1>3, InsideOfDocument
  <2>3. \A i \in DOMAIN d.items : /\ d.items[i] \in Inside(d)
                                  /\ W[d.items[i]][below("[]")] \in Document
    BY <1>1, <2>2 DEF Inside
  <2>4. /\ items \in Seq(Document) /\ DOMAIN items = DOMAIN d.items
        /\ \A i \in DOMAIN items : items[i] = W[d.items[i]][below("[]")]
    BY <2>2, <2>3 DEF FilteredItems, below
  <2> HIDE DEF items
  <2>5. t \in Seq(Document)
    <3>1. t \in Seq(Document \ {Null})
      BY <2>4, WithoutLeavesOthers
    <3> QED
      BY <3>1, SeqMonotonic
  <2>6. PICK at \in [DOMAIN t -> DOMAIN items] :
           Increasing(at) /\ \A i \in DOMAIN t : t[i] = items[at[i]]
    BY <2>4, WithoutKeepsOrder
  <2> HIDE DEF t
  <2>7. CASE below("[]") # {}
    <3>1. r.kind = "array" /\ r.items = t
      BY <2>1, <2>7, DocumentsHaveKinds
    <3>2. \A i \in DOMAIN t : /\ d.items[at[i]] \in Inside(d)
                              /\ t[i] = W[d.items[at[i]]][below("[]")]
      BY <2>3, <2>4, <2>6
    <3> QED
      BY <1>1, <1>3, <2>4, <2>5, <2>6, <3>1, <3>2 DEF W, below
  <2> QED
    BY <1>1, <1>3, <2>1, <2>7
<1>4. CASE d.kind \notin {"object", "array"}
  <2>1. r = IF IsTerminal(node) THEN d ELSE Null
    BY <1>1, <1>4 DEF Filtered
  <2>2. r = Null \/ (r = d /\ IsTerminal(node))
    BY <2>1 DEF IsTerminal
  <2>3. d.kind # "object" /\ d.kind # "array"
    BY <1>4
  <2> QED
    BY <1>1, <2>2, <2>3, Zenon
<1> QED
  BY <1>2, <1>3, <1>4

\* A document is a part of itself, and nothing is a part of everything.
LEMMA WholeAndNoneAreParts ==
    ASSUME NEW d \in Document
    PROVE  PartOf[d][d] /\ PartOf[d][Null]
<1>1. IsPart(d, d, PartOf) /\ IsPart(d, Null, PartOf)
  BY DEF IsPart
<1> QED
  BY <1>1, PartOfUnfolds, DocumentsHaveKinds

\* An include list adds, moves and changes nothing.
LEMMA IncludedIsPart ==
    \A d \in Document, node \in Node : PartOf[d][FilterWithTree[d][node]]
<1> DEFINE S == {d \in Document : \A node \in Node : PartOf[d][FilterWithTree[d][node]]}
<1>1. ASSUME NEW d \in Document, Inside(d) \subseteq S, NEW node \in Node
      PROVE  PartOf[d][FilterWithTree[d][node]]
  <2> DEFINE W == FilterWithTree
             r == W[d][node]
  <2>1. \A e \in Inside(d), n \in Node : e \in Document /\ PartOf[e][W[e][n]]
    BY <1>1
  <2>2. \A k : ChildOrWildcard(node, k) \in Node
    BY NodesBelow
  <2> HIDE DEF S
  <2>3. r \in Document
    BY IncludedParts
  <2>4. CASE r = Null
    BY <2>4, WholeAndNoneAreParts
  <2>5. CASE d.kind = "object" /\ r # Null
    <3> DEFINE K == KeptKeys(d.at, node, W)
    <3>1. /\ r.kind = "object" /\ Keys(r.at) = K /\ K \subseteq Keys(d.at)
          /\ \A k \in K : /\ d.at[k] \in Inside(d)
                          /\ r.at[k] = FilteredKey(d.at, node, W, k)
                          /\ r.at[k] \in Document
      BY <2>5, IncludedParts
    <3> HIDE DEF K, r
    <3>2. ASSUME NEW k \in K
          PROVE  PartOf[d.at[k]][r.at[k]]
      <4>1. CASE IsTerminal(ChildOrWildcard(node, k))
        <5>1. r.at[k] = d.at[k]
          BY <3>1, <4>1 DEF FilteredKey
        <5> QED
          BY <2>1, <3>1, <5>1, WholeAndNoneAreParts
      <4>2. CASE ~IsTerminal(ChildOrWildcard(node, k))
        <5>1. r.at[k] = W[d.at[k]][ChildOrWildcard(node, k)]
          BY <3>1, <4>2 DEF FilteredKey
        <5> QED
          BY <2>1, <2>2, <3>1, <5>1
      <4> QED
        BY <4>1, <4>2
    <3>3. IsPart(d, r, PartOf)
      BY <2>5, <3>1, <3>2 DEF IsPart
    <3> QED
      BY <2>3, <3>3, PartOfUnfolds DEF r
  <2>6. CASE d.kind = "array" /\ r # Null
    <3>1. r.kind = "array" /\ r.items \in Seq(Document)
      BY <2>6, IncludedParts
    <3>2. PICK at \in [DOMAIN r.items -> DOMAIN d.items] :
             /\ Increasing(at)
             /\ \A i \in DOMAIN r.items :
                   /\ d.items[at[i]] \in Inside(d)
                   /\ r.items[i] = W[d.items[at[i]]][ChildOrWildcard(node, "[]")]
      BY <2>6, IncludedParts, ZenonT(40)
    <3> HIDE DEF r
    <3>3. \A i \in DOMAIN r.items : PartOf[d.items[at[i]]][r.items[i]]
      BY <2>1, <2>2, <3>2
    <3>4. IsPart(d, r, PartOf)
      BY <2>6, <3>1, <3>2, <3>3 DEF IsPart
    <3> QED
      BY <2>3, <3>4, PartOfUnfolds DEF r
  <2>7. CASE d.kind \notin {"object", "array"}
    <3>1. r \in {d, Null}
      BY <2>7, IncludedParts
    <3> QED
      BY <3>1, WholeAndNoneAreParts
  <2> QED
    BY <2>4, <2>5, <2>6, <2>7
<1>2. Document \subseteq S
  <2>1. \A d \in Document : Inside(d) \subseteq S => d \in S
    BY <1>1
  <2> HIDE DEF S
  <2> QED
    BY <2>1, DocumentInduction
<1> QED
  BY <1>2

\* What is left of a field leads to path or to something that contains it.
Leads(p, path) ==
    Len(p) <= Len(path) /\ \A i \in 1..Len(p) : p[i] \in {path[i], "*"}

\* It leads to path itself or to a key on its way, not to items with more in them.
Ends(p, path) == Len(p) = Len(path) \/ (p # <<>> /\ path[Len(p)] # "[]")

\* Part i of path has a name of its own in g, which is like p before it.
OwnName(g, i, p, path) ==
    i <= Len(g) /\ g[i] = path[i] /\ \A j \in 1..(i - 1) : g[j] = p[j]

Free(node, p, path, i) == p[i] = path[i] \/ \A g \in node : ~OwnName(g, i, p, path)

\* Of the fields of a node, p decides about path and keeps it.
Decides(node, p, path) ==
    /\ Leads(p, path) /\ Ends(p, path)
    /\ \A i \in 1..Len(p) : Free(node, p, path, i)

Reaches(node, path) == \E p \in node : Decides(node, p, path)

\* A path with one more part in front.
LEMMA PathInFront ==
    ASSUME NEW k \in Key \union {"[]"}, NEW path \in Path,
           NEW u, u = <<k>> \o path
    PROVE  /\ u \in Path /\ Len(path) \in Nat /\ Len(u) = Len(path) + 1
           /\ u[1] = k /\ \A i \in 1..Len(path) : u[i + 1] = path[i]
<1>1. Len(path) \in Nat
  BY DEF Path
<1>2. <<k>> \in Seq(Key \union {"[]"}) /\ Len(<<k>>) = 1 /\ <<k>>[1] = k
  OBVIOUS
<1>3. /\ u \in Seq(Key \union {"[]"}) /\ Len(u) = 1 + Len(path)
      /\ \A i \in 1..(1 + Len(path)) : u[i] = IF i <= 1 THEN <<k>>[i] ELSE path[i - 1]
  BY <1>2, ConcatProperties DEF Path
<1>4. ASSUME NEW i \in 1..Len(path)
      PROVE  u[i + 1] = path[i]
  <2>1. i + 1 \in 1..(1 + Len(path)) /\ ~(i + 1 <= 1) /\ (i + 1) - 1 = i
    BY <1>1
  <2> QED
    BY <1>3, <2>1
<1>5. u[1] = k
  <2>1. 1 \in 1..(1 + Len(path)) /\ 1 <= 1
    BY <1>1
  <2> QED
    BY <1>2, <1>3, <2>1
<1> QED
  BY <1>1, <1>3, <1>4, <1>5 DEF Path

\* A field without its first part.
LEMMA TailOfField ==
    ASSUME NEW p \in Seq(Part), p # <<>>
    PROVE  /\ Tail(p) \in Seq(Part)
           /\ Len(p) \in Nat /\ Len(Tail(p)) \in Nat /\ Len(p) = Len(Tail(p)) + 1
           /\ \A i \in 1..Len(Tail(p)) : Tail(p)[i] = p[i + 1]
<1>1. Tail(p) \in Seq(Part) /\ Len(Tail(p)) = Len(p) - 1
      /\ \A i \in 1..Len(Tail(p)) : Tail(p)[i] = p[i + 1]
  BY HeadTailProperties
<1>2. Len(p) \in Nat /\ Len(p) # 0
  BY EmptySeq
<1> QED
  BY <1>1, <1>2

\* A part of a field further on is free of others above exactly when it is below.
LEMMA FreeBelow ==
    ASSUME NEW node \in Node, NEW k \in Key \union {"[]"}, NEW path \in Path,
           NEW p \in node, p # <<>>, Len(p) <= Len(path) + 1,
           NEW i \in 1..Len(Tail(p))
    PROVE  Free(node, p, <<k>> \o path, i + 1)
             <=> Free(Child(node, p[1]), Tail(p), path, i)
<1> DEFINE u == <<k>> \o path
           q == Tail(p)
<1>1. /\ Len(path) \in Nat /\ Len(u) = Len(path) + 1 /\ u[1] = k
      /\ \A j \in 1..Len(path) : u[j + 1] = path[j]
  BY PathInFront
<1>2. \A g \in node : g \in Seq(Part)
  BY DEF Node
<1>3. /\ Len(p) \in Nat /\ Len(q) \in Nat /\ Len(p) = Len(q) + 1
      /\ \A j \in 1..Len(q) : q[j] = p[j + 1]
  BY <1>2, TailOfField
<1> HIDE DEF u, q
<1>4. i \in Nat /\ i \in 1..Len(q) /\ i \in 1..Len(path) /\ i + 1 \in 1..Len(p)
  BY <1>1, <1>3 DEF q
<1>5. q[i] = p[i + 1] /\ u[i + 1] = path[i]
  BY <1>1, <1>3, <1>4
<1>6. ASSUME NEW g \in node, g # <<>>, g[1] = p[1]
      PROVE  OwnName(g, i + 1, p, u) <=> OwnName(Tail(g), i, q, path)
  <2> DEFINE h == Tail(g)
  <2>1. /\ Len(g) \in Nat /\ Len(h) \in Nat /\ Len(g) = Len(h) + 1
        /\ \A j \in 1..Len(h) : h[j] = g[j + 1]
    BY <1>2, <1>6, TailOfField
  <2> HIDE DEF h
  <2>2. i + 1 <= Len(g) <=> i <= Len(h)
    BY <1>4, <2>1
  <2>3. i <= Len(h) => h[i] = g[i + 1]
    BY <1>4, <2>1
  <2>4. ASSUME i <= Len(h)
        PROVE  (\A j \in 1..((i + 1) - 1) : g[j] = p[j]) <=> (\A j \in 1..(i - 1) : h[j] = q[j])
    <3>1. \A j \in 1..(i - 1) : h[j] = g[j + 1] /\ q[j] = p[j + 1] /\ j + 1 \in 1..((i + 1) - 1)
      BY <1>3, <1>4, <2>1, <2>4
    <3>2. \A j \in 1..((i + 1) - 1) : j # 1 => j - 1 \in 1..(i - 1) /\ (j - 1) + 1 = j
      BY <1>4
    <3>3. (\A j \in 1..((i + 1) - 1) : g[j] = p[j]) => (\A j \in 1..(i - 1) : h[j] = q[j])
      BY <3>1
    <3>4. ASSUME \A j \in 1..(i - 1) : h[j] = q[j], NEW j \in 1..((i + 1) - 1)
          PROVE  g[j] = p[j]
      <4>1. CASE j = 1
        BY <1>6, <4>1
      <4>2. CASE j # 1
        <5>1. j - 1 \in 1..(i - 1) /\ (j - 1) + 1 = j
          BY <3>2, <4>2
        <5>2. h[j - 1] = g[(j - 1) + 1] /\ q[j - 1] = p[(j - 1) + 1]
          BY <3>1, <5>1
        <5> QED
          BY <3>4, <5>1, <5>2
      <4> QED
        BY <4>1, <4>2
    <3> QED
      BY <3>3, <3>4
  <2> QED
    BY <1>5, <2>2, <2>3, <2>4 DEF OwnName, h
<1>7. ASSUME NEW g \in node, OwnName(g, i + 1, p, u)
      PROVE  g # <<>> /\ g[1] = p[1]
  <2>1. g \in Seq(Part) /\ i + 1 <= Len(g) /\ 1 \in 1..((i + 1) - 1)
    BY <1>2, <1>4, <1>7 DEF OwnName
  <2>2. g # <<>>
    BY <1>4, <2>1
  <2> QED
    BY <1>7, <2>1, <2>2 DEF OwnName
<1>8. (\A g \in node : ~OwnName(g, i + 1, p, u))
        <=> (\A h \in Child(node, p[1]) : ~OwnName(h, i, q, path))
  <2>1. \A h : h \in Child(node, p[1]) <=> \E g \in node : g # <<>> /\ g[1] = p[1] /\ h = Tail(g)
    BY DEF Child
  <2> QED
    BY <1>6, <1>7, <2>1
<1> QED
  BY <1>5, <1>8 DEF Free, u, q

\* A field decides above when what is left of it decides below, or nothing is
\* left of it and the part before is a key.
LEMMA DecidesBelow ==
    ASSUME NEW node \in Node, NEW k \in Key \union {"[]"}, NEW path \in Path,
           NEW p \in node, p # <<>>, p[1] \in {k, "*"}
    PROVE  Decides(node, p, <<k>> \o path) <=>
              /\ Free(node, p, <<k>> \o path, 1)
              /\ \/ Decides(Child(node, p[1]), Tail(p), path)
                 \/ k # "[]" /\ Tail(p) = <<>>
<1> DEFINE u == <<k>> \o path
           q == Tail(p)
           n == Child(node, p[1])
<1>1. /\ Len(path) \in Nat /\ Len(u) = Len(path) + 1 /\ u[1] = k
      /\ \A j \in 1..Len(path) : u[j + 1] = path[j]
  BY PathInFront
<1>2. /\ q \in Seq(Part) /\ Len(p) \in Nat /\ Len(q) \in Nat /\ Len(p) = Len(q) + 1
      /\ \A j \in 1..Len(q) : q[j] = p[j + 1]
  BY TailOfField DEF Node
<1>3. Len(q) <= Len(path) =>
         \A i \in 1..Len(q) : Free(node, p, u, i + 1) <=> Free(n, q, path, i)
  BY <1>1, <1>2, FreeBelow
<1> HIDE DEF u, q, n
<1>4. Leads(p, u) <=> Leads(q, path)
  <2>1. Len(p) <= Len(u) <=> Len(q) <= Len(path)
    BY <1>1, <1>2
  <2>2. ASSUME Len(q) <= Len(path)
        PROVE  (\A i \in 1..Len(p) : p[i] \in {u[i], "*"})
                 <=> (\A i \in 1..Len(q) : q[i] \in {path[i], "*"})
    <3>1. \A i \in 1..Len(q) : q[i] = p[i + 1] /\ path[i] = u[i + 1] /\ i + 1 \in 1..Len(p)
      BY <1>1, <1>2, <2>2
    <3>2. \A i \in 1..Len(p) : i # 1 => i - 1 \in 1..Len(q) /\ (i - 1) + 1 = i
      BY <1>2
    <3>3. p[1] \in {u[1], "*"}
      BY <1>1
    <3>4. ASSUME \A i \in 1..Len(q) : q[i] \in {path[i], "*"}, NEW i \in 1..Len(p), i # 1
          PROVE  p[i] \in {u[i], "*"}
      <4>1. i - 1 \in 1..Len(q) /\ (i - 1) + 1 = i
        BY <3>2, <3>4
      <4>2. q[i - 1] = p[i] /\ path[i - 1] = u[i]
        BY <3>1, <4>1
      <4> QED
        BY <3>4, <4>1, <4>2
    <3>5. (\A i \in 1..Len(p) : p[i] \in {u[i], "*"})
            => (\A i \in 1..Len(q) : q[i] \in {path[i], "*"})
      BY <3>1
    <3> QED
      BY <3>3, <3>4, <3>5
  <2> QED
    BY <2>1, <2>2 DEF Leads
<1>5. ASSUME Len(q) <= Len(path)
      PROVE  Ends(p, u) <=> Ends(q, path) \/ (k # "[]" /\ q = <<>>)
  <2>1. Len(p) = Len(u) <=> Len(q) = Len(path)
    BY <1>1, <1>2
  <2>2. CASE q = <<>>
    <3>1. Len(q) = 0 /\ Len(p) = 1
      BY <1>2, <2>2
    <3>2. u[Len(p)] = k
      BY <1>1, <3>1
    <3> QED
      BY <2>1, <2>2, <3>2 DEF Ends
  <2>3. CASE q # <<>>
    <3>1. Len(q) \in 1..Len(path)
      BY <1>1, <1>2, <1>5, <2>3, EmptySeq
    <3>2. u[Len(p)] = path[Len(q)]
      BY <1>1, <1>2, <3>1
    <3> QED
      BY <2>1, <2>3, <3>2 DEF Ends
  <2> QED
    BY <2>2, <2>3
<1>6. ASSUME Len(q) <= Len(path)
      PROVE  (\A i \in 1..Len(p) : Free(node, p, u, i))
               <=> Free(node, p, u, 1) /\ \A i \in 1..Len(q) : Free(n, q, path, i)
  <2>1. \A i \in 1..Len(p) : i # 1 => i - 1 \in 1..Len(q) /\ (i - 1) + 1 = i
    BY <1>2
  <2>2. 1 \in 1..Len(p) /\ \A i \in 1..Len(q) : i + 1 \in 1..Len(p)
    BY <1>2
  <2>3. \A i \in 1..Len(q) : Free(node, p, u, i + 1) <=> Free(n, q, path, i)
    BY <1>3, <1>6
  <2>4. ASSUME Free(node, p, u, 1), \A i \in 1..Len(q) : Free(n, q, path, i),
               NEW i \in 1..Len(p), i # 1
        PROVE  Free(node, p, u, i)
    <3>1. i - 1 \in 1..Len(q) /\ (i - 1) + 1 = i
      BY <2>1, <2>4
    <3>2. Free(node, p, u, (i - 1) + 1)
      BY <2>3, <2>4, <3>1
    <3> QED
      BY <3>1, <3>2
  <2> QED
    BY <2>2, <2>3, <2>4
<1>7. q = <<>> => Leads(q, path) /\ \A i \in 1..Len(q) : Free(n, q, path, i)
  BY <1>1 DEF Leads
<1>8. Leads(q, path) => Len(q) <= Len(path)
  BY DEF Leads
<1>9. Decides(node, p, u) <=>
         /\ Leads(p, u) /\ Ends(p, u)
         /\ \A i \in 1..Len(p) : Free(node, p, u, i)
  BY DEF Decides
<1>10. Decides(n, q, path) <=>
         /\ Leads(q, path) /\ Ends(q, path)
         /\ \A i \in 1..Len(q) : Free(n, q, path, i)
  BY DEF Decides
<1>11. Decides(node, p, u) <=>
          Free(node, p, u, 1) /\ (Decides(n, q, path) \/ (k # "[]" /\ q = <<>>))
  BY <1>4, <1>5, <1>6, <1>7, <1>8, <1>9, <1>10, Zenon
<1> QED
  BY <1>11 DEF u, q, n

\* What a node reaches through a key or an array is what the node below reaches,
\* and, through a key, everything when a field ends there.
LEMMA ReachesBelow ==
    ASSUME NEW node \in Node, NEW k \in Key \union {"[]"}, NEW path \in Path
    PROVE  Reaches(node, <<k>> \o path) <=>
              \/ Reaches(ChildOrWildcard(node, k), path)
              \/ k # "[]" /\ IsTerminal(ChildOrWildcard(node, k))
<1> DEFINE u == <<k>> \o path
           b == ChildOrWildcard(node, k)
           part == IF Child(node, k) # {} THEN k ELSE "*"
<1>1. Len(path) \in Nat /\ Len(u) = Len(path) + 1 /\ u[1] = k
  BY PathInFront
<1>2. b = Child(node, part)
  BY DEF ChildOrWildcard
<1>3. ASSUME NEW p \in node
      PROVE  p \in Seq(Part) /\ (p # <<>> => 1 <= Len(p) /\ 1 \in 1..Len(p))
  BY <1>3, EmptySeq DEF Node
<1>4. ASSUME NEW p \in node, p # <<>>, p[1] \in {k, "*"}
      PROVE  Free(node, p, u, 1) <=> p[1] = part
  <2>1. \A g \in node : OwnName(g, 1, p, u) <=> g # <<>> /\ g[1] = k
    <3> TAKE g \in node
    <3>1. 1 <= Len(g) <=> g # <<>>
      BY <1>3, EmptySeq
    <3>2. \A j \in 1..(1 - 1) : g[j] = p[j]
      OBVIOUS
    <3> QED
      BY <1>1, <3>1, <3>2 DEF OwnName
  <2>2. Child(node, k) = {} <=> \A g \in node : ~(g # <<>> /\ g[1] = k)
    BY DEF Child
  <2>3. p[1] = k => Child(node, k) # {}
    BY <1>4, <2>2
  <2>4. Free(node, p, u, 1) <=> p[1] = k \/ Child(node, k) = {}
    BY <1>1, <2>1, <2>2 DEF Free
  <2> QED
    BY <1>4, <2>3, <2>4
<1> HIDE DEF u, part, b
<1>5. ASSUME NEW p \in node, Decides(node, p, u)
      PROVE  Reaches(b, path) \/ (k # "[]" /\ IsTerminal(b))
  <2>1. p # <<>>
    BY <1>1, <1>5 DEF Decides, Ends
  <2>2. p[1] \in {k, "*"}
    BY <1>1, <1>3, <1>5, <2>1 DEF Decides, Leads
  <2>3. /\ Free(node, p, u, 1)
        /\ Decides(Child(node, p[1]), Tail(p), path) \/ (k # "[]" /\ Tail(p) = <<>>)
    BY <1>5, <2>1, <2>2, DecidesBelow DEF u
  <2>4. p[1] = part /\ Tail(p) \in b
    BY <1>2, <1>4, <2>1, <2>2, <2>3 DEF Child
  <2> QED
    BY <1>2, <2>3, <2>4 DEF Reaches, IsTerminal
<1>6. ASSUME NEW q \in b, Decides(b, q, path) \/ (k # "[]" /\ q = <<>>)
      PROVE  Reaches(node, u)
  <2>1. PICK p \in node : p # <<>> /\ p[1] = part /\ q = Tail(p)
    BY <1>2 DEF Child
  <2>2. p[1] \in {k, "*"}
    BY <2>1 DEF part
  <2>3. Free(node, p, u, 1)
    BY <1>4, <2>1, <2>2
  <2>4. Decides(node, p, u)
    BY <1>2, <1>6, <2>1, <2>2, <2>3, DecidesBelow DEF u
  <2> QED
    BY <2>4 DEF Reaches
<1>7. Reaches(node, u) <=> Reaches(b, path) \/ (k # "[]" /\ IsTerminal(b))
  BY <1>5, <1>6 DEF Reaches, IsTerminal
<1> QED
  BY <1>7 DEF u, b

\* No node below, nothing reached.
LEMMA NothingReached ==
    \A path : ~Reaches({}, path) /\ ~IsTerminal({})
BY DEF Reaches, IsTerminal

\* Of the leaves under a key or "[]" those that a node reaches.
LEMMA ReachedUnder ==
    ASSUME NEW node \in Node, NEW part \in Key \union {"[]"},
           NEW L \in SUBSET Leaf, NEW M \in SUBSET Leaf,
           \A m : m \in M <=> m \in L /\ Reaches(node, <<part>> \o m[1])
    PROVE  \A l : l \in Under(part, M) <=> l \in Under(part, L) /\ Reaches(node, l[1])
<1> TAKE l
<1>1. ASSUME l \in Under(part, M)
      PROVE  l \in Under(part, L) /\ Reaches(node, l[1])
  <2>1. PICK m \in M : l = <<<<part>> \o m[1], m[2]>>
    BY <1>1, UnderIsLeaves
  <2>2. l[1] = <<part>> \o m[1]
    BY <2>1
  <2>3. l \in Under(part, L)
    BY <2>1, UnderIsLeaves
  <2> QED
    BY <2>2, <2>3
<1>2. ASSUME l \in Under(part, L), Reaches(node, l[1])
      PROVE  l \in Under(part, M)
  <2>0. \A x \in Under(part, L) : \E m \in L : x = <<<<part>> \o m[1], m[2]>>
    BY DEF Under
  <2>1. PICK m \in L : l = <<<<part>> \o m[1], m[2]>>
    BY <1>2, <2>0
  <2>2. l[1] = <<part>> \o m[1]
    BY <2>1
  <2>3. m \in M
    BY <1>2, <2>2
  <2> QED
    BY <2>1, <2>3, UnderIsLeaves
<1> QED
  BY <1>1, <1>2

\* An include list keeps the values that the fields of the tree reach.
LEMMA IncludedIsReached ==
    \A d \in Document, node \in Node : \A l :
        l \in Leaves[FilterWithTree[d][node]] <=> l \in Leaves[d] /\ Reaches(node, l[1])
<1> DEFINE Exact(r, d, node) ==
               \A l : l \in Leaves[r] <=> l \in Leaves[d] /\ Reaches(node, l[1])
           W == FilterWithTree
           S == {d \in Document : \A node \in Node : Exact(W[d][node], d, node)}
<1>1. \A d \in Document : Leaves[d] \in SUBSET Leaf
  BY LeavesUnfold
<1>2. \A d \in Document, node \in Node : W[d][node] = Filtered(d, node, W) /\ W[d][node] \in Document
  BY FilterWithTreeUnfolds
<1>3. Null \in Document /\ Leaves[Null] = {}
  BY LeavesOfParts, DocumentsHaveKinds
<1>4. ASSUME NEW d \in Document, Inside(d) \subseteq S, NEW node \in Node
      PROVE  Exact(W[d][node], d, node)
  <2> DEFINE r == W[d][node]
             below(k) == ChildOrWildcard(node, k)
  <2>1. \A e \in Inside(d), n \in Node : e \in Document /\ Exact(W[e][n], e, n)
    BY <1>4
  <2>2. \A k : below(k) \in Node
    BY NodesBelow
  <2>3. \A k \in Key \union {"[]"}, path \in Path :
           Reaches(node, <<k>> \o path) <=>
              Reaches(below(k), path) \/ (k # "[]" /\ IsTerminal(below(k)))
    BY ReachesBelow
  <2>4. r = Filtered(d, node, W) /\ r \in Document
    BY <1>2
  <2> HIDE DEF S, W, r, below
  <2>5. CASE d.kind = "object"
    <3> DEFINE K == KeptKeys(d.at, node, W)
               F(k) == FilteredKey(d.at, node, W, k)
    <3>1. /\ Keys(d.at) \subseteq Key
          /\ \A k \in Keys(d.at) : d.at[k] \in Inside(d) /\ d.at[k] \in Document
      BY <2>1, <2>5, InsideOfDocument DEF Keys
    <3>2. ASSUME NEW k \in Keys(d.at)
          PROVE  /\ F(k) \in Document
                 /\ \A m : m \in Leaves[F(k)] <=>
                       m \in Leaves[d.at[k]] /\ Reaches(node, <<k>> \o m[1])
      <4>1. k \in Key /\ k # "[]"
        BY <3>1, FilterAssumption
      <4>2. \A m \in Leaves[d.at[k]] : m[1] \in Path
        BY <1>1, <3>1 DEF Leaf
      <4>3. \A m \in Leaves[d.at[k]] :
               Reaches(node, <<k>> \o m[1]) <=> Reaches(below(k), m[1]) \/ IsTerminal(below(k))
        BY <2>3, <4>1, <4>2
      <4>4. CASE IsTerminal(below(k))
        <5>1. F(k) = d.at[k]
          BY <4>4 DEF FilteredKey, below
        <5> QED
          BY <3>1, <4>3, <4>4, <5>1
      <4>5. CASE ~IsTerminal(below(k))
        <5>1. F(k) = W[d.at[k]][below(k)]
          BY <4>5 DEF FilteredKey, below
        <5>2. Exact(F(k), d.at[k], below(k))
          BY <2>1, <2>2, <3>1, <5>1
        <5>3. F(k) \in Document
          BY <1>2, <2>2, <3>1, <5>1 DEF W
        <5> HIDE DEF F
        <5> QED
          BY <4>3, <4>5, <5>2, <5>3
      <4> QED
        BY <4>4, <4>5
    <3>3. ASSUME NEW k \in Keys(d.at), k \notin K
          PROVE  Leaves[F(k)] = {}
      <4>1. below(k) = {} \/ F(k) = Null
        BY <3>3 DEF KeptKeys, below
      <4>2. CASE below(k) = {}
        <5>1. \A m \in Leaves[d.at[k]] : ~Reaches(node, <<k>> \o m[1])
          <6>1. \A m \in Leaves[d.at[k]] : m[1] \in Path
            BY <1>1, <3>1 DEF Leaf
          <6> QED
            BY <2>3, <3>1, <4>2, <6>1, NothingReached
        <5> HIDE DEF F
        <5> QED
          BY <3>2, <5>1
      <4> QED
        BY <1>3, <4>1, <4>2
    <3>4. \A k \in Keys(d.at) : \A l :
             l \in Under(k, Leaves[F(k)]) <=>
                l \in Under(k, Leaves[d.at[k]]) /\ Reaches(node, l[1])
      <4> TAKE k \in Keys(d.at)
      <4> HIDE DEF F
      <4>1. k \in Key \union {"[]"}
        BY <3>1
      <4>2. Leaves[F(k)] \in SUBSET Leaf /\ Leaves[d.at[k]] \in SUBSET Leaf
        BY <1>1, <3>1, <3>2
      <4>3. \A m : m \in Leaves[F(k)] <=> m \in Leaves[d.at[k]] /\ Reaches(node, <<k>> \o m[1])
        BY <3>2
      <4> QED
        BY <4>1, <4>2, <4>3, ReachedUnder
    <3>5. \A l : l \in Leaves[r] <=> \E k \in Keys(d.at) : l \in Under(k, Leaves[F(k)])
      <4>1. K \subseteq Keys(d.at) /\ K \in SUBSET Key
        BY <3>1 DEF KeptKeys
      <4>2. r = IF K = {} THEN Null ELSE Object(FilteredKeys(d.at, node, W))
        BY <2>4, <2>5, FilterObjectByKeys DEF Filtered
      <4>3. /\ FilteredKeys(d.at, node, W) \in [K -> Document]
            /\ \A k \in K : FilteredKeys(d.at, node, W)[k] = F(k)
        BY <3>2, <4>1 DEF FilteredKeys
      <4> HIDE DEF K, F
      <4>4. \A k \in Keys(d.at) : k \notin K => \A l : l \notin Under(k, Leaves[F(k)])
        BY <3>3 DEF Under
      <4>5. CASE K = {}
        BY <1>3, <4>2, <4>4, <4>5
      <4>6. CASE K # {}
        <5>1. /\ r.kind = "object" /\ Keys(r.at) = K
              /\ \A k \in K : r.at[k] = F(k)
          BY <4>1, <4>2, <4>3, <4>6, KeysOfObject, DocumentsHaveKinds
        <5>2. \A l : l \in Leaves[r] <=> \E k \in K : l \in Under(k, Leaves[r.at[k]])
          BY <2>4, <5>1, LeavesOfParts
        <5> QED
          BY <4>1, <4>4, <5>1, <5>2
      <4> QED
        BY <4>5, <4>6
    <3>6. \A l : l \in Leaves[d] <=> \E k \in Keys(d.at) : l \in Under(k, Leaves[d.at[k]])
      BY <2>5, LeavesOfParts
    <3> HIDE DEF F
    <3>7. Exact(r, d, node)
      BY <3>4, <3>5, <3>6
    <3> QED
      BY <3>7 DEF r
  <2>6. CASE d.kind = "array"
    <3> DEFINE F(i) == W[d.items[i]][below("[]")]
    <3>1. d.items \in Seq(Inside(d)) /\ \A i \in DOMAIN d.items : d.items[i] \in Inside(d)
      BY <2>6, InsideOfDocument
    <3>2. \A i \in DOMAIN d.items : d.items[i] \in Document /\ F(i) \in Document
      BY <1>2, <2>1, <2>2, <3>1 DEF W
    <3>3. ASSUME NEW i \in DOMAIN d.items, NEW m
          PROVE  m \in Leaves[F(i)] <=>
                    m \in Leaves[d.items[i]] /\ Reaches(node, <<"[]">> \o m[1])
      <4>1. m \in Leaves[d.items[i]] => m[1] \in Path
        BY <1>1, <3>2 DEF Leaf
      <4>2. m \in Leaves[d.items[i]] =>
               (Reaches(node, <<"[]">> \o m[1]) <=> Reaches(below("[]"), m[1]))
        BY <2>3, <4>1
      <4>3. Exact(F(i), d.items[i], below("[]"))
        BY <2>1, <2>2, <3>1
      <4> HIDE DEF F
      <4> QED
        BY <4>2, <4>3
    <3>4. \A i \in DOMAIN d.items : \A l :
             l \in Under("[]", Leaves[F(i)]) <=>
                l \in Under("[]", Leaves[d.items[i]]) /\ Reaches(node, l[1])
      <4> HIDE DEF F
      <4> QED
        BY <1>1, <3>2, <3>3, ReachedUnder
    <3>5. \A l : l \in Leaves[r] <=> \E i \in DOMAIN d.items : l \in Under("[]", Leaves[F(i)])
      <4> DEFINE items == FilteredItems(d.items, node, W)
                 t     == Without(items, Null)
      <4>1. r = IF below("[]") = {} THEN Null ELSE Array(t)
        BY <2>4, <2>6, FilterArrayByItems DEF Filtered, below
      <4>2. /\ items \in Seq(Document) /\ DOMAIN items = DOMAIN d.items
            /\ \A i \in DOMAIN items : items[i] = F(i)
        BY <3>1, <3>2 DEF FilteredItems, below
      <4> HIDE DEF F, items
      <4>3. CASE below("[]") = {}
        <5>1. \A i \in DOMAIN d.items : \A m \in Leaves[d.items[i]] : m[1] \in Path
          BY <1>1, <3>2 DEF Leaf
        <5>2. \A i \in DOMAIN d.items : \A m \in Leaves[d.items[i]] :
                 ~Reaches(node, <<"[]">> \o m[1])
          BY <2>3, <4>3, <5>1, NothingReached
        <5>3. \A i \in DOMAIN d.items : Leaves[F(i)] = {}
          BY <3>3, <5>2
        <5>4. \A i \in DOMAIN d.items : \A l : l \notin Under("[]", Leaves[F(i)])
          BY <5>3 DEF Under
        <5> QED
          BY <1>3, <4>1, <4>3, <5>4
      <4>4. CASE below("[]") # {}
        <5>1. r.kind = "array" /\ r.items = t
          BY <4>1, <4>4, DocumentsHaveKinds
        <5>2. \A l : l \in Leaves[r] <=> \E j \in DOMAIN t : l \in Under("[]", Leaves[t[j]])
          BY <2>4, <5>1, LeavesOfParts
        <5>3. \A j \in DOMAIN t : \E i \in DOMAIN items : t[j] = items[i]
          <6>1. PICK at \in [DOMAIN t -> DOMAIN items] : \A j \in DOMAIN t : t[j] = items[at[j]]
            BY <4>2, WithoutKeepsOrder
          <6> HIDE DEF t
          <6> QED
            BY <6>1
        <5>4. \A i \in DOMAIN items : items[i] # Null => \E j \in DOMAIN t : t[j] = items[i]
          <6> HIDE DEF t
          <6>0. items \in Seq(Document) /\ t = Without(items, Null)
            BY <4>2 DEF t
          <6>1. \A i \in DOMAIN items : items[i] # Null =>
                   \E j \in DOMAIN Without(items, Null) : Without(items, Null)[j] = items[i]
            BY <6>0, WithoutKeepsOthers
          <6> QED
            BY <6>0, <6>1
        <5>5. \A l : l \notin Under("[]", Leaves[Null])
          BY <1>3 DEF Under
        <5> HIDE DEF t
        <5> QED
          BY <4>2, <5>2, <5>3, <5>4, <5>5
      <4> QED
        BY <4>3, <4>4
    <3>6. \A l : l \in Leaves[d] <=>
                 \E i \in DOMAIN d.items : l \in Under("[]", Leaves[d.items[i]])
      BY <2>6, LeavesOfParts
    <3> HIDE DEF F
    <3>7. Exact(r, d, node)
      BY <3>4, <3>5, <3>6
    <3> QED
      BY <3>7 DEF r
  <2>7. CASE d.kind = "value"
    <3>1. r = IF IsTerminal(node) THEN d ELSE Null
      BY <2>4, <2>7 DEF Filtered
    <3>2. Leaves[d] = {<<<<>>, d.is>>}
      BY <2>7, LeavesOfParts
    <3>3. Reaches(node, <<>>) <=> IsTerminal(node)
      <4>1. \A p \in node : p \in Seq(Part)
        BY DEF Node
      <4>2. \A p \in node : Decides(node, p, <<>>) <=> p = <<>>
        <5> TAKE p \in node
        <5>1. Len(p) \in Nat /\ (Len(p) <= 0 <=> p = <<>>) /\ Len(<<>>) = 0
          BY <4>1, EmptySeq
        <5>2. p = <<>> => \A i \in 1..Len(p) : FALSE
          OBVIOUS
        <5> QED
          BY <5>1, <5>2 DEF Decides, Leads, Ends
      <4> QED
        BY <4>2 DEF Reaches, IsTerminal
    <3>4. \A l \in Leaves[d] : l[1] = <<>>
      BY <3>2
    <3>5. Exact(r, d, node)
      BY <1>3, <3>1, <3>3, <3>4
    <3> QED
      BY <3>5 DEF r
  <2>8. CASE d.kind = "null"
    <3>1. d = Null
      BY <2>8, DocumentsHaveKinds
    <3>2. r = Null
      BY <2>4, <2>8, <3>1 DEF Filtered
    <3>3. Exact(r, d, node)
      BY <1>3, <3>1, <3>2
    <3> QED
      BY <3>3 DEF r
  <2>9. d.kind \in {"null", "value", "array", "object"}
    BY DocumentsHaveKinds
  <2> QED
    BY <2>5, <2>6, <2>7, <2>8, <2>9
<1>5. Document \subseteq S
  <2>1. \A d \in Document : Inside(d) \subseteq S => d \in S
    BY <1>4
  <2> HIDE DEF S
  <2> QED
    BY <2>1, DocumentInduction
<1> QED
  BY <1>5

\* What an include list of a filter keeps, in terms of its fields.
LEMMA IncludedByFields ==
    ASSUME Inv, result # NoResult, Including
    PROVE  /\ PartOf[data][result]
           /\ \A l : l \in Leaves[result] <=>
                l \in Leaves[data] /\ Reaches(BuildIncludeTree(filter.fields), l[1])
<1> DEFINE root == BuildIncludeTree(filter.fields)
<1>1. data \in Document /\ root \in Node
  BY FilterTypes
<1>2. result = FilterWithTree[data][root]
  BY DEF Inv, Apply, Including
<1> HIDE DEF root
<1>3. PartOf[data][result]
  BY <1>1, <1>2, IncludedIsPart
<1>4. \A l : l \in Leaves[result] <=> l \in Leaves[data] /\ Reaches(root, l[1])
  BY <1>1, <1>2, IncludedIsReached
<1> QED
  BY <1>3, <1>4 DEF root

\* An include list lets nothing through that it does not list, at any depth
\* (filterWithTree).
THEOREM NothingUnlistedIsIncluded ==
    Spec => []OnlyListedIsIncluded
<1>1. Inv => OnlyListedIsIncluded
  <2> SUFFICES ASSUME Inv, result # NoResult, Including
               PROVE  /\ PartOf[data][result]
                      /\ \A l \in Leaves[result] : \E f \in filter.fields : Covers(f, l[1])
    BY DEF OnlyListedIsIncluded
  <2>1. ASSUME NEW l \in Leaves[result]
        PROVE  \E f \in filter.fields : Covers(f, l[1])
    <3>1. PICK p \in BuildIncludeTree(filter.fields) : Leads(p, l[1])
      BY <2>1, IncludedByFields DEF Reaches, Decides
    <3>2. PICK f \in filter.fields : p = ParsePathPattern(f) /\ p # <<>>
      BY <3>1 DEF BuildIncludeTree
    <3> QED
      BY <3>1, <3>2 DEF Covers, Leads
  <2> QED
    BY <2>1, IncludedByFields
<1> QED
  BY <1>1, AlwaysApplied, PTL

\* An include list none of whose fields stops at items of an array with more in
\* them keeps exactly what its fields lead to, where a name of its own overrides
\* a wildcard (filterWithTree).
THEOREM ExactlyWhatIsListedIsIncluded ==
    Spec => []ExactlyListedIsIncluded
<1>1. Inv => ExactlyListedIsIncluded
  <2> DEFINE fields == filter.fields
             root   == BuildIncludeTree(fields)
             Selected(path) == \E f \in fields : Covers(f, path) /\ ~Overridden(f, fields, path)
  <2> SUFFICES ASSUME Inv, result # NoResult, Including,
                      \A l \in Leaves[data], f \in fields : ~StopsAtItems(f, l[1])
               PROVE  Leaves[result] = {l \in Leaves[data] : Selected(l[1])}
    BY DEF ExactlyListedIsIncluded
  <2>1. \A l : l \in Leaves[result] <=> l \in Leaves[data] /\ Reaches(root, l[1])
    BY IncludedByFields
  <2>2. data \in Document /\ root \in Node
    BY FilterTypes
  <2>3. \A p : p \in root <=> p # <<>> /\ \E f \in fields : p = ParsePathPattern(f)
    BY DEF BuildIncludeTree
  <2> HIDE DEF fields, root
  <2>4. ASSUME NEW l \in Leaves[data]
        PROVE  Reaches(root, l[1]) <=> Selected(l[1])
    <3> DEFINE path == l[1]
    <3>1. path \in Path /\ Len(path) \in Nat
      BY <2>2, LeavesUnfold DEF Leaf, Path
    <3> HIDE DEF path
    <3>2. ASSUME NEW f \in fields, NEW p, p = ParsePathPattern(f), p \in root
          PROVE  Decides(root, p, path) <=> Covers(f, path) /\ ~Overridden(f, fields, path)
      <4>1. p \in Seq(Part) /\ p # <<>> /\ Len(p) \in Nat
        BY <2>2, <2>3, <3>2 DEF Node
      <4>2. Leads(p, path) <=> Covers(f, path)
        BY <3>2, <4>1 DEF Leads, Covers
      <4>3. Covers(f, path) => Ends(p, path)
        <5>1. ~StopsAtItems(f, path)
          BY <2>4 DEF path
        <5>2. Covers(f, path) => Len(p) <= Len(path)
          BY <3>2 DEF Covers
        <5>3. Covers(f, path) => ~(Len(p) < Len(path) /\ path[Len(p)] = "[]")
          BY <3>2, <5>1 DEF StopsAtItems
        <5> QED
          BY <3>1, <4>1, <5>2, <5>3 DEF Ends
      <4>4. ASSUME NEW i \in 1..Len(p)
            PROVE  (\E g \in root : OwnName(g, i, p, path))
                     <=> (\E g \in fields : OwnName(ParsePathPattern(g), i, p, path))
        <5>1. \A g : OwnName(g, i, p, path) => g # <<>>
          BY <4>1 DEF OwnName
        <5> QED
          BY <2>3, <5>1
      <4>5. Overridden(f, fields, path) <=>
               \E i \in 1..Len(p), g \in fields :
                   p[i] # path[i] /\ OwnName(ParsePathPattern(g), i, p, path)
        BY <3>2, Zenon DEF Overridden, OwnName
      <4>6. (\A i \in 1..Len(p) : Free(root, p, path, i)) <=> ~Overridden(f, fields, path)
        BY <4>4, <4>5 DEF Free
      <4> QED
        BY <4>2, <4>3, <4>6 DEF Decides
    <3>3. ASSUME Reaches(root, path)
          PROVE  Selected(path)
      <4>1. PICK p \in root : Decides(root, p, path)
        BY <3>3 DEF Reaches
      <4>2. PICK f \in fields : p = ParsePathPattern(f)
        BY <2>3
      <4> QED
        BY <3>2, <4>1, <4>2
    <3>4. ASSUME NEW f \in fields, Covers(f, path), ~Overridden(f, fields, path)
          PROVE  Reaches(root, path)
      <4>1. ParsePathPattern(f) \in root
        BY <2>3, <3>4 DEF Covers
      <4> QED
        BY <3>2, <3>4, <4>1 DEF Reaches
    <3>5. Reaches(root, path) <=> Selected(path)
      BY <3>3, <3>4
    <3> QED
      BY <3>5 DEF path
  <2> HIDE DEF Selected
  <2> QED
    BY <2>1, <2>4
<1> QED
  BY <1>1, AlwaysApplied, PTL

-----------------------------------------------------------------------------
(* Exclude lists: which names a pattern matches *)

\* What is put in front is left out or kept, too.
LEMMA WithoutOfCons ==
    ASSUME NEW S, NEW c \in S, NEW x
    PROVE  \A s \in Seq(S) :
              Without(<<c>> \o s, x) = IF c = x THEN Without(s, x) ELSE <<c>> \o Without(s, x)
<1> DEFINE Law(s) == Without(<<c>> \o s, x) = IF c = x THEN Without(s, x)
                                              ELSE <<c>> \o Without(s, x)
           A == {s \in Seq(S) : Law(s)}
<1>1. <<>> \in A
  <2>1. <<>> \in Seq(S) /\ Without(<<>>, x) = <<>> /\ Append(<<>>, c) = <<c>> \o <<>>
    BY WithoutOfNone, ConsAndAppend
  <2>2. Without(Append(<<>>, c), x) = IF c = x THEN Without(<<>>, x)
                                      ELSE Append(Without(<<>>, x), c)
    <3> DEFINE o == <<>>
    <3>1. o \in Seq(S)
      OBVIOUS
    <3> HIDE DEF o
    <3>2. Without(Append(o, c), x) = IF c = x THEN Without(o, x) ELSE Append(Without(o, x), c)
      BY <3>1, WithoutOfAppend
    <3> QED
      BY <3>2, Zenon DEF o
  <2>3. Law(<<>>)
    BY <2>1, <2>2, Zenon
  <2> HIDE DEF Law
  <2> QED
    BY <2>1, <2>3
<1>2. ASSUME NEW s \in Seq(S), NEW e \in S, s \in A
      PROVE  Append(s, e) \in A
  <2>1. Law(s) /\ Append(s, e) \in Seq(S)
    BY <1>2
  <2>2. Without(s, x) \in Seq(S) /\ <<c>> \o s \in Seq(S)
    BY WithoutOfAppend, ConsAndAppend
  <2>3. <<c>> \o Append(s, e) = Append(<<c>> \o s, e)
    BY ConsAndAppend
  <2>4. <<c>> \o Append(Without(s, x), e) = Append(<<c>> \o Without(s, x), e)
    BY <2>2, ConsAndAppend
  <2>5. Without(Append(s, e), x) = IF e = x THEN Without(s, x) ELSE Append(Without(s, x), e)
    BY WithoutOfAppend
  <2>6. Without(Append(<<c>> \o s, e), x) = IF e = x THEN Without(<<c>> \o s, x)
                                            ELSE Append(Without(<<c>> \o s, x), e)
    <3> DEFINE y == <<c>> \o s
    <3>1. y \in Seq(S)
      BY <2>2
    <3> HIDE DEF y
    <3>2. Without(Append(y, e), x) = IF e = x THEN Without(y, x) ELSE Append(Without(y, x), e)
      BY <3>1, WithoutOfAppend
    <3> QED
      BY <3>2, Zenon DEF y
  <2>7. Law(Append(s, e))
    BY <2>1, <2>3, <2>4, <2>5, <2>6, Zenon
  <2> HIDE DEF Law
  <2> QED
    BY <2>1, <2>7
<1>3. \A s \in Seq(S) : s \in A
  <2> HIDE DEF A
  <2> QED
    BY <1>1, <1>2, InductionOnSequences
<1> QED
  BY <1>3

\* The names of a path are those of a field p without the arrays.
Named(p, n) ==
    /\ \/ Len(n) = Len(p)
       \/ Len(n) > Len(p) /\ Len(p) > 0 /\ p[Len(p)] = "*"
    /\ \A t \in 1..Len(p) : p[t] \in {n[t], "*"}

\* A field names a path when their first names agree and so do the rests.
LEMMA NamedOfCons ==
    ASSUME NEW S, NEW q \in Seq(S), NEW c \in S, NEW T, NEW m \in Seq(T), NEW a \in T
    PROVE  /\ q # <<>> => (Named(<<c>> \o q, <<a>> \o m) <=> c \in {a, "*"} /\ Named(q, m))
           /\ Named(<<c>> \o <<>>, <<a>> \o m) <=> c = "*" \/ (c = a /\ m = <<>>)
           /\ q # <<>> => ~Named(q, <<>>)
           /\ m # <<>> => ~Named(<<>>, m)
<1>1. Len(q) \in Nat /\ Len(m) \in Nat /\ (q # <<>> => Len(q) > 0) /\ (m # <<>> => Len(m) > 0)
      /\ Len(<<>>) = 0
  OBVIOUS
<1> DEFINE u == <<c>> \o q
           v == <<a>> \o m
           w == <<c>> \o <<>>
<1>2. /\ Len(u) = Len(q) + 1 /\ u[1] = c /\ \A i \in 1..Len(q) : u[i + 1] = q[i]
      /\ Len(v) = Len(m) + 1 /\ v[1] = a /\ \A i \in 1..Len(m) : v[i + 1] = m[i]
  BY ConsIs
<1>3. Len(w) = 1 /\ w[1] = c
  BY ConsIs
<1> HIDE DEF u, v, w
<1>4. ASSUME q # <<>>
      PROVE  Named(u, v) <=> c \in {a, "*"} /\ Named(q, m)
  <2>1. Len(q) > 0 /\ u[Len(u)] = q[Len(q)]
    <3>1. Len(q) \in 1..Len(q)
      BY <1>1, <1>4
    <3> QED
      BY <1>1, <1>2, <1>4, <3>1
  <2>2. ASSUME Named(u, v)
        PROVE  c \in {a, "*"} /\ Named(q, m)
    <3>1. 1 \in 1..Len(u)
      BY <1>1, <1>2
    <3>2. c \in {a, "*"}
      BY <1>2, <2>2, <3>1 DEF Named
    <3>3. ASSUME NEW t \in 1..Len(q)
          PROVE  q[t] \in {m[t], "*"}
      <4>1. t + 1 \in 1..Len(u) /\ t \in 1..Len(m)
        BY <1>1, <1>2, <2>2 DEF Named
      <4> QED
        BY <1>2, <2>2, <4>1 DEF Named
    <3>4. Len(m) = Len(q) \/ (Len(m) > Len(q) /\ q[Len(q)] = "*")
      BY <1>1, <1>2, <2>1, <2>2 DEF Named
    <3> QED
      BY <2>1, <3>2, <3>3, <3>4 DEF Named
  <2>3. ASSUME c \in {a, "*"}, Named(q, m)
        PROVE  Named(u, v)
    <3>1. ASSUME NEW t \in 1..Len(u)
          PROVE  u[t] \in {v[t], "*"}
      <4>1. CASE t = 1
        BY <1>2, <2>3, <4>1
      <4>2. CASE t # 1
        <5>1. t - 1 \in 1..Len(q) /\ t - 1 \in 1..Len(m) /\ (t - 1) + 1 = t
          BY <1>1, <1>2, <2>3, <4>2 DEF Named
        <5>2. u[t] = q[t - 1] /\ v[t] = m[t - 1]
          BY <1>2, <5>1
        <5> QED
          BY <2>3, <5>1, <5>2 DEF Named
      <4> QED
        BY <4>1, <4>2
    <3>2. Len(v) = Len(u) \/ (Len(v) > Len(u) /\ u[Len(u)] = "*")
      BY <1>1, <1>2, <2>1, <2>3 DEF Named
    <3>3. Len(u) > 0
      BY <1>1, <1>2
    <3> QED
      BY <3>1, <3>2, <3>3 DEF Named
  <2> QED
    BY <2>2, <2>3
<1>5. Named(w, v) <=> c = "*" \/ (c = a /\ m = <<>>)
  <2>1. \A t \in 1..Len(w) : t = 1
    BY <1>3
  <2>2. 1 \in 1..Len(w)
    BY <1>3
  <2>3. m = <<>> <=> Len(m) = 0
    BY <1>1
  <2>4. Named(w, v) <=> /\ Len(v) = 1 \/ (Len(v) > 1 /\ c = "*")
                        /\ c \in {a, "*"}
    BY <1>2, <1>3, <2>1, <2>2 DEF Named
  <2> QED
    BY <1>1, <1>2, <2>3, <2>4
<1>6. q # <<>> => ~Named(q, <<>>)
  BY <1>1 DEF Named
<1>7. m # <<>> => ~Named(<<>>, m)
  BY <1>1 DEF Named
<1> QED
  BY <1>4, <1>5, <1>6, <1>7 DEF u, v, w

\* match of MatchPathSegments from its row for the next part of the pattern.
Cell(path, pattern, j, i, row) ==
    /\ i <= Len(path)
    /\ CASE pattern[j] = "[]" -> row[i]
         [] pattern[j] = "*"  -> j = Len(pattern) \/ row[i + 1]
         [] OTHER -> path[i] = pattern[j] /\ row[i + 1]

\* The recursive function of MatchPathSegments is well defined.
LEMMA MatchUnfolds ==
    ASSUME NEW path \in Seq(Name), NEW pattern \in Seq(Part)
    PROVE  \E m :
              /\ MatchPathSegments(path, pattern) = m[1][1]
              /\ \A i \in 1..(Len(path) + 1) : m[Len(pattern) + 1][i] = (i > Len(path))
              /\ \A j \in 1..Len(pattern) : \A i \in 1..(Len(path) + 1) :
                    m[j][i] = Cell(path, pattern, j, i, m[j + 1])
<1> DEFINE n == Len(pattern)
           N == Len(path)
           At(j, i, row) == Cell(path, pattern, j, i, row)
           Row(j, row) == [i \in 1..(N + 1) |-> IF j > n THEN i > N ELSE At(j, i, row)]
           Equation(h) == h = [j \in 1..(n + 1) |-> Row(j, h[j + 1])]
           match == CHOOSE h : Equation(h)
           V == [1..(N + 1) -> BOOLEAN]
           first == [i \in 1..(N + 1) |-> i > N]
           next == [t \in 1..n |-> [row \in V |-> Row(n + 1 - t, row)]]
<1>1. n \in Nat /\ N \in Nat
  OBVIOUS
<1>2. MatchPathSegments(path, pattern) = match[1][1]
  BY Zenon DEF MatchPathSegments, Cell
<1>3. \A j \in 1..n, row \in V : Row(j, row) \in V
  <2>1. ASSUME NEW j \in 1..n, NEW row \in V, NEW i \in 1..(N + 1)
        PROVE  At(j, i, row) \in BOOLEAN
    <3>1. CASE i <= N
      <4>1. row[i] \in BOOLEAN /\ row[i + 1] \in BOOLEAN
        BY <1>1, <3>1
      <4> QED
        BY <3>1, <4>1 DEF Cell
    <3>2. CASE ~(i <= N)
      BY <3>2 DEF Cell
    <3> QED
      BY <3>1, <3>2
  <2> HIDE DEF At
  <2> QED
    BY <1>1, <2>1
<1>4. next \in Steps(n, V) /\ first \in V
  <2>1. \A t \in 1..n : n + 1 - t \in 1..n
    BY <1>1
  <2> HIDE DEF Row, V
  <2>2. first \in V
    BY DEF V
  <2> QED
    BY <1>3, <2>1, <2>2 DEF Steps
<1>5. PICK g \in [0..n -> V] : g[0] = first /\ \A t \in 1..n : g[t] = next[t][g[t - 1]]
  <2>1. \E g \in [0..n -> V] : Recursion(g, n, first, next)
    <3> HIDE DEF n, next, first, V
    <3> QED
      BY <1>1, <1>4, RecursionExists
  <2> HIDE DEF n, next, first, V
  <2> QED
    BY <2>1 DEF Recursion
<1> DEFINE m == [j \in 1..(n + 1) |-> g[n + 1 - j]]
<1>6. ASSUME NEW j \in 1..(n + 1)
      PROVE  m[j] = Row(j, m[j + 1])
  <2>1. CASE j = n + 1
    <3>1. m[j] = first
      BY <1>1, <1>5, <2>1
    <3>2. j > n
      BY <1>1, <2>1
    <3> HIDE DEF m, At
    <3> QED
      BY <3>1, <3>2
  <2>2. CASE j # n + 1
    <3>1. n + 1 - j \in 1..n /\ (n + 1 - j) - 1 = n + 1 - (j + 1) /\ j + 1 \in 1..(n + 1)
          /\ n + 1 - (n + 1 - j) = j
          /\ (n + 1 - j) - 1 \in 0..n
      BY <1>1, <2>2
    <3>2. m[j] = g[n + 1 - j] /\ m[j + 1] = g[n + 1 - (j + 1)]
      BY <3>1
    <3>3. g[(n + 1 - j) - 1] \in V
      BY <3>1
    <3> HIDE DEF m, V, Row
    <3>4. g[n + 1 - j] = Row(n + 1 - (n + 1 - j), g[(n + 1 - j) - 1])
      BY <1>5, <3>1, <3>3
    <3> QED
      BY <3>1, <3>2, <3>4
  <2> QED
    BY <2>1, <2>2
<1>7. Equation(m)
  <2> HIDE DEF Row
  <2>1. m = [j \in 1..(n + 1) |-> m[j]]
    OBVIOUS
  <2> HIDE DEF m
  <2> QED
    BY <1>6, <2>1
<1>8. Equation(match)
  <2> HIDE DEF Equation, m
  <2> QED
    BY <1>7
<1> HIDE DEF match, At
<1>9. \A i \in 1..(N + 1) : match[n + 1][i] = (i > N)
  <2>1. n + 1 \in 1..(n + 1) /\ n + 1 > n
    BY <1>1
  <2>2. match[n + 1] = Row(n + 1, match[n + 1 + 1])
    <3> HIDE DEF Row
    <3> QED
      BY <1>8, <2>1
  <2> QED
    BY <2>1, <2>2
<1>10. \A j \in 1..n : \A i \in 1..(N + 1) : match[j][i] = At(j, i, match[j + 1])
  <2> TAKE j \in 1..n
  <2>1. j \in 1..(n + 1) /\ ~(j > n)
    BY <1>1
  <2>2. match[j] = Row(j, match[j + 1])
    <3> HIDE DEF Row
    <3> QED
      BY <1>8, <2>1
  <2> QED
    BY <2>1, <2>2
<1> QED
  BY <1>2, <1>9, <1>10 DEF At

\* What is at the end of a sequence and not left out is left.
LEMMA WithoutKeepsTheEnd ==
    ASSUME NEW S, NEW s \in Seq(S), s # <<>>, NEW x, s[Len(s)] # x
    PROVE  Without(s, x) # <<>>
<1> DEFINE n == Len(s)
           r == SubSeq(s, 1, n - 1)
<1>1. n \in 1..Len(s)
  OBVIOUS
<1>2. r \in Seq(S) /\ s[n] \in S /\ SubSeq(s, 1, n) = Append(r, s[n])
  BY <1>1, LastElement
<1>3. SubSeq(s, 1, n) = s
  BY SubSeqFull
<1> HIDE DEF r
<1>4. Without(Append(r, s[n]), x) = Append(Without(r, x), s[n]) /\ Without(r, x) \in Seq(S)
  BY <1>2, WithoutOfAppend
<1>5. Append(Without(r, x), s[n]) # <<>>
  BY <1>2, <1>4
<1> QED
  BY <1>2, <1>3, <1>4, <1>5, Zenon

\* What matches a path of names: a field that does not end in an array and
\* has, without its arrays, these names.
LEMMA MatchIsNamed ==
    ASSUME NEW path \in Seq(Name), NEW pattern \in Seq(Part), path # <<>>
    PROVE  MatchPathSegments(path, pattern) <=>
              /\ pattern # <<>> /\ pattern[Len(pattern)] # "[]"
              /\ Named(Without(pattern, "[]"), path)
<1> DEFINE n == Len(pattern)
           N == Len(path)
           P(j) == SubSeq(pattern, j, n)
           Q(j) == Without(P(j), "[]")
           R(i) == SubSeq(path, i, N)
           open == pattern[n] # "[]"
<1>1. n \in Nat /\ N \in Nat /\ N # 0 /\ (pattern = <<>> <=> n = 0)
  OBVIOUS
<1>2. /\ P(n + 1) = <<>> /\ P(1) = pattern
      /\ \A j \in 1..(n + 1) : P(j) \in Seq(Part)
      /\ \A j \in 1..n : pattern[j] \in Part /\ P(j) = <<pattern[j]>> \o P(j + 1)
  BY Rests
<1>3. /\ R(N + 1) = <<>> /\ R(1) = path
      /\ \A i \in 1..(N + 1) : R(i) \in Seq(Name)
      /\ \A i \in 1..N : path[i] \in Name /\ R(i) = <<path[i]>> \o R(i + 1)
  BY Rests
<1> HIDE DEF P, R
<1>4. /\ Q(n + 1) = <<>> /\ Q(1) = Without(pattern, "[]")
      /\ \A j \in 1..(n + 1) : Q(j) \in Seq(Part)
  <2>1. Without(<<>>, "[]") = <<>>
    BY WithoutOfNone
  <2>2. ASSUME NEW j \in 1..(n + 1)
        PROVE  Q(j) \in Seq(Part)
    <3>1. P(j) \in Seq(Part)
      BY <1>2
    <3>2. Without(P(j), "[]") \in Seq(Part \ {"[]"})
      BY <3>1, WithoutLeavesOthers
    <3> QED
      BY <3>2, SeqMonotonic
  <2>3. Q(n + 1) = <<>> /\ Q(1) = Without(pattern, "[]")
    BY <1>2, <2>1, Zenon
  <2> QED
    BY <2>2, <2>3
<1>5. ASSUME NEW j \in 1..n
      PROVE  Q(j) = IF pattern[j] = "[]" THEN Q(j + 1) ELSE <<pattern[j]>> \o Q(j + 1)
  <2>1. j + 1 \in 1..(n + 1)
    BY <1>1
  <2>2. P(j + 1) \in Seq(Part) /\ pattern[j] \in Part /\ P(j) = <<pattern[j]>> \o P(j + 1)
    BY <1>2, <2>1
  <2> DEFINE y == P(j + 1)
             c == pattern[j]
  <2>3. Without(<<c>> \o y, "[]") = IF c = "[]" THEN Without(y, "[]")
                                    ELSE <<c>> \o Without(y, "[]")
    <3>1. y \in Seq(Part) /\ c \in Part
      BY <2>2
    <3> HIDE DEF y, c
    <3> QED
      BY <3>1, WithoutOfCons
  <2>4. Without(P(j), "[]") = Without(<<c>> \o y, "[]")
    BY <2>2, Zenon
  <2> QED
    BY <2>3, <2>4, Zenon
<1>6. ASSUME open, NEW j \in 1..n
      PROVE  Q(j) # <<>>
  <2>1. P(j) \in Seq(Part) /\ Len(P(j)) = n - j + 1 /\ P(j)[n - j + 1] = pattern[n]
    <3>1. /\ \A t \in j..n : pattern[t] \in Part
          /\ j \in Int /\ n \in Int /\ j <= n
          /\ n - j + 1 \in 1..(n - j + 1) /\ j + (n - j + 1) - 1 = n
      BY <1>1, <1>2
    <3>2. /\ Len(SubSeq(pattern, j, n)) = n - j + 1
          /\ SubSeq(pattern, j, n)[n - j + 1] = pattern[n]
      BY <3>1, SubSeqProperties
    <3> QED
      BY <1>1, <1>2, <3>2 DEF P
  <2>2. P(j) # <<>> /\ P(j)[Len(P(j))] # "[]"
    <3>1. Len(P(j)) # 0
      BY <1>1, <2>1
    <3> QED
      BY <1>6, <2>1, <3>1
  <2> QED
    BY <2>1, <2>2, WithoutKeepsTheEnd
<1> HIDE DEF Q
<1>7. PICK m :
         /\ MatchPathSegments(path, pattern) = m[1][1]
         /\ \A i \in 1..(N + 1) : m[n + 1][i] = (i > N)
         /\ \A j \in 1..n : \A i \in 1..(N + 1) :
               m[j][i] = Cell(path, pattern, j, i, m[j + 1])
  BY MatchUnfolds
<1> DEFINE Law(j, i) == m[j][i] <=> open /\ Named(Q(j), R(i))
<1>8. ASSUME NEW i \in 1..N, NEW q \in Seq(Part), NEW c \in Part
      PROVE  /\ q # <<>> => (Named(<<c>> \o q, R(i)) <=>
                                c \in {path[i], "*"} /\ Named(q, R(i + 1)))
             /\ Named(<<c>> \o <<>>, R(i)) <=> c = "*" \/ (c = path[i] /\ R(i + 1) = <<>>)
  <2>1. i + 1 \in 1..(N + 1)
    BY <1>1
  <2>2. R(i + 1) \in Seq(Name) /\ path[i] \in Name /\ R(i) = <<path[i]>> \o R(i + 1)
    BY <1>3, <2>1
  <2> QED
    BY <2>2, NamedOfCons
<1>9. ASSUME open, NEW j \in 1..n
      PROVE  ~Named(Q(j), R(N + 1))
  <2>1. Q(j) \in Seq(Part) /\ Q(j) # <<>>
    BY <1>1, <1>4, <1>6, <1>9
  <2>2. Len(Q(j)) > 0 /\ Len(R(N + 1)) = 0
    BY <1>3, <2>1
  <2> QED
    BY <2>1, <2>2 DEF Named
<1>10. ASSUME NEW j \in 1..n
       PROVE  Law(j, N + 1)
  <2>1. N + 1 \in 1..(N + 1) /\ ~(N + 1 <= N)
    BY <1>1
  <2>2. ~m[j][N + 1]
    BY <1>7, <2>1 DEF Cell
  <2> QED
    BY <1>9, <2>2
<1>11. ASSUME NEW i \in 1..N, n # 0
       PROVE  Law(n, i)
  <2>1. n \in 1..n /\ i \in 1..(N + 1) /\ i + 1 \in 1..(N + 1) /\ i <= N
    BY <1>1, <1>11
  <2>2. /\ m[n][i] = Cell(path, pattern, n, i, m[n + 1])
        /\ m[n + 1][i] = (i > N) /\ m[n + 1][i + 1] = (i + 1 > N)
    BY <1>7, <2>1
  <2>3. R(i + 1) = <<>> <=> i + 1 > N
    <3>1. CASE i = N
      BY <1>1, <1>3, <3>1
    <3>2. CASE i # N
      <4>1. i + 1 \in 1..N /\ i + 1 + 1 \in 1..(N + 1)
        BY <1>1, <3>2
      <4>2. R(i + 1) = <<path[i + 1]>> \o R(i + 1 + 1) /\ path[i + 1] \in Name
            /\ R(i + 1 + 1) \in Seq(Name)
        BY <1>3, <4>1
      <4> DEFINE y == R(i + 1 + 1)
      <4>3. Len(<<path[i + 1]>> \o y) = Len(y) + 1 /\ Len(y) \in Nat
        BY <4>2, ConsIs
      <4>4. R(i + 1) # <<>>
        BY <4>2, <4>3
      <4> QED
        BY <4>1, <4>4
    <3> QED
      BY <3>1, <3>2
  <2>4. pattern[n] \in Part /\ (open => Q(n) = <<pattern[n]>> \o <<>>)
    BY <1>2, <1>4, <1>5, <2>1
  <2>5. open => (Named(Q(n), R(i)) <=>
                    pattern[n] = "*" \/ (pattern[n] = path[i] /\ R(i + 1) = <<>>))
    <3>1. Named(<<pattern[n]>> \o <<>>, R(i)) <=>
             pattern[n] = "*" \/ (pattern[n] = path[i] /\ R(i + 1) = <<>>)
      <4>1. <<>> \in Seq(Part)
        OBVIOUS
      <4> QED
        BY <1>8, <2>4, <4>1
    <3> QED
      BY <2>4, <3>1, Zenon
  <2>6. m[n][i] <=> open /\ (pattern[n] = "*" \/ (path[i] = pattern[n] /\ i + 1 > N))
    <3>1. ~m[n + 1][i] /\ (m[n + 1][i + 1] <=> i + 1 > N)
      <4>1. ~(i > N)
        BY <1>1, <2>1
      <4> QED
        BY <2>2, <4>1, Zenon
    <3>2. m[n][i] <=> CASE pattern[n] = "[]" -> m[n + 1][i]
                        [] pattern[n] = "*"  -> n = Len(pattern) \/ m[n + 1][i + 1]
                        [] OTHER -> path[i] = pattern[n] /\ m[n + 1][i + 1]
      BY <2>1, <2>2 DEF Cell
    <3>3. CASE pattern[n] = "[]"
      BY <3>1, <3>2, <3>3
    <3>4. CASE pattern[n] # "[]"
      BY <3>1, <3>2, <3>4
    <3> QED
      BY <3>3, <3>4
  <2> QED
    BY <2>3, <2>5, <2>6
<1>12. ASSUME NEW j \in 1..n, j # n, \A i \in 1..(N + 1) : Law(j + 1, i), NEW i \in 1..N
       PROVE  Law(j, i)
  <2>1. j \in 1..n /\ j + 1 \in 1..n /\ i \in 1..(N + 1) /\ i + 1 \in 1..(N + 1) /\ i <= N
    BY <1>1, <1>12
  <2>2. m[j][i] = Cell(path, pattern, j, i, m[j + 1])
    BY <1>7, <2>1
  <2>3. /\ m[j + 1][i] <=> open /\ Named(Q(j + 1), R(i))
        /\ m[j + 1][i + 1] <=> open /\ Named(Q(j + 1), R(i + 1))
    BY <1>12, <2>1
  <2>4. Q(j + 1) \in Seq(Part) /\ pattern[j] \in Part /\ (open => Q(j + 1) # <<>>)
    BY <1>1, <1>2, <1>4, <1>6, <2>1
  <2>5. open => (Named(<<pattern[j]>> \o Q(j + 1), R(i)) <=>
                    pattern[j] \in {path[i], "*"} /\ Named(Q(j + 1), R(i + 1)))
    BY <1>8, <2>4
  <2>6. Q(j) = IF pattern[j] = "[]" THEN Q(j + 1) ELSE <<pattern[j]>> \o Q(j + 1)
    BY <1>5
  <2> HIDE DEF open
  <2>7. m[j][i] <=> CASE pattern[j] = "[]" -> m[j + 1][i]
                      [] pattern[j] = "*"  -> m[j + 1][i + 1]
                      [] OTHER -> path[i] = pattern[j] /\ m[j + 1][i + 1]
    BY <1>12, <2>1, <2>2 DEF Cell
  <2>8. CASE pattern[j] = "[]"
    BY <2>3, <2>6, <2>7, <2>8
  <2>9. CASE pattern[j] # "[]"
    <3>1. Q(j) = <<pattern[j]>> \o Q(j + 1)
      BY <2>6, <2>9
    <3>2. m[j][i] <=> pattern[j] \in {path[i], "*"} /\ m[j + 1][i + 1]
      BY <2>7, <2>9
    <3>3. Named(Q(j), R(i)) <=> Named(<<pattern[j]>> \o Q(j + 1), R(i))
      BY <3>1, Zenon
    <3> QED
      BY <2>3, <2>5, <3>2, <3>3, Zenon
  <2> QED
    BY <2>8, <2>9
<1>13. ASSUME n # 0
       PROVE  Law(1, 1)
  <2> HIDE DEF Law, n, N
  <2>1. \A i \in 1..(N + 1) : i = N + 1 \/ i \in 1..N
    BY <1>1
  <2> DEFINE T == {t \in 0..(n - 1) : \A i \in 1..(N + 1) : Law(n - t, i)}
  <2>2. 0 \in T
    <3>1. n - 0 = n /\ n \in 1..n /\ 0 \in 0..(n - 1)
      BY <1>1, <1>13
    <3> QED
      BY <1>10, <1>11, <1>13, <2>1, <3>1
  <2>3. ASSUME NEW t \in 0..((n - 1) - 1), t \in T
        PROVE  t + 1 \in T
    <3>1. /\ n - (t + 1) \in 1..n /\ n - (t + 1) # n /\ (n - (t + 1)) + 1 = n - t
          /\ t + 1 \in 0..(n - 1)
      <4> HIDE DEF T
      <4> QED
        BY <1>1
    <3>2. \A i \in 1..(N + 1) : Law(n - t, i)
      BY <2>3, Zenon
    <3>3. \A i \in 1..(N + 1) : Law(n - (t + 1), i)
      <4> DEFINE j == n - (t + 1)
      <4>1. j \in 1..n /\ j # n /\ \A i \in 1..(N + 1) : Law(j + 1, i)
        BY <3>1, <3>2, Zenon
      <4> HIDE DEF j, T
      <4>2. \A i \in 1..N : Law(j, i)
        BY <1>12, <4>1
      <4>3. Law(j, N + 1)
        BY <1>10, <4>1
      <4> QED
        BY <2>1, <4>2, <4>3 DEF j
    <3> QED
      BY <3>1, <3>3
  <2>4. \A t \in 0..(n - 1) : t \in T
    <3>1. n - 1 \in Nat
      BY <1>1, <1>13
    <3> HIDE DEF T
    <3> QED
      BY <2>2, <2>3, <3>1, InductionUpTo
  <2>5. n - 1 \in 0..(n - 1) /\ n - (n - 1) = 1 /\ 1 \in 1..(N + 1)
    BY <1>1, <1>13
  <2> QED
    BY <2>4, <2>5
<1>14. CASE n = 0
  <2>1. 1 \in 1..(N + 1) /\ ~(1 > N) /\ n + 1 = 1
    BY <1>1, <1>14
  <2>2. ~m[1][1]
    BY <1>7, <2>1
  <2> QED
    BY <1>1, <1>7, <1>14, <2>2
<1>15. CASE n # 0
  <2>1. m[1][1] <=> open /\ Named(Q(1), R(1))
    BY <1>13, <1>15
  <2>2. Named(Q(1), R(1)) <=> Named(Without(pattern, "[]"), path)
    BY <1>3, <1>4, Zenon
  <2> QED
    BY <1>1, <1>7, <1>15, <2>1, <2>2
<1> QED
  BY <1>14, <1>15

-----------------------------------------------------------------------------
(* Exclude lists: what is named *)

\* The names between the dots of a key; an array has none.
NamesAt(c) == IF c = "[]" THEN <<>> ELSE Split[c]

\* The names of a path that is one longer.
LEMMA NamesOfAppend ==
    /\ Names(<<>>) = <<>>
    /\ \A path \in Path, c \in Key \union {"[]"} :
          /\ Names(path) \in Seq(Name)
          /\ NamesAt(c) \in Seq(Name)
          /\ Append(path, c) \in Path
          /\ Names(Append(path, c)) = Names(path) \o NamesAt(c)
<1> DEFINE Texts(p) == [i \in DOMAIN p |-> NamesAt(p[i])]
<1>1. \A p : Names(p) = FlattenSeq(Texts(p))
  BY Zenon DEF Names, NamesAt
<1>2. Names(<<>>) = <<>>
  <2>1. Texts(<<>>) = <<>>
    OBVIOUS
  <2> HIDE DEF Texts
  <2> QED
    BY <1>1, <2>1, FlattenSeqOfNone, Zenon
<1>3. \A c \in Key \union {"[]"} : NamesAt(c) \in Seq(Name)
  <2>1. \A k \in Key : Split[k] \in Seq(Name)
    <3>1. Split \in [Key -> Seq(Name) \ {<<>>}]
      BY FilterAssumption
    <3> QED
      BY <3>1
  <2> QED
    BY <2>1 DEF NamesAt
<1>4. ASSUME NEW path \in Path, NEW c \in Key \union {"[]"}
      PROVE  /\ Names(path) \in Seq(Name)
             /\ Append(path, c) \in Path
             /\ Names(Append(path, c)) = Names(path) \o NamesAt(c)
  <2> DEFINE n == Len(path)
             q == Append(path, c)
             a == NamesAt(c)
             t == Texts(path)
             u == Texts(q)
  <2>1. /\ n \in Nat /\ DOMAIN path = 1..n /\ \A i \in 1..n : path[i] \in Key \union {"[]"}
        /\ q \in Path /\ DOMAIN q = 1..(n + 1) /\ q[n + 1] = c
        /\ \A i \in 1..n : q[i] = path[i]
    BY AppendProperties DEF Path
  <2> HIDE DEF q
  <2>2. a \in Seq(Name) /\ \A i \in 1..n : NamesAt(path[i]) \in Seq(Name)
    BY <1>3, <2>1
  <2> HIDE DEF a
  <2>3. t \in Seq(Seq(Name)) /\ Len(t) = n
    BY <2>1, <2>2
  <2>4. u = Append(t, a)
    <3>1. /\ DOMAIN Append(t, a) = 1..(n + 1) /\ Append(t, a)[n + 1] = a
          /\ \A i \in 1..n : Append(t, a)[i] = t[i]
          /\ Append(t, a) = [i \in 1..(n + 1) |-> Append(t, a)[i]]
      <4> HIDE DEF t
      <4> DEFINE v == Append(t, a)
      <4>1. v \in Seq(Seq(Name)) /\ Len(v) = n + 1 /\ v[n + 1] = a /\ \A i \in 1..n : v[i] = t[i]
        BY <2>1, <2>2, <2>3, AppendProperties
      <4> HIDE DEF v
      <4>2. DOMAIN v = 1..(n + 1) /\ v = [i \in 1..(n + 1) |-> v[i]]
        BY <4>1
      <4> QED
        BY <4>1, <4>2 DEF v
    <3>2. \A i \in 1..(n + 1) : i = n + 1 \/ i \in 1..n
      BY <2>1
    <3>3. \A i \in 1..(n + 1) : NamesAt(q[i]) = Append(t, a)[i]
      BY <2>1, <3>1, <3>2 DEF a
    <3>4. u = [i \in 1..(n + 1) |-> NamesAt(q[i])]
      BY <2>1
    <3> HIDE DEF t, u
    <3> QED
      BY <3>1, <3>3, <3>4
  <2>5. FlattenSeq(t) \in Seq(Name) /\ FlattenSeq(Append(t, a)) = FlattenSeq(t) \o a
    <3> HIDE DEF t
    <3> QED
      BY <2>2, <2>3, FlattenSeqOfAppend
  <2> HIDE DEF Texts
  <2> QED
    BY <1>1, <2>1, <2>4, <2>5 DEF a, q
<1> QED
  BY <1>2, <1>3, <1>4

\* On the way from P along q there is no key that is to be left out.
Stays(fields, P, q) ==
    \A i \in 1..Len(q) :
       q[i] # "[]" => ~ShouldExclude(Names(P \o SubSeq(q, 1, i)), fields)

\* The way from P that begins with c goes on from there.
LEMMA StaysFurther ==
    ASSUME NEW fields, NEW P \in Path, NEW c \in Key \union {"[]"}, NEW q \in Path
    PROVE  /\ Stays(fields, P, <<>>)
           /\ Stays(fields, P, <<c>> \o q) <=>
                 /\ c # "[]" => ~ShouldExclude(Names(Append(P, c)), fields)
                 /\ Stays(fields, Append(P, c), q)
<1> DEFINE C == Key \union {"[]"}
           u == <<c>> \o q
           n == Len(q)
           Out(x) == ShouldExclude(Names(x), fields)
<1>1. q \in Seq(C) /\ P \in Seq(C) /\ <<c>> \in Seq(C) /\ Len(<<c>>) = 1 /\ n \in Nat
  BY DEF Path
<1>2. u \in Seq(C) /\ Len(u) = n + 1 /\ u[1] = c /\ \A i \in 1..n : u[i + 1] = q[i]
  BY <1>1, ConsIs, ConcatProperties
<1>3. Append(P, c) = P \o <<c>>
  BY <1>1, AppendIsConcat
<1>4. P \o SubSeq(u, 1, 1) = Append(P, c)
  <2>1. 1 \in 1..Len(u) /\ 1 \in 1..Len(<<c>>)
    BY <1>1, <1>2
  <2>2. SubSeq(u, 1, 1) = SubSeq(<<c>>, 1, 1)
    BY <1>1, <2>1, SubSeqOfConcat1
  <2>3. SubSeq(<<c>>, 1, Len(<<c>>)) = <<c>>
    BY <1>1, SubSeqFull
  <2> QED
    BY <1>1, <1>3, <2>2, <2>3
<1>5. ASSUME NEW i \in 1..n
      PROVE  P \o SubSeq(u, 1, i + 1) = Append(P, c) \o SubSeq(q, 1, i)
  <2> DEFINE x == SubSeq(q, 1, i)
  <2>1. /\ 1 \in 1..Len(u) /\ i + 1 \in 1..Len(u)
        /\ 2 \in (Len(<<c>>) + 1)..(Len(<<c>>) + Len(q))
        /\ i + 1 \in (Len(<<c>>) + 1)..(Len(<<c>>) + Len(q))
        /\ 2 - 1 = 1 /\ (i + 1) - 1 = i /\ 1 + 1 = 2
    BY <1>1, <1>2
  <2>2. SubSeq(u, 1, i + 1) = <<u[1]>> \o SubSeq(u, 1 + 1, i + 1)
    <3> HIDE DEF u
    <3> QED
      BY <1>2, <2>1, SubSeqRecursiveFirst
  <2>3. SubSeq(u, 2, i + 1) = SubSeq(q, 2 - Len(<<c>>), (i + 1) - Len(<<c>>))
    BY <1>1, <2>1, SubSeqOfConcat2
  <2> HIDE DEF u
  <2>4. SubSeq(u, 1, i + 1) = <<c>> \o x
    BY <1>1, <1>2, <2>1, <2>2, <2>3
  <2>5. x \in Seq(C)
    <3> HIDE DEF C, n
    <3>1. 1 \in Int /\ i \in Int /\ \A t \in 1..i : q[t] \in C
      BY <1>1 DEF n
    <3> QED
      BY <3>1, SubSeqProperties
  <2>6. P \o (<<c>> \o x) = (P \o <<c>>) \o x
    <3> DEFINE k == <<c>>
    <3>1. P \in Seq(C) /\ k \in Seq(C)
      BY <1>1
    <3> HIDE DEF x, k, C, n
    <3>2. P \o (k \o x) = (P \o k) \o x
      BY <2>5, <3>1, ConcatAssociative
    <3> QED
      BY <3>2, Zenon DEF k
  <2> QED
    BY <1>3, <2>4, <2>6
<1> HIDE DEF u
<1>6. ASSUME Stays(fields, P, u)
      PROVE  (c # "[]" => ~Out(Append(P, c))) /\ Stays(fields, Append(P, c), q)
  <2>1. 1 \in 1..Len(u) /\ \A i \in 1..n : i + 1 \in 1..Len(u)
    BY <1>1, <1>2
  <2>2. \A i \in 1..Len(u) : u[i] # "[]" => ~Out(P \o SubSeq(u, 1, i))
    BY <1>6 DEF Stays
  <2> HIDE DEF Out
  <2>3. c # "[]" => ~Out(Append(P, c))
    BY <1>2, <1>4, <2>1, <2>2
  <2>4. \A i \in 1..n : q[i] # "[]" => ~Out(Append(P, c) \o SubSeq(q, 1, i))
    BY <1>2, <1>5, <2>1, <2>2
  <2> QED
    BY <2>3, <2>4 DEF Stays, Out
<1>7. ASSUME c # "[]" => ~Out(Append(P, c)), Stays(fields, Append(P, c), q)
      PROVE  Stays(fields, P, u)
  <2>1. \A i \in 1..n : q[i] # "[]" => ~Out(Append(P, c) \o SubSeq(q, 1, i))
    BY <1>7 DEF Stays
  <2> HIDE DEF Out
  <2>2. ASSUME NEW i \in 1..Len(u), u[i] # "[]"
        PROVE  ~Out(P \o SubSeq(u, 1, i))
    <3>1. CASE i = 1
      BY <1>2, <1>4, <1>7, <2>2, <3>1
    <3>2. CASE i # 1
      <4>1. i - 1 \in 1..n /\ (i - 1) + 1 = i
        BY <1>1, <1>2, <3>2
      <4> QED
        BY <1>2, <1>5, <2>1, <2>2, <4>1
    <3> QED
      BY <3>1, <3>2
  <2> QED
    BY <2>2 DEF Stays, Out
<1>8. Stays(fields, P, <<>>)
  BY DEF Stays
<1> QED
  BY <1>6, <1>7, <1>8 DEF u, Out

\* What an exclude list makes of an object and of an array.
LEMMA ExcludedParts ==
    ASSUME NEW fields, NEW d \in Document, NEW path \in Seq(Name),
           NEW r, r = Exclude(fields)[d][path]
    PROVE  /\ r \in Document
           /\ d.kind = "object" =>
                 /\ r.kind = "object" /\ Keys(r.at) = Kept(fields, d.at, path)
                 /\ Keys(r.at) \subseteq Keys(d.at) /\ Keys(d.at) \subseteq Key
                 /\ \A k \in Keys(r.at) :
                       /\ d.at[k] \in Inside(d)
                       /\ r.at[k] \in Document
                       /\ r.at[k] = Exclude(fields)[d.at[k]][path \o Split[k]]
           /\ d.kind = "array" =>
                 /\ r.kind = "array" /\ DOMAIN r.items = DOMAIN d.items
                 /\ \A i \in DOMAIN d.items :
                       /\ i \in Int
                       /\ d.items[i] \in Inside(d)
                       /\ r.items[i] \in Document
                       /\ r.items[i] = Exclude(fields)[d.items[i]][path]
           /\ d.kind \notin {"object", "array"} => r = d
<1> DEFINE E == Exclude(fields)
<1>1. /\ r \in Document /\ r = Excluded(d, path, fields, E)
      /\ \A e \in Document, p \in Seq(Name) : E[e][p] \in Document
  BY ExcludeUnfolds
<1> HIDE DEF E
<1>2. CASE d.kind = "object"
  <2> DEFINE K == Kept(fields, d.at, path)
             g == [k \in K |-> E[d.at[k]][path \o Split[k]]]
  <2>1. r = Object(g)
    BY <1>1, <1>2 DEF Excluded
  <2>2. K \subseteq Keys(d.at) /\ K \in SUBSET Key /\ Keys(d.at) \subseteq Key
    BY DEF Kept, Keys
  <2>3. \A k \in K : /\ d.at[k] \in Inside(d) /\ d.at[k] \in Document
                     /\ path \o Split[k] \in Seq(Name)
    BY <1>2, <2>2, InsideOfDocument, PathsBelow DEF Inside
  <2> HIDE DEF K
  <2>4. g \in [K -> Document]
    BY <1>1, <2>3
  <2>5. \A k \in K : g[k] = E[d.at[k]][path \o Split[k]] /\ g[k] \in Document
    BY <2>4
  <2> HIDE DEF g
  <2>6. r.kind = "object" /\ Keys(r.at) = K /\ \A k \in K : r.at[k] = g[k]
    BY <2>1, <2>2, <2>4, DocumentsHaveKinds, KeysOfObject
  <2> QED
    BY <1>1, <1>2, <2>2, <2>3, <2>5, <2>6 DEF K, E
<1>3. CASE d.kind = "array"
  <2> DEFINE at(i) == E[d.items[i]][path]
             D == DOMAIN d.items
             s == [i \in D |-> at(i)]
  <2>1. d.items \in Seq(Inside(d)) /\ \A e \in Inside(d) : e \in Document
    BY <1>3, InsideOfDocument DEF Inside
  <2>2. r = Array(s)
    BY <1>1, <1>3 DEF Excluded
  <2>3. /\ DOMAIN s = D
        /\ \A i \in D : s[i] = at(i)
    <3> HIDE DEF D, at
    <3> QED
      OBVIOUS
  <2> HIDE DEF s
  <2>4. r.kind = "array" /\ r.items = s
    BY <2>2, DocumentsHaveKinds
  <2>5. \A i \in DOMAIN d.items : i \in Int /\ d.items[i] \in Inside(d) /\ d.items[i] \in Document
    <3> DEFINE q == d.items
               I == Inside(d)
    <3>1. q \in Seq(I)
      BY <2>1
    <3> HIDE DEF q, I
    <3>2. DOMAIN q = 1..Len(q) /\ Len(q) \in Nat
      BY <3>1
    <3>3. \A i \in 1..Len(q) : q[i] \in I
      BY <3>1, <3>2
    <3>4. \A i \in 1..Len(q) : i \in Int
      BY <3>2
    <3> QED
      BY <2>1, <3>2, <3>3, <3>4, Zenon DEF q, I
  <2> QED
    BY <1>1, <1>3, <2>3, <2>4, <2>5 DEF E
<1>4. CASE d.kind \notin {"object", "array"}
  BY <1>1, <1>4 DEF Excluded
<1> QED
  BY <1>1, <1>2, <1>3, <1>4

\* What is below a part of a document.
LEMMA BelowIs ==
    ASSUME NEW d \in Document, NEW part, NEW l
    PROVE  l \in Under(part, Leaves[d]) <=>
              \E m \in Leaves[d] : m[1] \in Path /\ l = <<<<part>> \o m[1], m[2]>>
<1>1. \A m \in Leaves[d] : m[1] \in Path
  BY LeavesUnfold DEF Leaf
<1> QED
  BY <1>1 DEF Under

\* An exclude list leaves the values that no key to be left out leads to.
LEMMA RestIsWhatStays ==
    ASSUME NEW fields
    PROVE  \A d \in Document, P \in Path : \A l :
              l \in Leaves[Exclude(fields)[d][Names(P)]] <=>
                 l \in Leaves[d] /\ Stays(fields, P, l[1])
<1> DEFINE E == Exclude(fields)
           Law(d, P) == \A l : l \in Leaves[E[d][Names(P)]] <=>
                                  l \in Leaves[d] /\ Stays(fields, P, l[1])
           S == {d \in Document : \A P \in Path : Law(d, P)}
<1>1. ASSUME NEW d \in Document, Inside(d) \subseteq S, NEW P \in Path
      PROVE  Law(d, P)
  <2> DEFINE r == E[d][Names(P)]
  <2>1. Names(P) \in Seq(Name)
    <3>1. "[]" \in Key \union {"[]"}
      OBVIOUS
    <3> QED
      BY <3>1, NamesOfAppend
  <2>2. \A e \in Inside(d), Q \in Path : e \in Document /\ Law(e, Q)
    BY <1>1
  <2> HIDE DEF S
  <2>3. r \in Document
    BY <2>1, ExcludedParts
  <2>4. CASE d.kind = "object"
    <3>1. /\ r.kind = "object" /\ Keys(r.at) = Kept(fields, d.at, Names(P))
          /\ Keys(r.at) \subseteq Keys(d.at) /\ Keys(d.at) \subseteq Key
          /\ \A k \in Keys(r.at) : /\ d.at[k] \in Inside(d)
                                   /\ r.at[k] \in Document
                                   /\ r.at[k] = E[d.at[k]][Names(P) \o Split[k]]
      BY <2>1, <2>4, ExcludedParts
    <3> HIDE DEF E, r
    <3>2. ASSUME NEW k \in Key
          PROVE  /\ Append(P, k) \in Path
                 /\ Names(Append(P, k)) = Names(P) \o Split[k]
                 /\ k # "[]"
      <4>1. k # "[]"
        BY FilterAssumption
      <4> QED
        BY <4>1, NamesOfAppend DEF NamesAt
    <3>3. \A k \in Key, q \in Path :
             Stays(fields, P, <<k>> \o q) <=>
                /\ ~ShouldExclude(Names(P) \o Split[k], fields)
                /\ Stays(fields, Append(P, k), q)
      BY <3>2, StaysFurther
    <3>4. \A k \in Keys(d.at) : k \in Keys(r.at) <=> ~ShouldExclude(Names(P) \o Split[k], fields)
      BY <3>1 DEF Kept
    <3>5. \A k \in Keys(r.at) : \A m :
             m \in Leaves[r.at[k]] <=>
                m \in Leaves[d.at[k]] /\ Stays(fields, Append(P, k), m[1])
      <4> TAKE k \in Keys(r.at)
      <4> DEFINE Q == Append(P, k)
      <4>1. k \in Key /\ d.at[k] \in Inside(d) /\ r.at[k] = E[d.at[k]][Names(P) \o Split[k]]
        BY <3>1
      <4>2. Q \in Path /\ Names(Q) = Names(P) \o Split[k]
        BY <3>2, <4>1
      <4> HIDE DEF Q
      <4>3. Law(d.at[k], Q)
        BY <2>2, <4>1, <4>2
      <4>4. r.at[k] = E[d.at[k]][Names(Q)]
        BY <4>1, <4>2
      <4> QED
        BY <4>3, <4>4 DEF Q
    <3>6. \A k \in Keys(d.at) : d.at[k] \in Document
      BY <2>4, InsideOfDocument DEF Inside
    <3>7. ASSUME NEW l, l \in Leaves[r]
          PROVE  l \in Leaves[d] /\ Stays(fields, P, l[1])
      <4>1. PICK k \in Keys(r.at) : l \in Under(k, Leaves[r.at[k]])
        BY <2>3, <3>1, <3>7, LeavesOfParts
      <4>2. PICK m \in Leaves[r.at[k]] : m[1] \in Path /\ l = <<<<k>> \o m[1], m[2]>>
        <5>1. r.at[k] \in Document
          BY <3>1
        <5> QED
          BY <4>1, <5>1, BelowIs
      <4>3. m \in Leaves[d.at[k]] /\ Stays(fields, Append(P, k), m[1])
        BY <3>5, <4>2
      <4>4. l \in Under(k, Leaves[d.at[k]])
        BY <3>1, <3>6, <4>2, <4>3, BelowIs
      <4>5. l \in Leaves[d]
        BY <2>4, <3>1, <4>4, LeavesOfParts
      <4>6. Stays(fields, P, <<k>> \o m[1])
        BY <3>1, <3>3, <3>4, <4>2, <4>3
      <4> QED
        BY <4>2, <4>5, <4>6
    <3>8. ASSUME NEW l, l \in Leaves[d], Stays(fields, P, l[1])
          PROVE  l \in Leaves[r]
      <4>1. PICK k \in Keys(d.at) : l \in Under(k, Leaves[d.at[k]])
        BY <2>4, <3>8, LeavesOfParts
      <4>2. PICK m \in Leaves[d.at[k]] : m[1] \in Path /\ l = <<<<k>> \o m[1], m[2]>>
        <5>1. d.at[k] \in Document
          BY <3>6
        <5> QED
          BY <4>1, <5>1, BelowIs
      <4>3. l[1] = <<k>> \o m[1]
        BY <4>2
      <4>4. Stays(fields, P, <<k>> \o m[1])
        BY <3>8, <4>3, Zenon
      <4>5. k \in Keys(r.at) /\ Stays(fields, Append(P, k), m[1])
        BY <3>1, <3>3, <3>4, <4>2, <4>4
      <4>6. m \in Leaves[r.at[k]]
        BY <3>5, <4>2, <4>5
      <4>7. l \in Under(k, Leaves[r.at[k]])
        BY <3>1, <4>2, <4>5, <4>6, BelowIs
      <4> QED
        BY <2>3, <3>1, <4>5, <4>7, LeavesOfParts
    <3> QED
      BY <3>7, <3>8 DEF r
  <2>5. CASE d.kind = "array"
    <3>1. /\ r.kind = "array" /\ DOMAIN r.items = DOMAIN d.items
          /\ \A i \in DOMAIN d.items : /\ d.items[i] \in Inside(d)
                                       /\ r.items[i] \in Document
                                       /\ r.items[i] = E[d.items[i]][Names(P)]
      BY <2>1, <2>5, ExcludedParts
    <3> HIDE DEF E, r
    <3> DEFINE B == Append(P, "[]")
    <3>2. B \in Path /\ Names(B) = Names(P)
      <4>1. "[]" \in Key \union {"[]"}
        OBVIOUS
      <4>2. B \in Path /\ Names(B) = Names(P) \o NamesAt("[]")
        BY <4>1, NamesOfAppend
      <4>3. Names(P) \o <<>> = Names(P)
        BY <2>1, ConcatEmptySeq
      <4> QED
        BY <4>2, <4>3 DEF NamesAt
    <3>3. \A q \in Path : Stays(fields, P, <<"[]">> \o q) <=> Stays(fields, B, q)
      BY StaysFurther
    <3> HIDE DEF B
    <3>4. \A i \in DOMAIN d.items : \A m :
             m \in Leaves[r.items[i]] <=> m \in Leaves[d.items[i]] /\ Stays(fields, B, m[1])
      <4> TAKE i \in DOMAIN d.items
      <4>1. d.items[i] \in Inside(d) /\ r.items[i] = E[d.items[i]][Names(B)]
        BY <3>1, <3>2
      <4> QED
        BY <2>2, <3>2, <4>1
    <3>5. \A i \in DOMAIN d.items : d.items[i] \in Document
      BY <2>2, <3>1, <3>2
    <3>6. ASSUME NEW l, l \in Leaves[r]
          PROVE  l \in Leaves[d] /\ Stays(fields, P, l[1])
      <4>1. PICK i \in DOMAIN d.items : l \in Under("[]", Leaves[r.items[i]])
        BY <2>3, <3>1, <3>6, LeavesOfParts
      <4>2. PICK m \in Leaves[r.items[i]] : m[1] \in Path /\ l = <<<<"[]">> \o m[1], m[2]>>
        BY <3>1, <4>1, BelowIs
      <4>3. m \in Leaves[d.items[i]] /\ Stays(fields, B, m[1])
        BY <3>4, <4>2
      <4>4. l \in Under("[]", Leaves[d.items[i]])
        BY <3>5, <4>2, <4>3, BelowIs
      <4>5. l \in Leaves[d]
        BY <2>5, <4>4, LeavesOfParts
      <4> QED
        BY <3>3, <4>2, <4>3, <4>5
    <3>7. ASSUME NEW l, l \in Leaves[d], Stays(fields, P, l[1])
          PROVE  l \in Leaves[r]
      <4>1. PICK i \in DOMAIN d.items : l \in Under("[]", Leaves[d.items[i]])
        BY <2>5, <3>7, LeavesOfParts
      <4>2. PICK m \in Leaves[d.items[i]] : m[1] \in Path /\ l = <<<<"[]">> \o m[1], m[2]>>
        BY <3>5, <4>1, BelowIs
      <4>3. l[1] = <<"[]">> \o m[1]
        BY <4>2
      <4>4. Stays(fields, B, m[1])
        BY <3>3, <3>7, <4>2, <4>3
      <4>5. m \in Leaves[r.items[i]]
        BY <3>4, <4>2, <4>4
      <4>6. l \in Under("[]", Leaves[r.items[i]])
        BY <3>1, <4>2, <4>5, BelowIs
      <4> QED
        BY <2>3, <3>1, <4>6, LeavesOfParts
    <3> QED
      BY <3>6, <3>7 DEF r
  <2>6. CASE d.kind \notin {"object", "array"}
    <3>1. r = d
      BY <2>1, <2>6, ExcludedParts
    <3>2. Stays(fields, P, <<>>)
      BY DEF Stays
    <3>3. \A l \in Leaves[d] : l[1] = <<>>
      <4>1. Leaves[d] = {} \/ Leaves[d] = {<<<<>>, d.is>>}
        <5>1. d.kind \in {"null", "value"}
          BY <2>6, DocumentsHaveKinds
        <5> QED
          BY <5>1, LeavesOfParts
      <4> QED
        BY <4>1
    <3>4. \A l \in Leaves[d] : Stays(fields, P, l[1])
      BY <3>2, <3>3, Zenon
    <3> QED
      BY <3>1, <3>4
  <2> QED
    BY <2>4, <2>5, <2>6
<1>2. Document \subseteq S
  <2>1. \A d \in Document : Inside(d) \subseteq S => d \in S
    BY <1>1
  <2> HIDE DEF S
  <2> QED
    BY <2>1, DocumentInduction
<1> QED
  BY <1>2

\* An exclude list adds, moves and changes nothing.
LEMMA RestIsPart ==
    ASSUME NEW fields
    PROVE  \A d \in Document, path \in Seq(Name) : PartOf[d][Exclude(fields)[d][path]]
<1> DEFINE E == Exclude(fields)
           S == {d \in Document : \A path \in Seq(Name) : PartOf[d][E[d][path]]}
<1>1. ASSUME NEW d \in Document, Inside(d) \subseteq S, NEW path \in Seq(Name)
      PROVE  PartOf[d][E[d][path]]
  <2> DEFINE r == E[d][path]
  <2>1. \A e \in Inside(d), p \in Seq(Name) : PartOf[e][E[e][p]]
    BY <1>1
  <2>2. r \in Document
    BY ExcludedParts
  <2> HIDE DEF S
  <2>3. CASE d.kind = "object"
    <3>1. /\ r.kind = "object"
          /\ Keys(r.at) \subseteq Keys(d.at) /\ Keys(d.at) \subseteq Key
          /\ \A k \in Keys(r.at) : /\ d.at[k] \in Inside(d)
                                   /\ r.at[k] = E[d.at[k]][path \o Split[k]]
      BY <2>3, ExcludedParts
    <3> HIDE DEF E, r
    <3>2. ASSUME NEW k \in Keys(r.at)
          PROVE  PartOf[d.at[k]][r.at[k]]
      <4>1. k \in Key
        BY <3>1
      <4>2. path \o Split[k] \in Seq(Name)
        BY <4>1, PathsBelow
      <4>3. d.at[k] \in Inside(d) /\ r.at[k] = E[d.at[k]][path \o Split[k]]
        BY <3>1
      <4> QED
        BY <2>1, <4>2, <4>3
    <3>3. IsPart(d, r, PartOf)
      BY <2>3, <3>1, <3>2 DEF IsPart
    <3> QED
      BY <2>2, <3>3, PartOfUnfolds DEF r
  <2>4. CASE d.kind = "array"
    <3>1. /\ r.kind = "array" /\ DOMAIN r.items = DOMAIN d.items
          /\ \A i \in DOMAIN d.items : /\ i \in Int
                                       /\ d.items[i] \in Inside(d)
                                       /\ r.items[i] = E[d.items[i]][path]
      BY <2>4, ExcludedParts
    <3> HIDE DEF E, r
    <3> DEFINE at == [i \in DOMAIN r.items |-> i]
    <3>2. \A i \in DOMAIN r.items : PartOf[d.items[i]][r.items[i]]
      BY <2>1, <3>1
    <3>3. /\ at \in [DOMAIN r.items -> DOMAIN d.items] /\ Increasing(at)
          /\ \A i \in DOMAIN r.items : PartOf[d.items[at[i]]][r.items[i]]
      BY <3>1, <3>2 DEF Increasing
    <3>4. IsPart(d, r, PartOf)
      <4> HIDE DEF at
      <4> QED
        BY <2>4, <3>1, <3>3 DEF IsPart
    <3> QED
      BY <2>2, <3>4, PartOfUnfolds DEF r
  <2>5. CASE d.kind \notin {"object", "array"}
    <3>1. r = d
      BY <2>5, ExcludedParts
    <3> QED
      BY <3>1, WholeAndNoneAreParts
  <2> QED
    BY <2>3, <2>4, <2>5
<1>2. Document \subseteq S
  <2>1. \A d \in Document : Inside(d) \subseteq S => d \in S
    BY <1>1
  <2> HIDE DEF S
  <2> QED
    BY <2>1, DocumentInduction
<1> QED
  BY <1>2

\* A key is left out when some field that does not end in an array names it.
LEMMA ExcludedIsDenoted ==
    ASSUME NEW fields \in SUBSET Seq(Part), NEW q \in Path, NEW i \in 1..Len(q)
    PROVE  (q[i] # "[]" /\ ShouldExclude(Names(<<>> \o SubSeq(q, 1, i)), fields)) <=>
              \E f \in fields : ~EndsInArray(f) /\ Denotes(f, SubSeq(q, 1, i))
<1> DEFINE x == SubSeq(q, 1, i)
           y == SubSeq(q, 1, i - 1)
           P(f) == ParsePathPattern(f)
<1>1. /\ y \in Path /\ q[i] \in Key \union {"[]"} /\ x = Append(y, q[i])
  BY LastElement DEF Path
<1> HIDE DEF x, y
<1>2. x \in Path /\ x # <<>> /\ x[Len(x)] = q[i] /\ <<>> \o x = x
  <2>1. x \in Seq(Key \union {"[]"}) /\ x # <<>> /\ x[Len(x)] = q[i]
    BY <1>1, AppendProperties DEF Path
  <2> QED
    BY <2>1, ConcatEmptySeq DEF Path
<1>3. \A f \in fields : P(f) \in Seq(Part)
  <2> TAKE f \in fields
  <2>1. Without(f, ".") \in Seq(Part \ {"."})
    BY WithoutLeavesOthers
  <2>2. Without(f, ".") \in Seq(Part)
    BY <2>1, SeqMonotonic
  <2> QED
    BY <2>2 DEF ParsePathPattern
<1>4. CASE q[i] = "[]"
  BY <1>2, <1>4 DEF Denotes, x
<1>5. CASE q[i] # "[]"
  <2> DEFINE n == Names(x)
  <2>1. n \in Seq(Name) /\ n # <<>>
    <3>1. q[i] \in Key /\ NamesAt(q[i]) = Split[q[i]]
      BY <1>1, <1>5 DEF NamesAt
    <3>2. Names(y) \in Seq(Name) /\ n = Names(y) \o Split[q[i]]
      BY <1>1, <3>1, NamesOfAppend
    <3>3. Split[q[i]] \in Seq(Name) /\ Split[q[i]] # <<>>
      BY <3>1, PathsBelow, <3>2
    <3>4. n \in Seq(Name) /\ Len(n) = Len(Names(y)) + Len(Split[q[i]])
      BY <3>2, <3>3, ConcatProperties
    <3>5. Len(Names(y)) \in Nat /\ Len(Split[q[i]]) \in Nat \ {0}
      BY <3>2, <3>3
    <3>6. Len(n) # 0
      BY <3>4, <3>5
    <3> QED
      BY <3>4, <3>6
  <2> HIDE DEF n
  <2>2. \A f \in fields : MatchPathSegments(n, P(f)) <=>
           P(f) # <<>> /\ P(f)[Len(P(f))] # "[]" /\ Named(Without(P(f), "[]"), n)
    BY <1>3, <2>1, MatchIsNamed
  <2>3. ASSUME NEW f \in fields
        PROVE  MatchPathSegments(n, P(f)) <=> ~EndsInArray(f) /\ Denotes(f, x)
    <3>1. Denotes(f, x) <=> Named(Without(P(f), "[]"), n)
      BY <1>2, <1>5 DEF Denotes, Named, n
    <3>2. EndsInArray(f) <=> P(f) # <<>> /\ P(f)[Len(P(f))] = "[]"
      BY DEF EndsInArray
    <3>3. P(f) = <<>> => ~Named(Without(P(f), "[]"), n)
      <4>1. Without(<<>>, "[]") = <<>>
        BY WithoutOfNone
      <4>2. ~Named(<<>>, n)
        BY <2>1 DEF Named
      <4> QED
        BY <4>1, <4>2, Zenon
    <3> HIDE DEF P
    <3> QED
      BY <2>2, <3>1, <3>2, <3>3, Zenon
  <2>4. ShouldExclude(n, fields) <=> \E f \in fields : MatchPathSegments(n, P(f))
    BY DEF ShouldExclude
  <2>5. Names(<<>> \o SubSeq(q, 1, i)) = n
    BY <1>2 DEF x, n
  <2> QED
    BY <1>5, <2>3, <2>4, <2>5 DEF x
<1> QED
  BY <1>4, <1>5

\* An exclude list whose fields name keys removes exactly those, wherever they
\* are in objects and arrays (excludeRecursive).
THEOREM ExactlyWhatIsNamedIsExcluded ==
    Spec => []ExactlyNamedIsExcluded
<1>1. Inv => ExactlyNamedIsExcluded
  <2> DEFINE fields == filter.fields
             Out(p) == \E f \in fields, i \in 1..Len(p) : Denotes(f, SubSeq(p, 1, i))
  <2> SUFFICES ASSUME Inv, result # NoResult, ~Including,
                      \A f \in fields : ~EndsInArray(f)
               PROVE  PartOf[data][result] /\ Leaves[result] = {l \in Leaves[data] : ~Out(l[1])}
    BY DEF ExactlyNamedIsExcluded
  <2>1. data \in Document /\ fields \in SUBSET Seq(Part) /\ <<>> \in Seq(Name)
    BY FilterTypes
  <2>2. result = Exclude(fields)[data][<<>>]
    BY ExcludeRecursiveIs DEF Inv, Apply, Including
  <2> HIDE DEF fields
  <2>3. PartOf[data][result]
    BY <2>1, <2>2, RestIsPart
  <2>4. \A l : l \in Leaves[result] <=> l \in Leaves[data] /\ Stays(fields, <<>>, l[1])
    <3>1. <<>> \in Path /\ Names(<<>>) = <<>>
      BY NamesOfAppend DEF Path
    <3>2. result = Exclude(fields)[data][Names(<<>>)]
      BY <2>2, <3>1, Zenon
    <3> QED
      BY <2>1, <3>1, <3>2, RestIsWhatStays
  <2>5. ASSUME NEW q \in Path
        PROVE  Stays(fields, <<>>, q) <=> ~Out(q)
    <3> DEFINE Named1(i) == \E f \in fields : Denotes(f, SubSeq(q, 1, i))
    <3>1. \A i \in 1..Len(q) :
             (q[i] # "[]" /\ ShouldExclude(Names(<<>> \o SubSeq(q, 1, i)), fields)) <=> Named1(i)
      BY <2>1, ExcludedIsDenoted
    <3>2. Out(q) <=> \E i \in 1..Len(q) : Named1(i)
      BY Zenon
    <3> HIDE DEF Out, Named1
    <3> QED
      BY <3>1, <3>2 DEF Stays
  <2>6. \A l \in Leaves[data] : l[1] \in Path
    BY <2>1, LeavesUnfold DEF Leaf
  <2> HIDE DEF Out
  <2> QED
    BY <2>3, <2>4, <2>5, <2>6
<1> QED
  BY <1>1, AlwaysApplied, PTL

=============================================================================
