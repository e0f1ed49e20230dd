----------------------------- MODULE SequenceFacts -----------------------------
(***************************************************************************)
(* What Append, Tail and \o do to the elements of a sequence, in the form  *)
(* the proofs about queues and wires use, and to the number of those that  *)
(* are in a set; and the least and the greatest element of a set.          *)
(***************************************************************************)
EXTENDS SequenceTheorems, FiniteSetTheorems, TLAPS

\* Append adds one element at the end and leaves the others where they are.
LEMMA AppendFacts ==
  ASSUME NEW S, NEW s \in Seq(S), NEW x \in S
  PROVE  /\ Append(s, x) \in Seq(S)
         /\ Append(s, x) # <<>>
         /\ Len(Append(s, x)) = Len(s) + 1
         /\ DOMAIN Append(s, x) = 1 .. Len(s) + 1
         /\ \A i \in 1 .. Len(s) : Append(s, x)[i] = s[i]
         /\ Append(s, x)[Len(s) + 1] = x
BY AppendProperties, LenProperties

\* Tail takes the first element away and moves the others one place down.
LEMMA TailFacts ==
  ASSUME NEW S, NEW s \in Seq(S), s # <<>>
  PROVE  /\ Tail(s) \in Seq(S)
         /\ Len(s) \in Nat \ {0}
         /\ Len(Tail(s)) = Len(s) - 1
         /\ DOMAIN Tail(s) = 1 .. Len(s) - 1
         /\ \A i \in 1 .. Len(s) - 1 : Tail(s)[i] = s[i + 1]
         /\ Head(s) = s[1]
         /\ Head(s) \in S
<1>1. Len(s) \in Nat \ {0}
  BY EmptySeq
<1>2. /\ Head(s) \in S
      /\ Tail(s) \in Seq(S)
      /\ Len(Tail(s)) = Len(s) - 1
      /\ \A i \in 1 .. Len(Tail(s)) : Tail(s)[i] = s[i + 1]
  BY HeadTailProperties
<1>3. DOMAIN Tail(s) = 1 .. Len(Tail(s))
  BY <1>2, LenProperties
<1>4. Head(s) = s[1]
  OBVIOUS
<1> QED
  BY <1>1, <1>2, <1>3, <1>4

\* A function on 1 .. n is a sequence of n elements.
LEMMA BlockFacts ==
  ASSUME NEW S, NEW n \in Nat, NEW f \in [1 .. n -> S]
  PROVE  f \in Seq(S) /\ Len(f) = n
<1>1. f \in Seq(S)
  BY SeqDef
<1>2. DOMAIN f = 1 .. n /\ DOMAIN f = 1 .. Len(f) /\ Len(f) \in Nat
  BY <1>1, LenProperties
<1> QED
  BY <1>1, <1>2

\* \o puts it behind the others.
LEMMA ConcatFacts ==
  ASSUME NEW S, NEW s \in Seq(S), NEW n \in Nat, NEW f \in [1 .. n -> S]
  PROVE  /\ s \o f \in Seq(S)
         /\ Len(s \o f) = Len(s) + n
         /\ DOMAIN (s \o f) = 1 .. Len(s) + n
         /\ \A i \in 1 .. Len(s) : (s \o f)[i] = s[i]
         /\ \A i \in 1 .. n : (s \o f)[Len(s) + i] = f[i]
<1>1. f \in Seq(S) /\ Len(f) = n /\ Len(s) \in Nat
  BY BlockFacts, LenProperties
<1>2. /\ s \o f \in Seq(S)
      /\ Len(s \o f) = Len(s) + n
      /\ \A i \in 1 .. Len(s) + n : (s \o f)[i] = IF i <= Len(s) THEN s[i] ELSE f[i - Len(s)]
  BY <1>1, ConcatProperties
<1>3. DOMAIN (s \o f) = 1 .. Len(s) + n
  BY <1>2, LenProperties
<1>4. \A i \in 1 .. Len(s) : (s \o f)[i] = s[i]
  BY <1>1, <1>2
<1>5. ASSUME NEW i \in 1 .. n PROVE (s \o f)[Len(s) + i] = f[i]
  <2>1. Len(s) + i \in 1 .. Len(s) + n /\ ~(Len(s) + i <= Len(s)) /\ (Len(s) + i) - Len(s) = i
    BY <1>1
  <2> QED
    BY <1>2, <2>1
<1> QED
  BY <1>2, <1>3, <1>4, <1>5

\* The two parts a sequence is cut into.
LEMMA CutFacts ==
  ASSUME NEW S, NEW t \in Seq(S), NEW k \in 0 .. Len(t)
  PROVE  LET front == SubSeq(t, 1, k)
             rest == SubSeq(t, k + 1, Len(t))
         IN  /\ front \in Seq(S) /\ rest \in Seq(S)
             /\ Len(front) = k /\ Len(rest) = Len(t) - k
             /\ \A i \in 1 .. k : front[i] = t[i]
             /\ \A i \in 1 .. Len(t) - k : rest[i] = t[k + i]
<1> DEFINE front == SubSeq(t, 1, k)
           rest == SubSeq(t, k + 1, Len(t))
<1>1. /\ Len(t) \in Nat /\ k \in Nat /\ k <= Len(t)
      /\ \A i \in 1 .. Len(t) : t[i] \in S
  BY LenProperties, ElementOfSeq
<1>2. /\ front \in Seq(S) /\ Len(front) = k
      /\ \A i \in 1 .. k : front[i] = t[i]
  <2>1. \A i \in 1 .. k : t[i] \in S
    BY <1>1
  <2>2. /\ front \in Seq(S) /\ Len(front) = IF 1 <= k THEN k - 1 + 1 ELSE 0
        /\ \A i \in 1 .. k - 1 + 1 : front[i] = t[1 + i - 1]
    BY <1>1, <2>1, SubSeqProperties
  <2> HIDE DEF front
  <2>3. \A i \in 1 .. k : 1 + i - 1 = i /\ i \in 1 .. k - 1 + 1
    BY <1>1
  <2> QED
    BY <1>1, <2>2, <2>3
<1>3. /\ rest \in Seq(S) /\ Len(rest) = Len(t) - k
      /\ \A i \in 1 .. Len(t) - k : rest[i] = t[k + i]
  <2>1. \A i \in k + 1 .. Len(t) : t[i] \in S
    BY <1>1
  <2>2. /\ rest \in Seq(S)
        /\ Len(rest) = IF k + 1 <= Len(t) THEN Len(t) - (k + 1) + 1 ELSE 0
        /\ \A i \in 1 .. Len(t) - (k + 1) + 1 : rest[i] = t[(k + 1) + i - 1]
    BY <1>1, <2>1, SubSeqProperties
  <2> HIDE DEF rest
  <2>3. \A i \in 1 .. Len(t) - k : (k + 1) + i - 1 = k + i /\ i \in 1 .. Len(t) - (k + 1) + 1
    BY <1>1
  <2> QED
    BY <1>1, <2>2, <2>3
<1> QED
  BY <1>2, <1>3

\* Put together again, behind another sequence, they are what they were.
LEMMA CutRow ==
  ASSUME NEW S, NEW s \in Seq(S), NEW t \in Seq(S), NEW k \in 0 .. Len(t)
  PROVE  s \o t = (s \o SubSeq(t, 1, k)) \o SubSeq(t, k + 1, Len(t))
<1> DEFINE front == SubSeq(t, 1, k)
           rest == SubSeq(t, k + 1, Len(t))
<1>1. /\ Len(t) \in Nat /\ k \in Nat /\ k <= Len(t)
      /\ front \in Seq(S) /\ rest \in Seq(S)
      /\ Len(front) = k /\ Len(rest) = Len(t) - k
      /\ \A i \in 1 .. k : front[i] = t[i]
      /\ \A i \in 1 .. Len(t) - k : rest[i] = t[k + i]
  BY LenProperties, CutFacts
<1>2. t = front \o rest
  <2> HIDE DEF front, rest
  <2>1. /\ front \o rest \in Seq(S) /\ Len(front \o rest) = Len(t)
        /\ \A i \in 1 .. Len(t) :
             (front \o rest)[i] = IF i <= k THEN front[i] ELSE rest[i - k]
    <3>1. k + (Len(t) - k) = Len(t)
      BY <1>1
    <3> QED
      BY <1>1, <3>1, ConcatProperties
  <2>2. ASSUME NEW i \in 1 .. Len(t) PROVE (front \o rest)[i] = t[i]
    <3>1. CASE i <= k
      BY <1>1, <2>1, <3>1
    <3>2. CASE ~(i <= k)
      <4>1. i - k \in 1 .. Len(t) - k /\ k + (i - k) = i
        BY <1>1, <3>2
      <4> QED
        BY <1>1, <2>1, <3>2, <4>1
    <3> QED
      BY <3>1, <3>2
  <2> QED
    BY <1>1, <2>1, <2>2, SeqEqual
<1>3. s \o (front \o rest) = (s \o front) \o rest
  <2>1. \A a, b \in Seq(S) : s \o (a \o b) = (s \o a) \o b
    BY ConcatAssociative, SMTT(30)
  <2>2. front \in Seq(S) /\ rest \in Seq(S)
    BY <1>1
  <2> HIDE DEF front, rest
  <2> QED
    BY <2>1, <2>2
<1> HIDE DEF front, rest
<1>4. s \o t = (s \o front) \o rest
  BY <1>2, <1>3
<1> QED
  BY <1>4 DEF front, rest

\* Stated by themselves: the SMT backend finds them only without other facts.
LEMMA PredecessorDiffers == \A n \in Nat : n - 1 # n
OBVIOUS

LEMMA SuccessorDiffers == \A n \in Nat : n + 1 # n
OBVIOUS

--------------------------------------------------------------------------------
(* Counting *)

\* The elements of s that are in A.
CountIn(s, A) == Cardinality({i \in DOMAIN s : s[i] \in A})

\* A set of numbers has as many elements as the set of their successors.
LEMMA ShiftedCardinality ==
  ASSUME NEW T \in SUBSET Nat, IsFiniteSet(T)
  PROVE  LET shifted == {i + 1 : i \in T}
         IN  IsFiniteSet(shifted) /\ Cardinality(shifted) = Cardinality(T)
<1> DEFINE shifted == {i + 1 : i \in T}
           f == [i \in T |-> i + 1]
<1>1. f \in [T -> shifted]
  OBVIOUS
<1>2. \A i, j \in T : f[i] = f[j] => i = j
  OBVIOUS
<1>3. \A k \in shifted : \E i \in T : f[i] = k
  OBVIOUS
<1> HIDE DEF f
<1>4. f \in Bijection(T, shifted)
  BY <1>1, <1>2, <1>3 DEF Bijection, Injection, Surjection, IsInjective
<1>5. ExistsBijection(T, shifted)
  BY <1>4 DEF ExistsBijection
<1> QED
  BY <1>5, FS_Bijection

\* The elements that are counted are finitely many.
LEMMA CountType ==
  ASSUME NEW S, NEW s \in Seq(S), NEW A
  PROVE  /\ IsFiniteSet({i \in DOMAIN s : s[i] \in A})
         /\ CountIn(s, A) \in Nat
<1>1. Len(s) \in Nat /\ DOMAIN s = 1 .. Len(s)
  BY LenProperties
<1>2. IsFiniteSet(1 .. Len(s))
  BY <1>1, FS_Interval
<1>3. IsFiniteSet({i \in DOMAIN s : s[i] \in A})
  BY <1>1, <1>2, FS_Subset
<1> QED
  BY <1>3, FS_CardinalityType DEF CountIn

\* An element put at the end counts if it is in A.
LEMMA CountAppend ==
  ASSUME NEW S, NEW s \in Seq(S), NEW x \in S, NEW A
  PROVE  CountIn(Append(s, x), A) = CountIn(s, A) + IF x \in A THEN 1 ELSE 0
<1> DEFINE T == {i \in DOMAIN s : s[i] \in A}
           U == {i \in DOMAIN Append(s, x) : Append(s, x)[i] \in A}
<1>1. /\ Len(s) \in Nat /\ DOMAIN s = 1 .. Len(s)
      /\ DOMAIN Append(s, x) = 1 .. Len(s) + 1
      /\ \A i \in 1 .. Len(s) : Append(s, x)[i] = s[i]
      /\ Append(s, x)[Len(s) + 1] = x
  BY LenProperties, AppendFacts
<1>2. 1 .. Len(s) + 1 = 1 .. Len(s) \cup {Len(s) + 1} /\ Len(s) + 1 \notin 1 .. Len(s)
  BY <1>1
<1>3. IsFiniteSet(T) /\ Cardinality(T) \in Nat
  BY CountType DEF CountIn
<1>4. CASE x \in A
  <2>1. U = T \cup {Len(s) + 1} /\ Len(s) + 1 \notin T
    BY <1>1, <1>2, <1>4
  <2>2. Cardinality(U) = Cardinality(T) + 1
    BY <1>3, <2>1, FS_AddElement
  <2> QED
    BY <1>4, <2>2 DEF CountIn
<1>5. CASE x \notin A
  <2>1. U = T
    BY <1>1, <1>2, <1>5
  <2>2. CountIn(Append(s, x), A) = Cardinality(T) /\ CountIn(s, A) = Cardinality(T)
    BY <2>1 DEF CountIn
  <2> HIDE DEF T
  <2> QED
    BY <1>3, <1>5, <2>2
<1> QED
  BY <1>4, <1>5

\* The one taken away from the front counted if it is in A.
LEMMA CountTail ==
  ASSUME NEW S, NEW s \in Seq(S), s # <<>>, NEW A
  PROVE  CountIn(s, A) = CountIn(Tail(s), A) + IF Head(s) \in A THEN 1 ELSE 0
<1> DEFINE T == {i \in DOMAIN s : s[i] \in A}
           U == {i \in DOMAIN Tail(s) : Tail(s)[i] \in A}
           V == {i + 1 : i \in U}
<1>1. /\ Len(s) \in Nat \ {0} /\ DOMAIN s = 1 .. Len(s)
      /\ Tail(s) \in Seq(S)
      /\ DOMAIN Tail(s) = 1 .. Len(s) - 1
      /\ \A i \in 1 .. Len(s) - 1 : Tail(s)[i] = s[i + 1]
      /\ Head(s) = s[1]
  BY LenProperties, TailFacts
<1>2. IsFiniteSet(U) /\ Cardinality(U) \in Nat
  BY <1>1, CountType DEF CountIn
<1>3. U \in SUBSET Nat
  BY <1>1
<1>4. IsFiniteSet(V) /\ Cardinality(V) = Cardinality(U)
  <2> HIDE DEF U
  <2> QED
    BY <1>2, <1>3, ShiftedCardinality
<1>5. V = T \ {1} /\ 1 \notin V
  <2>1. ASSUME NEW k \in V PROVE k \in T \ {1}
    <3>1. PICK i \in U : k = i + 1
      OBVIOUS
    <3>2. i \in 1 .. Len(s) - 1 /\ i + 1 \in 1 .. Len(s) /\ i + 1 # 1
      BY <1>1
    <3> QED
      BY <1>1, <3>1, <3>2
  <2>2. ASSUME NEW k \in T, k # 1 PROVE k \in V
    <3>1. k - 1 \in 1 .. Len(s) - 1 /\ (k - 1) + 1 = k
      BY <1>1, <2>2
    <3>2. k - 1 \in U
      BY <1>1, <3>1
    <3> QED
      BY <3>1, <3>2
  <2> QED
    BY <2>1, <2>2
<1>6. CASE Head(s) \in A
  <2>1. T = V \cup {1}
    BY <1>1, <1>5, <1>6
  <2> HIDE DEF T, U, V
  <2>2. Cardinality(T) = Cardinality(V) + 1
    BY <1>4, <1>5, <2>1, FS_AddElement
  <2> QED
    BY <1>4, <1>6, <2>2 DEF CountIn, T, U
<1>7. CASE Head(s) \notin A
  <2>1. T = V
    BY <1>1, <1>5, <1>7
  <2> HIDE DEF T, U, V
  <2>2. Cardinality(T) = Cardinality(U)
    BY <1>4, <2>1
  <2>3. CountIn(s, A) = Cardinality(T) /\ CountIn(Tail(s), A) = Cardinality(U)
    BY DEF CountIn, T, U
  <2> QED
    BY <1>2, <1>7, <2>2, <2>3
<1> QED
  BY <1>6, <1>7

\* n elements of A that are put behind the others are n more.
LEMMA CountBlock ==
  ASSUME NEW S, NEW s \in Seq(S), NEW n \in Nat, NEW f \in [1 .. n -> S], NEW A,
         \A i \in 1 .. n : f[i] \in A
  PROVE  CountIn(s \o f, A) = CountIn(s, A) + n
<1> DEFINE T == {i \in DOMAIN s : s[i] \in A}
           U == {i \in DOMAIN (s \o f) : (s \o f)[i] \in A}
           V == (Len(s) + 1) .. (Len(s) + n)
<1>1. /\ Len(s) \in Nat /\ DOMAIN s = 1 .. Len(s)
      /\ DOMAIN (s \o f) = 1 .. Len(s) + n
      /\ \A i \in 1 .. Len(s) : (s \o f)[i] = s[i]
      /\ \A i \in 1 .. n : (s \o f)[Len(s) + i] = f[i]
  BY LenProperties, ConcatFacts
<1>2. \A i \in V : i - Len(s) \in 1 .. n /\ Len(s) + (i - Len(s)) = i
  BY <1>1
<1>3. \A i \in V : (s \o f)[i] \in A
  BY <1>1, <1>2
<1>4. 1 .. Len(s) + n = 1 .. Len(s) \cup V /\ 1 .. Len(s) \cap V = {}
  BY <1>1
<1>5. U = T \cup V /\ T \cap V = {}
  BY <1>1, <1>3, <1>4
<1>6. IsFiniteSet(T) /\ Cardinality(T) \in Nat
  BY CountType DEF CountIn
<1>7. IsFiniteSet(V) /\ Cardinality(V) = n
  <2> DEFINE a == Len(s) + 1
             b == Len(s) + n
  <2>1. a \in Int /\ b \in Int /\ (IF a > b THEN 0 ELSE b - a + 1) = n
    BY <1>1
  <2> HIDE DEF a, b
  <2>2. IsFiniteSet(a .. b) /\ Cardinality(a .. b) = n
    BY <2>1, FS_Interval
  <2> QED
    BY <2>2 DEF a, b
<1> HIDE DEF T, U, V
<1>8. Cardinality(U) = Cardinality(T) + n
  <2>1. Cardinality(U) = Cardinality(T) + Cardinality(V) - Cardinality(T \cap V)
    BY <1>5, <1>6, <1>7, FS_Union
  <2>2. Cardinality(T \cap V) = 0
    BY <1>5, FS_EmptySet
  <2> QED
    BY <1>6, <1>7, <2>1, <2>2
<1> QED
  BY <1>8 DEF CountIn, T, U

--------------------------------------------------------------------------------
(* The least and the greatest element of a set of numbers *)

\* A set of natural numbers that is not empty has a least element.
LEMMA LeastExists ==
  ASSUME NEW T, T \subseteq Nat, T # {}
  PROVE  \E m \in T : \A k \in T : m <= k
<1>1. \E m \in T : \A k \in T : ~(<<k, m>> \in OpToRel(<, Nat))
  BY NatLessThanWellFounded, WFMin
<1>2. ASSUME NEW k \in Nat, NEW m \in Nat, k < m
      PROVE  <<k, m>> \in OpToRel(<, Nat)
  BY <1>2 DEF OpToRel
<1>3. PICK m \in T : \A k \in T : ~(k < m)
  BY <1>1, <1>2
<1>4. \A k \in T : m <= k
  BY <1>3
<1> QED
  BY <1>4

\* One that is bounded has a greatest.
LEMMA GreatestExists ==
  ASSUME NEW n \in Nat, NEW T, T \subseteq 0 .. n, T # {}
  PROVE  \E m \in T : \A k \in T : k <= m
<1> DEFINE S == {i \in 0 .. n : n - i \in T}
<1>1. S \subseteq Nat
  OBVIOUS
<1>2. S # {}
  <2>1. PICK k \in T : TRUE
    OBVIOUS
  <2>2. n - k \in 0 .. n /\ n - (n - k) = k
    OBVIOUS
  <2>3. n - k \in S
    BY <2>2
  <2> QED
    BY <2>3
<1>3. PICK i \in S : \A k \in S : i <= k
  BY <1>1, <1>2, LeastExists
<1>4. ASSUME NEW k \in T PROVE k <= n - i
  <2>1. k \in 0 .. n /\ n - k \in 0 .. n /\ n - (n - k) = k
    OBVIOUS
  <2>2. i <= n - k
    BY <1>3, <2>1
  <2> QED
    BY <1>1, <2>1, <2>2
<1> QED
  BY <1>3, <1>4
================================================================================
