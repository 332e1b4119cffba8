--------------------------- MODULE SequenceLemmas ---------------------------
(***************************************************************************)
(* What the sequence operators of the models return, for the proofs about  *)
(* them: lines of tasks, and what joining, leaving and serving them does.  *)
(***************************************************************************)
EXTENDS Integers, Sequences, FiniteSets, SequencesExt, TLAPS,
        SequenceTheorems, WellFoundedInduction, FiniteSetTheorems

\* A non-empty set of naturals has a least element: the library's minimality
\* theorem for the well-founded relation < on Nat.
LEMMA LeastExists ==
  ASSUME NEW S \in SUBSET Nat, S # {}
  PROVE  \E x \in S : \A y \in S : x <= y
<1> DEFINE R == OpToRel(<, Nat)
<1>1. \A x, y \in Nat : y < x => <<y, x>> \in R
  <2>1. R = {ss \in Nat \X Nat : ss[1] < ss[2]}
    BY Zenon DEF OpToRel
  <2> QED BY <2>1
<1>2. IsWellFoundedOn(R, Nat)
  BY NatLessThanWellFounded
<1> HIDE DEF R
<1>3. PICK x \in S : \A y \in S : ~ (<<y, x>> \in R)
  BY <1>2, WFMin
<1>4. ASSUME NEW y \in S PROVE x <= y
  <2>1. x \in Nat /\ y \in Nat
    OBVIOUS
  <2>2. ~ (y < x)
    BY <1>1, <1>3, <2>1
  <2> QED BY <2>1, <2>2
<1> QED BY <1>4

-----------------------------------------------------------------------------
\* The elements of a sequence are those at its indices.
LEMMA RangeByIndex ==
  ASSUME NEW S, NEW s \in Seq(S)
  PROVE  /\ \A e : e \in Range(s) <=> \E i \in 1..Len(s) : s[i] = e
         /\ ToSet(s) = Range(s)
         /\ IsInjective(s) <=> \A i, j \in 1..Len(s) : s[i] = s[j] => i = j
         /\ Range(s) \subseteq S
<1>1. DOMAIN s = 1..Len(s)
  BY LenProperties
<1>2. \A i \in 1..Len(s) : s[i] \in S
  BY ElementOfSeq
<1> QED BY <1>1, <1>2 DEF Range, ToSet, IsInjective

\* The empty sequence has no elements.
LEMMA EmptyRange ==
  /\ Range(<<>>) = {} /\ IsInjective(<<>>) /\ ToSet(<<>>) = {}
<1> DEFINE s == <<>>
<1>1. s \in Seq({}) /\ Len(s) = 0
  BY EmptySeq
<1> HIDE DEF s
<1>2. 1..Len(s) = {}
  BY <1>1
<1>3. Range(s) = {} /\ ToSet(s) = Range(s)
  <2>1. /\ \A e : e \in Range(s) <=> \E i \in 1..Len(s) : s[i] = e
        /\ ToSet(s) = Range(s)
    BY <1>1, RangeByIndex
  <2> QED BY <1>2, <2>1
<1>4. IsInjective(s)
  BY <1>1, <1>2, RangeByIndex
<1> QED BY <1>3, <1>4 DEF s

\* Joining a line.
LEMMA AppendRange ==
  ASSUME NEW S, NEW s \in Seq(S), NEW e \in S
  PROVE  /\ Append(s, e) \in Seq(S) /\ Len(Append(s, e)) = Len(s) + 1
         /\ Append(s, e) # <<>>
         /\ Range(Append(s, e)) = Range(s) \cup {e}
         /\ IsInjective(s) /\ e \notin Range(s) => IsInjective(Append(s, e))
<1> DEFINE t == Append(s, e)
<1>1. /\ t \in Seq(S) /\ t # <<>> /\ Len(t) = Len(s) + 1 /\ Len(s) \in Nat
      /\ \A i \in 1..Len(s) : t[i] = s[i]
      /\ t[Len(s) + 1] = e
  BY AppendProperties, LenProperties
<1> HIDE DEF t
<1>2. \A x : x \in Range(t) <=> \E i \in 1..Len(t) : t[i] = x
  BY <1>1, RangeByIndex
<1>3. \A x : x \in Range(s) <=> \E i \in 1..Len(s) : s[i] = x
  BY RangeByIndex
<1>4. \A i \in 1..Len(t) : i \in 1..Len(s) \/ i = Len(s) + 1
  BY <1>1
<1>5. Range(t) = Range(s) \cup {e}
  <2>1. ASSUME NEW x \in Range(t) PROVE x \in Range(s) \cup {e}
    BY <1>1, <1>2, <1>3, <1>4, <2>1
  <2>2. ASSUME NEW x \in Range(s) PROVE x \in Range(t)
    <3>1. PICK i \in 1..Len(s) : s[i] = x
      BY <1>3
    <3>2. i \in 1..Len(t) /\ t[i] = x
      BY <1>1, <3>1
    <3> QED BY <1>2, <3>2
  <2>3. e \in Range(t)
    <3>1. Len(s) + 1 \in 1..Len(t)
      BY <1>1
    <3> QED BY <1>1, <1>2, <3>1
  <2> QED BY <2>1, <2>2, <2>3
<1>6. ASSUME IsInjective(s), e \notin Range(s) PROVE IsInjective(t)
  <2>1. \A i, j \in 1..Len(s) : s[i] = s[j] => i = j
    BY <1>6, RangeByIndex
  <2>2. \A i \in 1..Len(s) : s[i] # e
    BY <1>3, <1>6
  <2>3. ASSUME NEW i \in 1..Len(t), NEW j \in 1..Len(t), t[i] = t[j] PROVE i = j
    BY <1>1, <1>4, <2>1, <2>2, <2>3
  <2> QED BY <1>1, <2>3, RangeByIndex
<1> QED BY <1>1, <1>5, <1>6 DEF t

\* Serving the first of a line.
LEMMA TailRange ==
  ASSUME NEW S, NEW s \in Seq(S), s # <<>>
  PROVE  /\ Head(s) \in S /\ Tail(s) \in Seq(S) /\ Len(Tail(s)) = Len(s) - 1
         /\ Head(s) = s[1]
         /\ Range(s) = {Head(s)} \cup Range(Tail(s))
         /\ IsInjective(s) => IsInjective(Tail(s)) /\ Head(s) \notin Range(Tail(s))
<1> DEFINE t == Tail(s)
<1>1. /\ Head(s) \in S /\ t \in Seq(S) /\ Len(t) = Len(s) - 1
      /\ Len(s) \in Nat \ {0} /\ Len(t) \in Nat /\ Head(s) = s[1]
      /\ \A i \in 1..Len(t) : t[i] = s[i + 1]
  BY HeadTailProperties, EmptySeq, LenProperties
<1> HIDE DEF t
<1>2. \A x : x \in Range(t) <=> \E i \in 1..Len(t) : t[i] = x
  BY <1>1, RangeByIndex
<1>3. \A x : x \in Range(s) <=> \E i \in 1..Len(s) : s[i] = x
  BY RangeByIndex
<1>4. Range(s) = {Head(s)} \cup Range(t)
  <2>1. ASSUME NEW x \in Range(s) PROVE x \in {Head(s)} \cup Range(t)
    <3>1. PICK i \in 1..Len(s) : s[i] = x
      BY <1>3
    <3>2. CASE i = 1
      BY <1>1, <3>1, <3>2
    <3>3. CASE i # 1
      <4>1. i - 1 \in 1..Len(t) /\ t[i - 1] = s[(i - 1) + 1] /\ (i - 1) + 1 = i
        BY <1>1, <3>3
      <4> QED BY <1>2, <3>1, <4>1
    <3> QED BY <3>2, <3>3
  <2>2. ASSUME NEW x \in Range(t) PROVE x \in Range(s)
    <3>1. PICK i \in 1..Len(t) : t[i] = x
      BY <1>2
    <3>2. i + 1 \in 1..Len(s) /\ s[i + 1] = x
      BY <1>1, <3>1
    <3> QED BY <1>3, <3>2
  <2>3. Head(s) \in Range(s)
    <3>1. 1 \in 1..Len(s)
      BY <1>1
    <3> QED BY <1>1, <1>3, <3>1
  <2> QED BY <2>1, <2>2, <2>3
<1>5. ASSUME IsInjective(s) PROVE IsInjective(t) /\ Head(s) \notin Range(t)
  <2>1. \A i, j \in 1..Len(s) : s[i] = s[j] => i = j
    BY <1>5, RangeByIndex
  <2>2. \A i \in 1..Len(t) : i + 1 \in 1..Len(s) /\ t[i] = s[i + 1]
    BY <1>1
  <2>3. ASSUME NEW i \in 1..Len(t), NEW j \in 1..Len(t), t[i] = t[j] PROVE i = j
    <3>1. i + 1 = j + 1
      BY <2>1, <2>2, <2>3
    <3> QED BY <3>1
  <2>4. ASSUME NEW i \in 1..Len(t) PROVE t[i] # Head(s)
    <3>1. 1 \in 1..Len(s) /\ i + 1 # 1
      BY <1>1
    <3> QED BY <1>1, <2>1, <2>2, <3>1
  <2> QED BY <1>1, <1>2, <2>3, <2>4, RangeByIndex
<1> QED BY <1>1, <1>4, <1>5 DEF t

\* A stack: the last element and the others.
LEMMA FrontRange ==
  ASSUME NEW S, NEW s \in Seq(S), s # <<>>
  PROVE  /\ Last(s) \in S /\ Last(s) = s[Len(s)] /\ Len(s) \in Nat \ {0}
         /\ Front(s) \in Seq(S) /\ Len(Front(s)) = Len(s) - 1
         /\ \A i \in 1..Len(s) - 1 : Front(s)[i] = s[i]
         /\ Range(s) = Range(Front(s)) \cup {Last(s)}
<1> DEFINE t == Front(s)
<1>1. Len(s) \in Nat \ {0} /\ \A i \in 1..Len(s) : s[i] \in S
  BY EmptySeq, ElementOfSeq
<1>2. /\ t \in Seq(S) /\ Len(t) = Len(s) - 1
      /\ \A i \in 1..Len(s) - 1 : t[i] = s[i]
  <2> DEFINE n == Len(s) - 1
             u == SubSeq(s, 1, n)
  <2>1. n \in Int /\ \A i \in 1..n : s[i] \in S
    BY <1>1
  <2>2. /\ u \in Seq(S) /\ Len(u) = IF 1 <= n THEN n - 1 + 1 ELSE 0
        /\ \A i \in 1..n - 1 + 1 : u[i] = s[1 + i - 1]
    <3> HIDE DEF n
    <3> QED BY <2>1, SubSeqProperties
  <2>3. t = u
    BY DEF Front
  <2> HIDE DEF u, t
  <2> QED BY <1>1, <2>2, <2>3
<1> HIDE DEF t
<1>3. \A x : x \in Range(t) <=> \E i \in 1..Len(t) : t[i] = x
  BY <1>2, RangeByIndex
<1>4. \A x : x \in Range(s) <=> \E i \in 1..Len(s) : s[i] = x
  BY RangeByIndex
<1>5. Range(s) = Range(t) \cup {s[Len(s)]}
  <2>1. \A i \in 1..Len(s) : i \in 1..Len(t) \/ i = Len(s)
    BY <1>1, <1>2
  <2>2. \A i \in 1..Len(t) : i \in 1..Len(s) /\ t[i] = s[i]
    BY <1>1, <1>2
  <2>3. Len(s) \in 1..Len(s)
    BY <1>1
  <2> QED BY <1>3, <1>4, <2>1, <2>2, <2>3
<1> QED BY <1>1, <1>2, <1>5 DEF Last, t

\* Leaving a line from the place i.
LEMMA RemoveAtProperties ==
  ASSUME NEW S, NEW s \in Seq(S), NEW i \in 1..Len(s)
  PROVE  /\ RemoveAt(s, i) \in Seq(S)
         /\ Len(RemoveAt(s, i)) = Len(s) - 1
         /\ \A j \in 1..Len(s) - 1 :
              RemoveAt(s, i)[j] = IF j < i THEN s[j] ELSE s[j + 1]
<1>1. Len(s) \in Nat /\ \A j \in 1..Len(s) : s[j] \in S
  BY LenProperties, ElementOfSeq
<1> DEFINE a == SubSeq(s, 1, i - 1)
           b == SubSeq(s, i + 1, Len(s))
<1>2. /\ a \in Seq(S) /\ Len(a) = i - 1
      /\ \A j \in 1..i - 1 : a[j] = s[j]
  <2>1. \A j \in 1..i - 1 : s[j] \in S
    BY <1>1
  <2>2. /\ a \in Seq(S)
        /\ Len(a) = IF 1 <= i - 1 THEN (i - 1) - 1 + 1 ELSE 0
        /\ \A j \in 1..(i - 1) - 1 + 1 : a[j] = s[1 + j - 1]
    BY <2>1, SubSeqProperties
  <2> HIDE DEF a
  <2> QED BY <2>2
<1>3. /\ b \in Seq(S) /\ Len(b) = Len(s) - i
      /\ \A j \in 1..Len(s) - i : b[j] = s[i + j]
  <2>1. \A j \in i + 1..Len(s) : s[j] \in S
    BY <1>1
  <2>2. /\ b \in Seq(S)
        /\ Len(b) = IF i + 1 <= Len(s) THEN Len(s) - (i + 1) + 1 ELSE 0
        /\ \A j \in 1..Len(s) - (i + 1) + 1 : b[j] = s[(i + 1) + j - 1]
    BY <1>1, <2>1, SubSeqProperties
  <2> HIDE DEF b
  <2> QED BY <1>1, <2>2
<1> HIDE DEF a, b
<1>4. /\ a \o b \in Seq(S)
      /\ Len(a \o b) = Len(a) + Len(b)
      /\ \A j \in 1..Len(a) + Len(b) : (a \o b)[j] = IF j <= Len(a) THEN a[j] ELSE b[j - Len(a)]
  BY <1>2, <1>3, ConcatProperties
<1>5. Len(a) + Len(b) = Len(s) - 1
  BY <1>1, <1>2, <1>3
<1>6. ASSUME NEW j \in 1..Len(s) - 1
      PROVE  (a \o b)[j] = IF j < i THEN s[j] ELSE s[j + 1]
  <2>1. CASE j < i
    BY <1>1, <1>2, <1>4, <1>5, <2>1
  <2>2. CASE ~(j < i)
    <3>1. j - Len(a) \in 1..Len(s) - i /\ i + (j - Len(a)) = j + 1 /\ ~(j <= Len(a))
      BY <1>1, <1>2, <2>2
    <3>2. b[j - Len(a)] = s[j + 1]
      BY <1>3, <3>1
    <3> QED BY <1>4, <1>5, <2>2, <3>1, <3>2
  <2> QED BY <2>1, <2>2
<1> QED BY <1>4, <1>5, <1>6 DEF RemoveAt, a, b

\* list.remove(x) and the like take out the first x, if there is one.
LEMMA RemoveFirstIsRemoveAt ==
  ASSUME NEW S, NEW s \in Seq(S), NEW e
  PROVE  /\ e \notin Range(s) => RemoveFirst(s, e) = s
         /\ e \in Range(s) => \E i \in 1..Len(s) :
              s[i] = e /\ (\A j \in 1..i - 1 : s[j] # e) /\ RemoveFirst(s, e) = RemoveAt(s, i)
<1>1. e \in Range(s) <=> \E i \in 1..Len(s) : s[i] = e
  BY RangeByIndex
<1>2. CASE e \notin Range(s)
  BY <1>1, <1>2 DEF RemoveFirst
<1>3. CASE e \in Range(s)
  <2> DEFINE I == {i \in 1..Len(s) : s[i] = e}
  <2>1. I # {} /\ I \in SUBSET Nat
    BY <1>1, <1>3
  <2>2. Min(I) \in I /\ \A j \in I : Min(I) <= j
    <3> HIDE DEF I
    <3> QED BY <2>1, LeastExists DEF Min
  <2>3. RemoveFirst(s, e) = RemoveAt(s, Min(I))
    BY <1>1, <1>3, <2>1 DEF RemoveFirst, SelectInSeq
  <2>4. \A j \in 1..Min(I) - 1 : s[j] # e
    <3> SUFFICES ASSUME NEW j \in 1..Min(I) - 1, s[j] = e PROVE FALSE
      OBVIOUS
    <3>1. Len(s) \in Nat /\ Min(I) \in 1..Len(s)
      BY <2>2, LenProperties
    <3>2. ~(Min(I) <= j) /\ j \in 1..Len(s)
      BY <3>1
    <3> QED BY <2>2, <3>2
  <2> QED BY <1>3, <2>2, <2>3, <2>4
<1> QED BY <1>2, <1>3

\* A line without one of its elements.
LEMMA RemoveFirstRange ==
  ASSUME NEW S, NEW s \in Seq(S), NEW e
  PROVE  /\ RemoveFirst(s, e) \in Seq(S)
         /\ Range(RemoveFirst(s, e)) \subseteq Range(s)
         /\ Range(s) \subseteq Range(RemoveFirst(s, e)) \cup {e}
         /\ IsInjective(s) => /\ IsInjective(RemoveFirst(s, e))
                              /\ Range(RemoveFirst(s, e)) = Range(s) \ {e}
<1> DEFINE t == RemoveFirst(s, e)
<1>1. CASE e \notin Range(s)
  BY <1>1, RemoveFirstIsRemoveAt
<1>2. CASE e \in Range(s)
  <2>1. PICK i \in 1..Len(s) : s[i] = e /\ t = RemoveAt(s, i)
    BY <1>2, RemoveFirstIsRemoveAt
  <2>2. /\ t \in Seq(S) /\ Len(t) = Len(s) - 1 /\ Len(s) \in Nat
        /\ \A j \in 1..Len(s) - 1 : t[j] = IF j < i THEN s[j] ELSE s[j + 1]
    <3>1. /\ RemoveAt(s, i) \in Seq(S) /\ Len(RemoveAt(s, i)) = Len(s) - 1
          /\ \A j \in 1..Len(s) - 1 :
               RemoveAt(s, i)[j] = IF j < i THEN s[j] ELSE s[j + 1]
      BY RemoveAtProperties
    <3>2. Len(s) \in Nat
      BY LenProperties
    <3> HIDE DEF t
    <3> QED BY <2>1, <3>1, <3>2
  <2> HIDE DEF t
  <2>3. \A x : x \in Range(t) <=> \E j \in 1..Len(t) : t[j] = x
    BY <2>2, RangeByIndex
  <2>4. \A x : x \in Range(s) <=> \E j \in 1..Len(s) : s[j] = x
    BY RangeByIndex
  <2>5. ASSUME NEW j \in 1..Len(t)
        PROVE  \E k \in 1..Len(s) : t[j] = s[k] /\ k # i /\ k = (IF j < i THEN j ELSE j + 1)
    <3>1. (IF j < i THEN j ELSE j + 1) \in 1..Len(s) \ {i}
      BY <2>2
    <3> QED BY <2>2, <3>1
  <2>6. ASSUME NEW k \in 1..Len(s), k # i
        PROVE  \E j \in 1..Len(t) : t[j] = s[k]
    <3>1. CASE k < i
      <4>1. k \in 1..Len(t)
        BY <2>2, <3>1
      <4> QED BY <2>2, <3>1, <4>1
    <3>2. CASE k > i
      <4>1. k - 1 \in 1..Len(t) /\ ~(k - 1 < i) /\ (k - 1) + 1 = k
        BY <2>2, <3>2
      <4>2. t[k - 1] = s[(k - 1) + 1]
        BY <2>2, <4>1
      <4> QED BY <4>1, <4>2
    <3> QED BY <2>6, <3>1, <3>2
  <2>7. Range(t) \subseteq Range(s)
    BY <2>3, <2>4, <2>5
  <2>8. Range(s) \subseteq Range(t) \cup {e}
    BY <2>1, <2>3, <2>4, <2>6
  <2>9. ASSUME IsInjective(s) PROVE IsInjective(t) /\ e \notin Range(t)
    <3>1. \A j, k \in 1..Len(s) : s[j] = s[k] => j = k
      BY <2>9, RangeByIndex
    <3>2. ASSUME NEW j \in 1..Len(t), NEW k \in 1..Len(t), t[j] = t[k] PROVE j = k
      <4>1. (IF j < i THEN j ELSE j + 1) = (IF k < i THEN k ELSE k + 1)
        BY <2>5, <3>1, <3>2
      <4> QED BY <4>1
    <3>3. e \notin Range(t)
      BY <2>1, <2>3, <2>5, <3>1
    <3> QED BY <2>2, <3>2, <3>3, RangeByIndex
  <2> QED BY <2>2, <2>7, <2>8, <2>9 DEF t
<1> QED BY <1>1, <1>2

\* In a sequence without repetitions an element occurs once or not at all.
LEMMA CountDistinct ==
  ASSUME NEW S, NEW s \in Seq(S), IsInjective(s), NEW e
  PROVE  Cardinality({i \in 1..Len(s) : s[i] = e}) = IF e \in Range(s) THEN 1 ELSE 0
<1>1. e \in Range(s) <=> \E i \in 1..Len(s) : s[i] = e
  BY RangeByIndex
<1>2. \A i, j \in 1..Len(s) : s[i] = s[j] => i = j
  BY RangeByIndex
<1>3. CASE e \in Range(s)
  <2>1. PICK k \in 1..Len(s) : s[k] = e
    BY <1>1, <1>3
  <2>2. {i \in 1..Len(s) : s[i] = e} = {k}
    BY <1>2, <2>1
  <2> QED BY <1>3, <2>2, FS_Singleton
<1>4. CASE e \notin Range(s)
  <2>1. {i \in 1..Len(s) : s[i] = e} = {}
    BY <1>1, <1>4
  <2> QED BY <1>4, <2>1, FS_EmptySet
<1> QED BY <1>3, <1>4

\* A sequence without repetitions has as many elements as places.
LEMMA InjectiveRangeSize ==
  ASSUME NEW S, NEW s \in Seq(S)
  PROVE  /\ IsFiniteSet(Range(s)) /\ Cardinality(Range(s)) \in Nat
         /\ Cardinality(Range(s)) <= Len(s)
         /\ IsInjective(s) <=> Cardinality(Range(s)) = Len(s)
<1> DEFINE D == 1..Len(s)
<1>1. Len(s) \in Nat /\ s \in [D -> Range(s)] /\ DOMAIN s = D
  BY LenProperties, ElementOfSeq DEF Range
<1>2. IsFiniteSet(D) /\ Cardinality(D) = Len(s)
  BY <1>1, FS_Interval
<1>3. s \in Surjection(D, Range(s))
  BY <1>1 DEF Surjection, Range
<1>4. /\ IsFiniteSet(Range(s)) /\ Cardinality(Range(s)) <= Cardinality(D)
      /\ Cardinality(Range(s)) = Cardinality(D) <=> s \in Injection(D, Range(s))
  BY <1>2, <1>3, FS_Surjection
<1>5. s \in Injection(D, Range(s)) <=> IsInjective(s)
  BY <1>1 DEF Injection, IsInjective
<1> QED BY <1>2, <1>4, <1>5, FS_CardinalityType

-----------------------------------------------------------------------------
(* The order of the elements. *)

\* a is somewhere before b.
Precedes(s, a, b) == \E i, j \in 1..Len(s) : i < j /\ s[i] = a /\ s[j] = b

\* What has a place in the order is an element.
LEMMA PrecedesRange ==
  ASSUME NEW S, NEW s \in Seq(S), NEW a, NEW b, Precedes(s, a, b)
  PROVE  a \in Range(s) /\ b \in Range(s)
BY RangeByIndex DEF Precedes

\* Leaving a line does not reorder it.
LEMMA RemoveFirstOrder ==
  ASSUME NEW S, NEW s \in Seq(S), NEW e, NEW a, NEW b, Precedes(RemoveFirst(s, e), a, b)
  PROVE  Precedes(s, a, b)
<1>1. CASE e \notin Range(s)
  BY <1>1, RemoveFirstIsRemoveAt
<1>2. CASE e \in Range(s)
  <2>1. PICK n \in 1..Len(s) : RemoveFirst(s, e) = RemoveAt(s, n)
    BY <1>2, RemoveFirstIsRemoveAt
  <2> DEFINE t == RemoveAt(s, n)
  <2>2. /\ Len(t) = Len(s) - 1 /\ Len(s) \in Nat
        /\ \A j \in 1..Len(s) - 1 : t[j] = IF j < n THEN s[j] ELSE s[j + 1]
    BY RemoveAtProperties, LenProperties
  <2> HIDE DEF t
  <2>3. PICK i \in 1..Len(t), j \in 1..Len(t) : i < j /\ t[i] = a /\ t[j] = b
    BY <2>1 DEF Precedes, t
  <2> DEFINE u == IF i < n THEN i ELSE i + 1
             v == IF j < n THEN j ELSE j + 1
  <2>4. u \in 1..Len(s) /\ v \in 1..Len(s) /\ u < v
    BY <2>2, <2>3
  <2>5. s[u] = a /\ s[v] = b
    BY <2>2, <2>3
  <2> QED BY <2>4, <2>5 DEF Precedes
<1> QED BY <1>1, <1>2

\* Who joins a line is behind all others.
LEMMA AppendOrder ==
  ASSUME NEW S, NEW s \in Seq(S), NEW e \in S, NEW a, NEW b, Precedes(Append(s, e), a, b)
  PROVE  Precedes(s, a, b) \/ (a \in Range(s) /\ b = e)
<1> DEFINE t == Append(s, e)
<1>1. /\ Len(t) = Len(s) + 1 /\ Len(s) \in Nat /\ t[Len(s) + 1] = e
      /\ \A i \in 1..Len(s) : t[i] = s[i]
  BY AppendProperties, LenProperties
<1>2. PICK i \in 1..Len(t), j \in 1..Len(t) : i < j /\ t[i] = a /\ t[j] = b
  BY DEF Precedes
<1> HIDE DEF t
<1>3. i \in 1..Len(s) /\ s[i] = a /\ a \in Range(s)
  <2>1. i \in 1..Len(s)
    BY <1>1, <1>2
  <2> QED BY <1>1, <1>2, <2>1, RangeByIndex
<1>4. CASE j \in 1..Len(s)
  BY <1>1, <1>2, <1>3, <1>4 DEF Precedes
<1>5. CASE j = Len(s) + 1
  BY <1>1, <1>2, <1>3, <1>5
<1> QED BY <1>1, <1>4, <1>5

\* The first of a line is before all others.
LEMMA HeadPrecedes ==
  ASSUME NEW S, NEW s \in Seq(S), s # <<>>, NEW b \in Range(s)
  PROVE  b = Head(s) \/ Precedes(s, Head(s), b)
<1>1. Len(s) \in Nat \ {0} /\ Head(s) = s[1]
  BY HeadTailProperties, EmptySeq, LenProperties
<1>2. PICK j \in 1..Len(s) : s[j] = b
  BY RangeByIndex
<1>3. 1 \in 1..Len(s) /\ (j = 1 \/ 1 < j)
  BY <1>1
<1> QED BY <1>1, <1>2, <1>3 DEF Precedes

\* Two lists, one behind the other.
LEMMA ConcatRange ==
  ASSUME NEW S, NEW a \in Seq(S), NEW b \in Seq(S)
  PROVE  /\ a \o b \in Seq(S) /\ Len(a \o b) = Len(a) + Len(b)
         /\ Range(a \o b) = Range(a) \cup Range(b)
<1> DEFINE c == a \o b
<1>1. /\ c \in Seq(S) /\ Len(c) = Len(a) + Len(b) /\ Len(a) \in Nat /\ Len(b) \in Nat
      /\ \A i \in 1..Len(a) + Len(b) : c[i] = IF i <= Len(a) THEN a[i] ELSE b[i - Len(a)]
  BY ConcatProperties, LenProperties
<1> HIDE DEF c
<1>2. ASSUME NEW e \in Range(c) PROVE e \in Range(a) \cup Range(b)
  <2>1. PICK i \in 1..Len(c) : c[i] = e
    BY <1>1, RangeByIndex
  <2>2. CASE i <= Len(a)
    <3>1. i \in 1..Len(a) /\ a[i] = e
      BY <1>1, <2>1, <2>2
    <3> QED BY <3>1, RangeByIndex
  <2>3. CASE ~(i <= Len(a))
    <3>1. i - Len(a) \in 1..Len(b) /\ b[i - Len(a)] = e
      BY <1>1, <2>1, <2>3
    <3> QED BY <3>1, RangeByIndex
  <2> QED BY <2>2, <2>3
<1>3. ASSUME NEW e \in Range(a) PROVE e \in Range(c)
  <2>1. PICK i \in 1..Len(a) : a[i] = e
    BY RangeByIndex
  <2>2. i \in 1..Len(c) /\ c[i] = e
    BY <1>1, <2>1
  <2> QED BY <1>1, <2>2, RangeByIndex
<1>4. ASSUME NEW e \in Range(b) PROVE e \in Range(c)
  <2>1. PICK i \in 1..Len(b) : b[i] = e
    BY RangeByIndex
  <2>2. i + Len(a) \in 1..Len(c) /\ ~(i + Len(a) <= Len(a)) /\ (i + Len(a)) - Len(a) = i
    BY <1>1
  <2>3. c[i + Len(a)] = e
    BY <1>1, <2>1, <2>2
  <2> QED BY <1>1, <2>2, <2>3, RangeByIndex
<1> QED BY <1>1, <1>2, <1>3, <1>4 DEF c

\* Entering a list at the place i.
LEMMA InsertAtProperties ==
  ASSUME NEW S, NEW s \in Seq(S), NEW i \in 1..Len(s) + 1, NEW e \in S
  PROVE  /\ InsertAt(s, i, e) \in Seq(S)
         /\ Len(InsertAt(s, i, e)) = Len(s) + 1
         /\ \A j \in 1..Len(s) + 1 :
              InsertAt(s, i, e)[j] = IF j < i THEN s[j] ELSE IF j = i THEN e ELSE s[j - 1]
<1>1. Len(s) \in Nat /\ \A j \in 1..Len(s) : s[j] \in S
  BY LenProperties, ElementOfSeq
<1> DEFINE a == SubSeq(s, 1, i - 1)
           b == SubSeq(s, i, Len(s))
           m == <<e>>
           am == a \o m
<1>2. /\ a \in Seq(S) /\ Len(a) = i - 1
      /\ \A j \in 1..i - 1 : a[j] = s[j]
  <2>1. \A j \in 1..i - 1 : s[j] \in S
    BY <1>1
  <2>2. /\ a \in Seq(S)
        /\ Len(a) = IF 1 <= i - 1 THEN (i - 1) - 1 + 1 ELSE 0
        /\ \A j \in 1..(i - 1) - 1 + 1 : a[j] = s[1 + j - 1]
    BY <2>1, SubSeqProperties
  <2> HIDE DEF a
  <2> QED BY <2>2
<1>3. /\ b \in Seq(S) /\ Len(b) = Len(s) - i + 1
      /\ \A j \in 1..Len(s) - i + 1 : b[j] = s[i + j - 1]
  <2>1. \A j \in i..Len(s) : s[j] \in S
    BY <1>1
  <2>2. /\ b \in Seq(S)
        /\ Len(b) = IF i <= Len(s) THEN Len(s) - i + 1 ELSE 0
        /\ \A j \in 1..Len(s) - i + 1 : b[j] = s[i + j - 1]
    BY <1>1, <2>1, SubSeqProperties
  <2> HIDE DEF b
  <2> QED BY <1>1, <2>2
<1>4. m \in Seq(S) /\ Len(m) = 1 /\ m[1] = e
  OBVIOUS
<1> HIDE DEF a, b, m
<1>5. /\ am \in Seq(S) /\ Len(am) = i
      /\ \A j \in 1..i : am[j] = IF j <= i - 1 THEN a[j] ELSE m[j - (i - 1)]
  <2>1. /\ am \in Seq(S) /\ Len(am) = Len(a) + Len(m)
        /\ \A j \in 1..Len(a) + Len(m) : am[j] = IF j <= Len(a) THEN a[j] ELSE m[j - Len(a)]
    BY <1>2, <1>4, ConcatProperties
  <2> HIDE DEF am
  <2>2. Len(a) + Len(m) = i
    BY <1>1, <1>2, <1>4
  <2> QED BY <1>2, <2>1, <2>2
<1>6. \A j \in 1..i : am[j] = IF j < i THEN s[j] ELSE e
  <2> SUFFICES ASSUME NEW j \in 1..i PROVE am[j] = IF j < i THEN s[j] ELSE e
    OBVIOUS
  <2>1. CASE j < i
    BY <1>1, <1>2, <1>5, <2>1
  <2>2. CASE j = i
    <3>1. j - (i - 1) = 1 /\ ~(j <= i - 1)
      BY <1>1, <2>2
    <3> QED BY <1>4, <1>5, <2>2, <3>1
  <2>3. j < i \/ j = i
    BY <1>1
  <2> QED BY <2>1, <2>2, <2>3
<1> HIDE DEF am
<1>7. /\ am \o b \in Seq(S) /\ Len(am \o b) = Len(s) + 1
      /\ \A j \in 1..Len(s) + 1 : (am \o b)[j] = IF j <= i THEN am[j] ELSE b[j - i]
  <2>1. /\ am \o b \in Seq(S) /\ Len(am \o b) = Len(am) + Len(b)
        /\ \A j \in 1..Len(am) + Len(b) : (am \o b)[j] = IF j <= Len(am) THEN am[j] ELSE b[j - Len(am)]
    BY <1>3, <1>5, ConcatProperties
  <2>2. Len(am) + Len(b) = Len(s) + 1
    BY <1>1, <1>3, <1>5
  <2> QED BY <1>5, <2>1, <2>2
<1>8. ASSUME NEW j \in 1..Len(s) + 1
      PROVE  (am \o b)[j] = IF j < i THEN s[j] ELSE IF j = i THEN e ELSE s[j - 1]
  <2>1. CASE j <= i
    <3>1. j \in 1..i
      BY <1>1, <2>1
    <3>2. (am \o b)[j] = IF j < i THEN s[j] ELSE e
      BY <1>6, <1>7, <2>1, <3>1
    <3> QED BY <1>1, <2>1, <3>2
  <2>2. CASE ~(j <= i)
    <3>1. j - i \in 1..Len(s) - i + 1 /\ i + (j - i) - 1 = j - 1 /\ ~(j < i) /\ j # i
      BY <1>1, <2>2
    <3>2. b[j - i] = s[j - 1]
      BY <1>3, <3>1
    <3> QED BY <1>7, <2>2, <3>1, <3>2
  <2> QED BY <2>1, <2>2
<1> QED BY <1>7, <1>8 DEF InsertAt, a, b, m, am

\* Who enters a list is in it, beside those who were.
LEMMA InsertAtRange ==
  ASSUME NEW S, NEW s \in Seq(S), NEW i \in 1..Len(s) + 1, NEW e \in S
  PROVE  Range(InsertAt(s, i, e)) = Range(s) \cup {e}
<1> DEFINE t == InsertAt(s, i, e)
<1>1. /\ t \in Seq(S) /\ Len(t) = Len(s) + 1 /\ Len(s) \in Nat
      /\ \A j \in 1..Len(s) + 1 : t[j] = IF j < i THEN s[j] ELSE IF j = i THEN e ELSE s[j - 1]
  BY InsertAtProperties, LenProperties
<1> HIDE DEF t
<1>2. ASSUME NEW x \in Range(t), x # e PROVE x \in Range(s)
  <2>1. PICK j \in 1..Len(t) : t[j] = x
    BY <1>1, RangeByIndex
  <2>2. CASE j < i
    <3>1. j \in 1..Len(s) /\ s[j] = x
      BY <1>1, <2>1, <2>2
    <3> QED BY <3>1, RangeByIndex
  <2>3. CASE ~(j < i)
    <3>1. j - 1 \in 1..Len(s) /\ s[j - 1] = x
      BY <1>1, <1>2, <2>1, <2>3
    <3> QED BY <3>1, RangeByIndex
  <2> QED BY <2>2, <2>3
<1>3. ASSUME NEW x \in Range(s) PROVE x \in Range(t)
  <2>1. PICK j \in 1..Len(s) : s[j] = x
    BY RangeByIndex
  <2>2. CASE j < i
    <3>1. j \in 1..Len(t) /\ t[j] = x
      BY <1>1, <2>1, <2>2
    <3> QED BY <1>1, <3>1, RangeByIndex
  <2>3. CASE ~(j < i)
    <3>1. j + 1 \in 1..Len(t) /\ ~(j + 1 < i) /\ j + 1 # i /\ (j + 1) - 1 = j
      BY <1>1, <2>3
    <3>2. t[j + 1] = x
      BY <1>1, <2>1, <3>1
    <3> QED BY <1>1, <3>1, <3>2, RangeByIndex
  <2> QED BY <2>2, <2>3
<1>4. e \in Range(t)
  <2>1. i \in 1..Len(t) /\ t[i] = e
    BY <1>1
  <2> QED BY <1>1, <2>1, RangeByIndex
<1> QED BY <1>2, <1>3, <1>4 DEF t
=============================================================================
