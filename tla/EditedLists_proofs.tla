------------------------- MODULE EditedLists_proofs --------------------------
(***************************************************************************)
(* What one operation by field or by exact key does to the entries that a  *)
(* call's edits lead to, and to the list that EditedLists has for them.    *)
(*                                                                         *)
(* A call knows between two steps where its edits lead: to some entries es *)
(* (Edited), of which its tables list the living (Tracks), and whose view  *)
(* is one of the lists that the operations so far may lead to (AfterFrom). *)
(***************************************************************************)
EXTENDS MetadataEditing, SequenceTheorems, FiniteSetTheorems, TLAPS

-----------------------------------------------------------------------------
(* Numbers.                                                                 *)

\* Induction over the natural numbers, for a set instead of a predicate.
LEMMA Induction ==
    ASSUME NEW S, 0 \in S, \A n \in Nat : n \in S => n + 1 \in S
    PROVE  Nat \subseteq S
<1> SUFFICES ASSUME NEW n \in Nat, n \notin S PROVE FALSE
  OBVIOUS
<1> DEFINE F == {0..k : k \in {j \in 0..n : j \notin S}}
           R == StrictSubsetOrdering(0..n)
<1>1. IsWellFoundedOn(R, FiniteSubsetsOf(0..n))
  BY FS_StrictSubsetOrderingWellFounded
<1>2. FiniteSubsetsOf(0..n) = SUBSET (0..n)
  <2>1. IsFiniteSet(0..n)
    BY FS_Interval
  <2> QED BY <2>1, FS_FiniteSubsetsOfFinite
<1>3. F \subseteq SUBSET (0..n) /\ F # {}
  OBVIOUS
<1>4. PICK x \in F : \A y \in F : ~(<<y, x>> \in R)
  <2> HIDE DEF F, R
  <2> QED BY <1>1, <1>2, <1>3, WFMin
<1>5. PICK k \in 0..n : k \notin S /\ x = 0..k
  OBVIOUS
<1>6. k # 0 /\ k - 1 \in Nat /\ k - 1 \in 0..n /\ k - 1 \notin S
  BY <1>5
<1>7. 0..k - 1 \in F
  BY <1>6
<1>8. <<0..k - 1, x>> \in R
  <2>1. 0..k - 1 \subseteq 0..k /\ k \in 0..k /\ k \notin 0..k - 1
    BY <1>6
  <2>2. 0..k - 1 \in SUBSET (0..n) /\ x \in SUBSET (0..n)
    BY <1>3, <1>7
  <2> QED BY <1>5, <2>1, <2>2 DEF StrictSubsetOrdering
<1> QED BY <1>4, <1>7, <1>8

\* Every set of numbers that is not empty has a least one.
LEMMA Least ==
    ASSUME NEW S, S \subseteq Nat, S # {}
    PROVE  \E x \in S : \A y \in S : x <= y
<1> SUFFICES ASSUME \A x \in S : \E y \in S : ~(x <= y) PROVE FALSE
  OBVIOUS
<1> DEFINE T == {n \in Nat : \A m \in 0..n : m \notin S}
<1>1. 0 \in T
  BY SMT
<1>2. \A n \in Nat : n \in T => n + 1 \in T
  <2> SUFFICES ASSUME NEW n \in Nat, n \in T, n + 1 \in S PROVE FALSE
    BY SMT
  <2>1. PICK y \in S : ~(n + 1 <= y)
    OBVIOUS
  <2>2. y \in 0..n
    BY <2>1
  <2> QED BY <2>2
<1>3. Nat \subseteq T
  <2> HIDE DEF T
  <2> QED BY <1>1, <1>2, Induction
<1>4. \A n \in Nat : n \notin S
  BY <1>3
<1> QED BY <1>4

\* The operators of the library choose the least and the greatest.
LEMMA MinIs ==
    ASSUME NEW S, S \subseteq Nat, S # {}
    PROVE  Min(S) \in S /\ \A y \in S : Min(S) <= y
<1>1. \E x \in S : \A y \in S : x <= y
  BY Least
<1> QED BY <1>1, Zenon DEF Min

\* A set of numbers with a bound has a greatest one.
LEMMA MaxIs ==
    ASSUME NEW S, S \subseteq Nat, S # {}, NEW b \in Nat, \A y \in S : y <= b
    PROVE  Max(S) \in S /\ (\A y \in S : y <= Max(S)) /\ Max(S) <= b
<1> DEFINE T == {b - y : y \in S}
<1>1. T \subseteq Nat /\ T # {}
  <2>1. \A y \in S : b - y \in Nat
    OBVIOUS
  <2>2. PICK y \in S : TRUE
    OBVIOUS
  <2> QED BY <2>1, <2>2
<1>2. PICK x \in T : \A y \in T : x <= y
  <2> HIDE DEF T
  <2> QED BY <1>1, Least
<1>3. PICK y \in S : x = b - y
  BY <1>2
<1>4. \A z \in S : y >= z
  <2> SUFFICES ASSUME NEW z \in S PROVE y >= z
    OBVIOUS
  <2>1. b - y <= b - z
    BY <1>2, <1>3
  <2> QED BY <2>1
<1>5. Max(S) \in S /\ \A z \in S : Max(S) >= z
  BY <1>3, <1>4 DEF Max
<1> QED BY <1>5

-----------------------------------------------------------------------------
(* Sequences that list a set of numbers in order.                           *)

\* q lists S in ascending order.
Enumerates(q, S) ==
    /\ q \in Seq(Nat)
    /\ \A i, j \in 1..Len(q) : i < j => q[i] < q[j]
    /\ S = {q[i] : i \in 1..Len(q)}

\* The number of elements below one tells its place.
LEMMA EnumBelow ==
    ASSUME NEW q, NEW S, Enumerates(q, S), NEW i \in 1..Len(q)
    PROVE  /\ IsFiniteSet({b \in S : b < q[i]})
           /\ Cardinality({b \in S : b < q[i]}) = i - 1
<1> DEFINE B == {b \in S : b < q[i]}
           f == [k \in 1..i - 1 |-> q[k]]
<1>1. Len(q) \in Nat /\ \A k \in 1..Len(q) : q[k] \in Nat
  BY DEF Enumerates
<1>2. \A k \in 1..i - 1 : q[k] \in B
  BY <1>1 DEF Enumerates
<1>3. \A b \in B : \E k \in 1..i - 1 : q[k] = b
  <2> SUFFICES ASSUME NEW b \in B PROVE \E k \in 1..i - 1 : q[k] = b
    OBVIOUS
  <2>1. PICK k \in 1..Len(q) : b = q[k]
    BY DEF Enumerates
  <2>2. ~(i <= k)
    BY <1>1, <2>1 DEF Enumerates
  <2> QED BY <1>1, <2>1, <2>2
<1>4. \A k, l \in 1..i - 1 : q[k] = q[l] => k = l
  <2> SUFFICES ASSUME NEW k \in 1..i - 1, NEW l \in 1..i - 1, q[k] = q[l], k # l PROVE FALSE
    OBVIOUS
  <2>1. k \in 1..Len(q) /\ l \in 1..Len(q) /\ (k < l \/ l < k)
    BY <1>1
  <2> QED BY <1>1, <2>1 DEF Enumerates
<1>5. f \in Bijection(1..i - 1, B)
  <2>1. f \in [1..i - 1 -> B]
    BY <1>2
  <2>2. \A k, l \in 1..i - 1 : f[k] = f[l] => k = l
    BY <1>4
  <2>3. \A b \in B : \E k \in 1..i - 1 : f[k] = b
    BY <1>3
  <2> QED BY <2>1, <2>2, <2>3 DEF Bijection, Injection, Surjection, IsInjective
<1>6. IsFiniteSet(1..i - 1) /\ Cardinality(1..i - 1) = i - 1
  <2> DEFINE j == i - 1
  <2>1. j \in Nat
    BY <1>1
  <2>2. IsFiniteSet(1..j) /\ Cardinality(1..j) = IF j < 1 THEN 0 ELSE j - 1 + 1
    <3> HIDE DEF j
    <3> QED BY <2>1, FS_Interval
  <2> QED BY <2>1, <2>2
<1> HIDE DEF f, B
<1>7. ExistsBijection(1..i - 1, B)
  BY <1>5 DEF ExistsBijection
<1> QED BY <1>6, <1>7, FS_Bijection DEF B

\* There is one place for each member.
LEMMA EnumCard ==
    ASSUME NEW q, NEW S, Enumerates(q, S)
    PROVE  IsFiniteSet(S) /\ Cardinality(S) = Len(q)
<1>1. Len(q) \in Nat
  BY DEF Enumerates
<1>2. CASE Len(q) = 0
  <2>1. S = {}
    BY <1>2 DEF Enumerates
  <2> QED BY <1>2, <2>1, FS_EmptySet
<1>3. CASE Len(q) # 0
  <2> DEFINE n == Len(q)
             B == {b \in S : b < q[n]}
  <2>1. n \in 1..Len(q)
    BY <1>1, <1>3
  <2>2. IsFiniteSet(B) /\ Cardinality(B) = n - 1
    BY <2>1, EnumBelow
  <2>3. S = B \cup {q[n]}
    <3>1. \A i \in 1..Len(q) : q[i] \in Nat /\ (i # n => q[i] < q[n])
      BY <1>1, <2>1 DEF Enumerates
    <3>2. \A b \in S : b \in B \/ b = q[n]
      BY <3>1 DEF Enumerates
    <3>3. q[n] \in S
      BY <2>1 DEF Enumerates
    <3> QED BY <3>2, <3>3
  <2>4. q[n] \notin B
    BY <2>1 DEF Enumerates
  <2> HIDE DEF B, n
  <2>5. IsFiniteSet(S) /\ Cardinality(S) = n - 1 + 1
    BY <2>2, <2>3, <2>4, FS_AddElement
  <2> QED BY <1>1, <2>5 DEF n
<1> QED BY <1>2, <1>3

\* How many members of a set are below a number.
Below(S, p) == Cardinality({b \in S : b < p})

\* The n-th of a set is at the n-th place.
LEMMA EnumNth ==
    ASSUME NEW q, NEW S, Enumerates(q, S), NEW i \in 1..Len(q)
    PROVE  Nth(S, i) = q[i]
<1>1. Len(q) \in Nat /\ \A k \in 1..Len(q) : q[k] \in Nat
  BY DEF Enumerates
<1>2. q[i] \in S
  BY DEF Enumerates
<1>3. \A k \in 1..Len(q) : Below(S, q[k]) = k - 1
  BY EnumBelow DEF Below
<1>4. \A p : p \in S /\ Below(S, p) = i - 1 <=> p = q[i]
  <2>1. ASSUME NEW p \in S, Below(S, p) = i - 1 PROVE p = q[i]
    <3>1. PICK k \in 1..Len(q) : p = q[k]
      BY DEF Enumerates
    <3>2. Below(S, p) = k - 1
      BY <1>3, <3>1
    <3>3. k = i
      BY <1>1, <2>1, <3>2
    <3> QED BY <3>1, <3>3
  <2> QED BY <1>2, <1>3, <2>1
<1>5. (CHOOSE p : p \in S /\ Below(S, p) = i - 1) = q[i]
  BY <1>4
<1> QED BY <1>5 DEF Nth, Below

\* The listing in order is the only one.
LEMMA EnumIs ==
    ASSUME NEW q, NEW S, Enumerates(q, S)
    PROVE  InIdOrder(S) = q
<1>1. q \in Seq(Nat) /\ Cardinality(S) = Len(q)
  BY EnumCard DEF Enumerates
<1>2. InIdOrder(S) = [n \in 1..Len(q) |-> Nth(S, n)]
  BY <1>1 DEF InIdOrder
<1>3. \A n \in 1..Len(q) : Nth(S, n) = q[n]
  BY EnumNth
<1>4. q = [n \in 1..Len(q) |-> q[n]]
  BY <1>1
<1> QED BY <1>2, <1>3, <1>4

-----------------------------------------------------------------------------
(* Sequences of anything.                                                   *)

\* A sequence in the terms of the library, and back.
LEMMA SequenceIn ==
    ASSUME NEW q, IsSequence(q), NEW S, \A n \in 1..Len(q) : q[n] \in S
    PROVE  q \in Seq(S)
<1>1. Len(q) \in Nat /\ q = [n \in 1..Len(q) |-> q[n]]
  BY DEF IsSequence
<1>2. q \in [1..Len(q) -> S]
  BY <1>1
<1> QED BY <1>1, <1>2, SeqDef

LEMMA SequenceOf ==
    ASSUME NEW S, NEW q \in Seq(S)
    PROVE  IsSequence(q) /\ \A n \in 1..Len(q) : q[n] \in S
BY DEF IsSequence

\* What is given place by place is a sequence.
LEMMA SequenceMade ==
    ASSUME NEW n \in Nat, NEW q, q = [i \in 1..n |-> q[i]]
    PROVE  IsSequence(q) /\ Len(q) = n
<1>1. q \in Seq({q[i] : i \in 1..n})
  <2>1. q \in [1..n -> {q[i] : i \in 1..n}]
    OBVIOUS
  <2> QED BY <2>1, SeqDef
<1>2. DOMAIN q = 1..n
  OBVIOUS
<1>3. Len(q) = n
  BY <1>1, <1>2
<1> QED BY <1>1, <1>3, SequenceOf

LEMMA SequenceEqual ==
    ASSUME NEW q, IsSequence(q), NEW r, IsSequence(r), Len(q) = Len(r),
           \A n \in 1..Len(q) : q[n] = r[n]
    PROVE  q = r
BY DEF IsSequence

\* Sequences that grow and shrink, place by place.
LEMMA SequenceAppend ==
    ASSUME NEW q, IsSequence(q), NEW x
    PROVE  /\ IsSequence(Append(q, x)) /\ Len(Append(q, x)) = Len(q) + 1
           /\ \A n \in 1..Len(q) : Append(q, x)[n] = q[n]
           /\ Append(q, x)[Len(q) + 1] = x
<1> DEFINE S == {q[n] : n \in 1..Len(q)} \cup {x}
<1>1. q \in Seq(S) /\ x \in S
  <2>1. (\A n \in 1..Len(q) : q[n] \in S) /\ x \in S
    OBVIOUS
  <2> HIDE DEF S
  <2> QED BY <2>1, SequenceIn
<1> HIDE DEF S
<1>2. /\ Append(q, x) \in Seq(S) /\ Len(Append(q, x)) = Len(q) + 1
      /\ \A n \in 1..Len(q) : Append(q, x)[n] = q[n]
      /\ Append(q, x)[Len(q) + 1] = x
  BY <1>1, AppendProperties
<1>3. IsSequence(Append(q, x))
  BY <1>2, SequenceOf
<1> QED BY <1>2, <1>3

LEMMA SequenceJoin ==
    ASSUME NEW q, IsSequence(q), NEW r, IsSequence(r)
    PROVE  /\ IsSequence(q \o r) /\ Len(q \o r) = Len(q) + Len(r)
           /\ \A n \in 1..Len(q) : (q \o r)[n] = q[n]
           /\ \A n \in 1..Len(r) : (q \o r)[Len(q) + n] = r[n]
<1> DEFINE S == {q[n] : n \in 1..Len(q)} \cup {r[n] : n \in 1..Len(r)}
<1>1. q \in Seq(S) /\ r \in Seq(S)
  <2>1. (\A n \in 1..Len(q) : q[n] \in S) /\ \A n \in 1..Len(r) : r[n] \in S
    OBVIOUS
  <2> HIDE DEF S
  <2> QED BY <2>1, SequenceIn
<1> HIDE DEF S
<1>2. /\ q \o r \in Seq(S) /\ Len(q \o r) = Len(q) + Len(r)
      /\ \A i \in 1..Len(q) + Len(r) :
            (q \o r)[i] = IF i <= Len(q) THEN q[i] ELSE r[i - Len(q)]
  BY <1>1, ConcatProperties
<1>3. Len(q) \in Nat /\ Len(r) \in Nat
  BY DEF IsSequence
<1>4. ASSUME NEW n \in 1..Len(r) PROVE (q \o r)[Len(q) + n] = r[n]
  <2>1. PICK k, l : k = Len(q) /\ l = Len(r)
    OBVIOUS
  <2>2. PICK m : m = k + n
    OBVIOUS
  <2>3. m \in 1..k + l /\ ~(m <= k) /\ m - k = n
    BY <1>3, <2>1, <2>2
  <2>4. (q \o r)[m] = r[m - k]
    BY <1>2, <2>1, <2>3
  <2> QED BY <2>1, <2>2, <2>3, <2>4
<1>6. IsSequence(q \o r)
  BY <1>2, SequenceOf
<1>7. ASSUME NEW n \in 1..Len(q) PROVE (q \o r)[n] = q[n]
  <2>1. n \in 1..Len(q) + Len(r) /\ n <= Len(q)
    BY <1>3
  <2> QED BY <1>2, <2>1
<1> QED BY <1>2, <1>4, <1>6, <1>7

LEMMA SequenceRemoveAt ==
    ASSUME NEW q, IsSequence(q), NEW k \in 1..Len(q)
    PROVE  /\ IsSequence(RemoveAt(q, k)) /\ Len(RemoveAt(q, k)) = Len(q) - 1
           /\ \A n \in 1..Len(q) - 1 :
                 RemoveAt(q, k)[n] = IF n < k THEN q[n] ELSE q[n + 1]
<1> DEFINE S == {q[n] : n \in 1..Len(q)}
           a == SubSeq(q, 1, k - 1)
           b == SubSeq(q, k + 1, Len(q))
<1>1. Len(q) \in Nat /\ k \in Nat /\ k >= 1 /\ k <= Len(q)
  BY DEF IsSequence
<1>2. \A n \in 1..Len(q) : q[n] \in S
  OBVIOUS
<1> HIDE DEF S
<1>3. /\ a \in Seq(S) /\ Len(a) = k - 1 /\ \A n \in 1..k - 1 : a[n] = q[n]
  <2>1. k - 1 \in Int /\ 1 \in Int /\ \A n \in 1..k - 1 : q[n] \in S
    BY <1>1, <1>2
  <2>2. /\ a \in Seq(S) /\ Len(a) = IF 1 <= k - 1 THEN k - 1 - 1 + 1 ELSE 0
        /\ \A n \in 1..k - 1 - 1 + 1 : a[n] = q[1 + n - 1]
    BY <2>1, SubSeqProperties
  <2> HIDE DEF a
  <2> QED BY <1>1, <2>2
<1>4. /\ b \in Seq(S) /\ Len(b) = Len(q) - k /\ \A n \in 1..Len(q) - k : b[n] = q[k + n]
  <2>1. k + 1 \in Int /\ Len(q) \in Int /\ \A n \in k + 1..Len(q) : q[n] \in S
    BY <1>1, <1>2
  <2>2. /\ b \in Seq(S) /\ Len(b) = IF k + 1 <= Len(q) THEN Len(q) - (k + 1) + 1 ELSE 0
        /\ \A n \in 1..Len(q) - (k + 1) + 1 : b[n] = q[k + 1 + n - 1]
    BY <2>1, SubSeqProperties
  <2> HIDE DEF b
  <2> QED BY <1>1, <2>2
<1>5. RemoveAt(q, k) = a \o b
  BY DEF RemoveAt
<1> HIDE DEF a, b
<1>6. IsSequence(a) /\ IsSequence(b)
  BY <1>3, <1>4, SequenceOf
<1>7. /\ IsSequence(a \o b) /\ Len(a \o b) = Len(a) + Len(b)
      /\ (\A n \in 1..Len(a) : (a \o b)[n] = a[n])
      /\ \A n \in 1..Len(b) : (a \o b)[Len(a) + n] = b[n]
  BY <1>6, SequenceJoin
<1>8. ASSUME NEW n \in 1..Len(q) - 1
      PROVE  (a \o b)[n] = IF n < k THEN q[n] ELSE q[n + 1]
  <2>1. CASE n < k
    <3>1. n \in 1..k - 1
      BY <1>1, <2>1
    <3> QED BY <1>3, <1>7, <2>1, <3>1
  <2>2. CASE ~(n < k)
    <3>1. PICK m : m = n - (k - 1)
      OBVIOUS
    <3>2. m \in 1..Len(q) - k /\ n = k - 1 + m /\ n + 1 = k + m
      BY <1>1, <2>2, <3>1
    <3> QED BY <1>3, <1>4, <1>7, <2>2, <3>2
  <2> QED BY <2>1, <2>2
<1> QED BY <1>1, <1>3, <1>4, <1>5, <1>7, <1>8

LEMMA EnumEmpty == Enumerates(<<>>, {})
BY DEF Enumerates

LEMMA EnumAppend ==
    ASSUME NEW q, NEW S, Enumerates(q, S), NEW x \in Nat, \A y \in S : y < x
    PROVE  Enumerates(Append(q, x), S \cup {x})
<1> DEFINE r == Append(q, x)
<1>1. /\ q \in Seq(Nat) /\ S = {q[i] : i \in 1..Len(q)}
      /\ \A i, j \in 1..Len(q) : i < j => q[i] < q[j]
  BY DEF Enumerates
<1>2. /\ r \in Seq(Nat) /\ Len(r) = Len(q) + 1 /\ r[Len(q) + 1] = x
      /\ \A i \in 1..Len(q) : r[i] = q[i]
  BY <1>1, AppendProperties
<1> HIDE DEF r
<1>3. ASSUME NEW i \in 1..Len(r), NEW j \in 1..Len(r), i < j PROVE r[i] < r[j]
  <2>1. i \in 1..Len(q) /\ (j \in 1..Len(q) \/ j = Len(q) + 1)
    <3>1. PICK n \in Nat : n = Len(q)
      BY <1>1
    <3>2. i \in 1..n + 1 /\ j \in 1..n + 1
      BY <1>2, <3>1
    <3> QED BY <1>3, <3>1, <3>2
  <2>2. q[i] \in S
    BY <1>1, <2>1
  <2> QED BY <1>1, <1>2, <1>3, <2>1, <2>2
<1>4. \A i : i \in 1..Len(r) <=> i \in 1..Len(q) \/ i = Len(q) + 1
  BY <1>1, <1>2
<1>5. S \cup {x} = {r[i] : i \in 1..Len(r)}
  BY <1>1, <1>2, <1>4
<1> QED BY <1>2, <1>3, <1>5 DEF Enumerates, r

\* A finite set of numbers can be listed in order.
LEMMA EnumExists ==
    ASSUME NEW n \in Nat, NEW S, S \subseteq 0..n - 1
    PROVE  Enumerates(InIdOrder(S), S)
<1> DEFINE T == {m \in Nat : \A R \in SUBSET (0..m - 1) : \E q : Enumerates(q, R)}
<1>1. 0 \in T
  <2>1. \A R \in SUBSET (0..0 - 1) : R = {}
    OBVIOUS
  <2> QED BY <2>1, EnumEmpty
<1>2. ASSUME NEW m \in Nat, m \in T PROVE m + 1 \in T
  <2> SUFFICES ASSUME NEW R \in SUBSET (0..m + 1 - 1) PROVE \E q : Enumerates(q, R)
    OBVIOUS
  <2>1. R \ {m} \in SUBSET (0..m - 1)
    OBVIOUS
  <2>2. PICK q : Enumerates(q, R \ {m})
    BY <1>2, <2>1
  <2>3. CASE m \in R
    <3>1. \A y \in R \ {m} : y < m
      OBVIOUS
    <3>2. Enumerates(Append(q, m), (R \ {m}) \cup {m})
      BY <2>2, <3>1, EnumAppend
    <3>3. (R \ {m}) \cup {m} = R
      BY <2>3
    <3> QED BY <3>2, <3>3
  <2>4. CASE m \notin R
    <3>1. R \ {m} = R
      BY <2>4
    <3> QED BY <2>2, <3>1
  <2> QED BY <2>3, <2>4
<1>3. Nat \subseteq T
  <2> HIDE DEF T
  <2> QED BY <1>1, <1>2, Induction
<1>4. PICK q : Enumerates(q, S)
  BY <1>3
<1>5. InIdOrder(S) = q
  BY <1>4, EnumIs
<1> QED BY <1>4, <1>5

\* A list of the ids of the entries at some places.
Tracks(q, P) ==
    /\ IsSequence(q)
    /\ \A i \in 1..Len(q) : q[i] \in Nat
    /\ \A i, j \in 1..Len(q) : i < j => q[i] < q[j]
    /\ P = {q[i] + 1 : i \in 1..Len(q)}

\* What the n-th of the places is, by the list of ids.
LEMMA TracksIs ==
    ASSUME NEW q, NEW P, Tracks(q, P)
    PROVE  /\ IsFiniteSet(P) /\ Cardinality(P) = Len(q) /\ Len(q) \in Nat
           /\ \A i \in 1..Len(q) : Nth(P, i) = q[i] + 1 /\ q[i] + 1 \in P /\ q[i] \in Nat
<1> DEFINE r == [i \in 1..Len(q) |-> q[i] + 1]
<1>1. /\ Len(q) \in Nat /\ (\A i \in 1..Len(q) : q[i] \in Nat)
      /\ (\A i, j \in 1..Len(q) : i < j => q[i] < q[j])
      /\ P = {q[i] + 1 : i \in 1..Len(q)}
  BY DEF Tracks, IsSequence
<1>2. /\ r = [i \in 1..Len(q) |-> r[i]] /\ \A i \in 1..Len(q) : r[i] = q[i] + 1
  OBVIOUS
<1> HIDE DEF r
<1>3. IsSequence(r) /\ Len(r) = Len(q)
  BY <1>1, <1>2, SequenceMade
<1>4. \A i \in 1..Len(r) : r[i] \in Nat
  BY <1>1, <1>2, <1>3
<1>5. r \in Seq(Nat)
  BY <1>3, <1>4, SequenceIn
<1>6. \A i, j \in 1..Len(r) : i < j => r[i] < r[j]
  BY <1>1, <1>2, <1>3
<1>7. P = {r[i] : i \in 1..Len(r)}
  BY <1>1, <1>2, <1>3
<1>8. Enumerates(r, P)
  BY <1>5, <1>6, <1>7 DEF Enumerates
<1>9. IsFiniteSet(P) /\ Cardinality(P) = Len(q)
  BY <1>3, <1>8, EnumCard
<1>10. \A i \in 1..Len(q) : Nth(P, i) = r[i]
  BY <1>3, <1>8, EnumNth
<1>11. \A i \in 1..Len(q) : q[i] + 1 \in P
  BY <1>1
<1> QED BY <1>1, <1>2, <1>9, <1>10, <1>11

LEMMA TracksNone ==
    ASSUME NEW q, NEW P, Tracks(q, P)
    PROVE  (q = <<>>) <=> (P = {})
<1>1. IsSequence(q) /\ P = {q[i] + 1 : i \in 1..Len(q)}
  BY DEF Tracks
<1>2. ASSUME q = <<>> PROVE P = {}
  BY <1>1, <1>2
<1>3. ASSUME P = {} PROVE q = <<>>
  <2>1. Len(q) = 0
    <3>1. Len(q) \in Nat
      BY <1>1 DEF IsSequence
    <3>2. \A i \in 1..Len(q) : q[i] + 1 \in P
      BY <1>1
    <3>3. 1 \notin 1..Len(q)
      BY <1>3, <3>2
    <3> QED BY <3>1, <3>3
  <2>2. IsSequence(<<>>)
    BY DEF IsSequence
  <2> QED BY <1>1, <2>1, <2>2, SequenceEqual
<1> QED BY <1>2, <1>3

LEMMA TracksEmpty == Tracks(<<>>, {})
BY DEF Tracks, IsSequence

\* The id of a new entry goes to the end.
LEMMA TracksAppend ==
    ASSUME NEW q, NEW P, Tracks(q, P), NEW x \in Nat, \A p \in P : p <= x
    PROVE  Tracks(Append(q, x), P \cup {x + 1})
<1> DEFINE r == Append(q, x)
<1>1. /\ IsSequence(q) /\ P = {q[i] + 1 : i \in 1..Len(q)} /\ Len(q) \in Nat
      /\ (\A i \in 1..Len(q) : q[i] \in Nat)
      /\ \A i, j \in 1..Len(q) : i < j => q[i] < q[j]
  BY DEF Tracks, IsSequence
<1>2. /\ IsSequence(r) /\ Len(r) = Len(q) + 1 /\ r[Len(q) + 1] = x
      /\ \A i \in 1..Len(q) : r[i] = q[i]
  BY <1>1, SequenceAppend
<1> HIDE DEF r
<1>3. ASSUME NEW i \in 1..Len(r), NEW j \in 1..Len(r), i < j PROVE r[i] < r[j]
  <2>1. i \in 1..Len(q) /\ (j \in 1..Len(q) \/ j = Len(q) + 1)
    BY <1>1, <1>2, <1>3
  <2>2. q[i] + 1 \in P
    BY <1>1, <2>1
  <2> QED BY <1>1, <1>2, <1>3, <2>1, <2>2
<1>4. \A i : i \in 1..Len(r) <=> i \in 1..Len(q) \/ i = Len(q) + 1
  BY <1>1, <1>2
<1>5. P \cup {x + 1} = {r[i] + 1 : i \in 1..Len(r)}
  BY <1>1, <1>2, <1>4
<1>6. \A i \in 1..Len(r) : r[i] \in Nat
  BY <1>1, <1>2, <1>4
<1> QED BY <1>2, <1>3, <1>5, <1>6 DEF Tracks, r

\* An entry that is gone leaves the list.
LEMMA TracksRemoveAt ==
    ASSUME NEW q, NEW P, Tracks(q, P), NEW k \in 1..Len(q)
    PROVE  Tracks(RemoveAt(q, k), P \ {q[k] + 1})
<1> DEFINE r == RemoveAt(q, k)
<1>1. /\ IsSequence(q) /\ P = {q[i] + 1 : i \in 1..Len(q)} /\ Len(q) \in Nat
      /\ (\A i \in 1..Len(q) : q[i] \in Nat)
      /\ \A i, j \in 1..Len(q) : i < j => q[i] < q[j]
  BY DEF Tracks, IsSequence
<1>2. /\ IsSequence(r) /\ Len(r) = Len(q) - 1
      /\ \A i \in 1..Len(q) - 1 : r[i] = IF i < k THEN q[i] ELSE q[i + 1]
  BY <1>1, SequenceRemoveAt
<1> HIDE DEF r
<1>3. ASSUME NEW i \in 1..Len(r), NEW j \in 1..Len(r), i < j PROVE r[i] < r[j]
  <2>1. /\ i \in 1..Len(q) /\ i + 1 \in 1..Len(q) /\ j \in 1..Len(q) /\ j + 1 \in 1..Len(q)
        /\ i \in 1..Len(q) - 1 /\ j \in 1..Len(q) - 1
    BY <1>1, <1>2
  <2>2. r[i] = (IF i < k THEN q[i] ELSE q[i + 1]) /\ r[j] = IF j < k THEN q[j] ELSE q[j + 1]
    BY <1>2, <2>1
  <2>3. q[i] < q[j] /\ q[i] < q[j + 1] /\ q[i + 1] < q[j + 1]
    <3>1. i < j + 1 /\ i + 1 < j + 1
      BY <1>3, <2>1
    <3> QED BY <1>1, <1>3, <2>1, <3>1
  <2>4. ~(i < k) => ~(j < k)
    BY <1>3
  <2> QED BY <2>2, <2>3, <2>4
<1>4. ASSUME NEW i \in 1..Len(r)
      PROVE  \E j \in 1..Len(q) : j # k /\ r[i] = q[j]
  <2>1. i \in 1..Len(q) - 1 /\ i \in 1..Len(q) /\ i + 1 \in 1..Len(q)
    BY <1>1, <1>2
  <2> QED BY <1>1, <1>2, <2>1
<1>5. ASSUME NEW j \in 1..Len(q), j # k
      PROVE  \E i \in 1..Len(r) : r[i] = q[j]
  <2>1. CASE j < k
    <3>1. j \in 1..Len(q) - 1
      BY <1>1, <2>1
    <3> QED BY <1>2, <2>1, <3>1
  <2>2. CASE ~(j < k)
    <3>1. j - 1 \in 1..Len(q) - 1 /\ ~(j - 1 < k) /\ j - 1 + 1 = j
      BY <1>1, <1>5, <2>2
    <3> QED BY <1>2, <3>1
  <2> QED BY <2>1, <2>2
<1>6. \A j \in 1..Len(q) : j # k => q[j] + 1 # q[k] + 1
  BY <1>1
<1>7. P \ {q[k] + 1} = {r[i] + 1 : i \in 1..Len(r)}
  <2>1. ASSUME NEW p \in P \ {q[k] + 1} PROVE \E i \in 1..Len(r) : p = r[i] + 1
    <3>1. PICK j \in 1..Len(q) : p = q[j] + 1
      BY <1>1
    <3>2. PICK i \in 1..Len(r) : r[i] = q[j]
      BY <1>5, <2>1, <3>1
    <3> QED BY <3>1, <3>2
  <2>2. ASSUME NEW i \in 1..Len(r) PROVE r[i] + 1 \in P \ {q[k] + 1}
    <3>1. PICK j \in 1..Len(q) : j # k /\ r[i] = q[j]
      BY <1>4
    <3> QED BY <1>1, <1>6, <3>1
  <2> QED BY <2>1, <2>2
<1>8. \A i \in 1..Len(r) : r[i] \in Nat
  BY <1>1, <1>4
<1> QED BY <1>2, <1>3, <1>7, <1>8 DEF Tracks, r

\* What a table starts with: the entries of a base at some places.
LEMMA TracksStart ==
    ASSUME NEW n \in Nat, NEW P, P \subseteq 1..n, NEW S, S = {i \in 0..n - 1 : i + 1 \in P}
    PROVE  Tracks(InIdOrder(S), P)
<1>1. PICK q : q = InIdOrder(S)
  OBVIOUS
<1>2. Enumerates(q, S)
  BY <1>1, EnumExists
<1>3. /\ q \in Seq(Nat) /\ S = {q[i] : i \in 1..Len(q)}
      /\ \A i, j \in 1..Len(q) : i < j => q[i] < q[j]
  BY <1>2 DEF Enumerates
<1>4. ASSUME NEW p \in P PROVE p - 1 \in S /\ p - 1 + 1 = p
  OBVIOUS
<1>5. P = {q[i] + 1 : i \in 1..Len(q)}
  <2>1. ASSUME NEW p \in P PROVE \E i \in 1..Len(q) : p = q[i] + 1
    <3>1. PICK i \in 1..Len(q) : p - 1 = q[i]
      BY <1>3, <1>4
    <3> QED BY <1>4, <3>1
  <2>2. \A i \in 1..Len(q) : q[i] + 1 \in P
    BY <1>3
  <2> QED BY <2>1, <2>2
<1>6. IsSequence(q) /\ \A i \in 1..Len(q) : q[i] \in Nat
  BY <1>3, SequenceOf
<1> QED BY <1>1, <1>3, <1>5, <1>6 DEF Tracks

\* The members of a sequence that are at some places.
Within(P, n) == n \in Nat /\ P \subseteq 1..n
Picks(s, P, f) ==
    \E q : /\ Enumerates(q, P) /\ IsSequence(f) /\ Len(f) = Len(q) /\ Len(q) \in Nat
           /\ \A i \in 1..Len(q) : f[i] = s[q[i]]

\* Picking lists the places in order.
LEMMA PickedIs ==
    ASSUME NEW s, NEW n, NEW P, Within(P, n) PROVE Picks(s, P, Picked(s, P))
<1>0. n \in Nat /\ P \subseteq 1..n
  BY DEF Within
<1>1. PICK q : q = InIdOrder(P)
  OBVIOUS
<1>2. Enumerates(q, P)
  <2>1. PICK m \in Nat : m = n + 1
    BY <1>0
  <2>2. P \subseteq 0..m - 1
    BY <1>0, <2>1
  <2> QED BY <1>1, <2>2, EnumExists
<1>3. Cardinality(P) = Len(q) /\ Len(q) \in Nat
  <2>1. Cardinality(P) = Len(q)
    BY <1>2, EnumCard
  <2>2. q \in Seq(Nat)
    BY <1>2 DEF Enumerates
  <2> QED BY <2>1, <2>2
<1>4. PICK t : t = Picked(s, P)
  OBVIOUS
<1>5. t = [i \in 1..Len(q) |-> s[Nth(P, i)]]
  BY <1>3, <1>4 DEF Picked
<1>6. \A i \in 1..Len(q) : t[i] = s[q[i]]
  BY <1>2, <1>5, EnumNth
<1>7. t = [i \in 1..Len(q) |-> t[i]]
  BY <1>5
<1>8. IsSequence(t) /\ Len(t) = Len(q)
  BY <1>3, <1>7, SequenceMade
<1> QED BY <1>2, <1>3, <1>4, <1>6, <1>8 DEF Picks

-----------------------------------------------------------------------------
(* commit(): one operation after the other.                                 *)

IsApplied(es, ops, m, f) ==
    f = [n \in 0..m |-> IF n = 0 THEN es ELSE Do(f[n - 1], ops[n])]
HasApplied(es, ops, m) == \E f : IsApplied(es, ops, m, f)

\* The entries after each of the operations exist; commit() returns the last.
LEMMA AppliedExists ==
    ASSUME NEW es, NEW ops, NEW k \in Nat PROVE HasApplied(es, ops, k)
<1> DEFINE S == {m \in Nat : HasApplied(es, ops, m)}
<1>1. 0 \in S
  <2>1. PICK f : f = [i \in 0..0 |-> es]
    OBVIOUS
  <2>2. \A i \in 0..0 : i = 0
    OBVIOUS
  <2>3. IsApplied(es, ops, 0, f)
    BY <2>1, <2>2 DEF IsApplied
  <2> QED BY <2>3 DEF HasApplied
<1>2. ASSUME NEW m \in Nat, m \in S PROVE m + 1 \in S
  <2>1. PICK f : IsApplied(es, ops, m, f)
    BY <1>2 DEF HasApplied
  <2>2. PICK g : g = [i \in 0..m + 1 |-> IF i = m + 1 THEN Do(f[m], ops[i]) ELSE f[i]]
    OBVIOUS
  <2>3. \A i \in 0..m : g[i] = f[i]
    BY <2>2
  <2>4. ASSUME NEW i \in 0..m + 1
        PROVE  g[i] = IF i = 0 THEN es ELSE Do(g[i - 1], ops[i])
    <3>1. CASE i = m + 1
      <4>1. i # 0 /\ i - 1 = m /\ m \in 0..m
        BY <3>1
      <4> QED BY <2>2, <2>3, <3>1, <4>1
    <3>2. CASE i # m + 1
      <4>1. i \in 0..m /\ (i # 0 => i - 1 \in 0..m)
        BY <3>2
      <4>2. f[i] = IF i = 0 THEN es ELSE Do(f[i - 1], ops[i])
        BY <2>1, <4>1 DEF IsApplied
      <4> QED BY <2>3, <4>1, <4>2
    <3> QED BY <3>1, <3>2
  <2>5. g = [i \in 0..m + 1 |-> g[i]]
    BY <2>2
  <2>6. IsApplied(es, ops, m + 1, g)
    BY <2>4, <2>5 DEF IsApplied
  <2> QED BY <2>6 DEF HasApplied
<1> HIDE DEF S
<1>3. k \in S
  BY <1>1, <1>2, Induction
<1> QED BY <1>3 DEF S

LEMMA AppliedSteps ==
    ASSUME NEW es, NEW ops, Len(ops) \in Nat
    PROVE  \E f : /\ f[0] = es /\ Applied(es, ops) = f[Len(ops)]
                  /\ \A n \in 1..Len(ops) : f[n] = Do(f[n - 1], ops[n])
<1>1. PICK m : m = Len(ops)
  OBVIOUS
<1>2. PICK f : f = CHOOSE g : IsApplied(es, ops, m, g)
  OBVIOUS
<1>3. IsApplied(es, ops, m, f)
  <2>1. HasApplied(es, ops, m)
    BY <1>1, AppliedExists
  <2> QED BY <1>1, <1>2, <2>1 DEF HasApplied
<1>4. f[0] = es
  <2>1. 0 \in 0..m
    BY <1>1
  <2> QED BY <1>3, <2>1 DEF IsApplied
<1>5. ASSUME NEW n \in 1..m PROVE f[n] = Do(f[n - 1], ops[n])
  <2>1. n \in 0..m /\ n # 0
    BY <1>1
  <2> QED BY <1>3, <2>1 DEF IsApplied
<1>6. Applied(es, ops) = f[m]
  BY <1>1, <1>2 DEF Applied, IsApplied
<1> QED BY <1>1, <1>4, <1>5, <1>6

\* Whatever goes from the entries by the operations ends where commit() does.
LEMMA AppliedIs ==
    ASSUME NEW es, NEW ops, Len(ops) \in Nat, NEW g, g[0] = es,
           \A n \in 1..Len(ops) : g[n] = Do(g[n - 1], ops[n])
    PROVE  Applied(es, ops) = g[Len(ops)]
<1>1. PICK f : /\ f[0] = es /\ Applied(es, ops) = f[Len(ops)]
               /\ \A n \in 1..Len(ops) : f[n] = Do(f[n - 1], ops[n])
  BY AppliedSteps
<1> DEFINE S == {n \in Nat : n <= Len(ops) => f[n] = g[n]}
<1>2. 0 \in S
  BY <1>1
<1>3. ASSUME NEW n \in Nat, n \in S PROVE n + 1 \in S
  <2> SUFFICES ASSUME n + 1 <= Len(ops) PROVE f[n + 1] = g[n + 1]
    OBVIOUS
  <2>1. n + 1 \in 1..Len(ops) /\ n + 1 - 1 = n /\ n <= Len(ops)
    OBVIOUS
  <2>2. f[n] = g[n]
    BY <1>3, <2>1
  <2> QED BY <1>1, <2>1, <2>2
<1>4. Len(ops) \in S
  <2> HIDE DEF S
  <2> QED BY <1>2, <1>3, Induction
<1> QED BY <1>1, <1>4

LEMMA AppliedNone == ASSUME NEW es PROVE Applied(es, <<>>) = es
<1>1. PICK g : g = [n \in {0} |-> es]
  OBVIOUS
<1>2. Len(<<>>) = 0 /\ g[0] = es
  BY <1>1
<1>3. \A n \in 1..Len(<<>>) : g[n] = Do(g[n - 1], <<>>[n])
  BY <1>2
<1> QED BY <1>2, <1>3, AppliedIs

\* More operations at the end of the buffer go on from where it led.
LEMMA AppliedMore ==
    ASSUME NEW es, NEW ops, IsSequence(ops), NEW more, IsSequence(more),
           NEW g, g[0] = Applied(es, ops),
           \A n \in 1..Len(more) : g[n] = Do(g[n - 1], more[n])
    PROVE  Applied(es, ops \o more) = g[Len(more)]
<1>1. PICK k \in Nat, m \in Nat : k = Len(ops) /\ m = Len(more)
  BY DEF IsSequence
<1>2. PICK f : /\ f[0] = es /\ Applied(es, ops) = f[k]
               /\ \A n \in 1..k : f[n] = Do(f[n - 1], ops[n])
  BY <1>1, AppliedSteps
<1>3. PICK h : h = [n \in 0..k + m |-> IF n <= k THEN f[n] ELSE g[n - k]]
  OBVIOUS
<1>4. PICK all : all = ops \o more
  OBVIOUS
<1>5. /\ Len(all) = k + m /\ (\A n \in 1..k : all[n] = ops[n])
      /\ \A n \in 1..m : all[k + n] = more[n]
  BY <1>1, <1>4, SequenceJoin
<1>6. h[0] = es
  <2>1. 0 \in 0..k + m /\ 0 <= k
    OBVIOUS
  <2> QED BY <1>2, <1>3, <2>1
<1>7. ASSUME NEW n \in 1..k + m PROVE h[n] = Do(h[n - 1], all[n])
  <2>1. CASE n <= k
    <3>1. n \in 1..k /\ n \in 0..k + m /\ n - 1 \in 0..k + m /\ n - 1 <= k
      BY <2>1
    <3>2. h[n] = f[n] /\ h[n - 1] = f[n - 1]
      BY <1>3, <2>1, <3>1
    <3> QED BY <1>2, <1>5, <3>1, <3>2
  <2>2. CASE ~(n <= k)
    <3>1. PICK i : i = n - k
      OBVIOUS
    <3>2. /\ i \in 1..m /\ n = k + i /\ n \in 0..k + m /\ n - 1 \in 0..k + m
          /\ n - 1 - k = i - 1
      BY <2>2, <3>1
    <3>3. h[n] = g[i]
      BY <1>3, <2>2, <3>1, <3>2
    <3>4. h[n - 1] = g[i - 1]
      <4>1. CASE n - 1 <= k
        <5>1. n - 1 = k /\ i - 1 = 0
          BY <2>2, <3>2, <4>1
        <5>2. h[n - 1] = f[k]
          BY <1>3, <3>2, <4>1, <5>1
        <5> QED BY <1>2, <5>1, <5>2
      <4>2. CASE ~(n - 1 <= k)
        BY <1>3, <3>2, <4>2
      <4> QED BY <4>1, <4>2
    <3>5. g[i] = Do(g[i - 1], more[i]) /\ all[n] = more[i]
      BY <1>1, <1>5, <3>2
    <3> QED BY <3>3, <3>4, <3>5
  <2> QED BY <2>1, <2>2
<1>8. Applied(es, all) = h[k + m]
  <2>1. Len(all) \in Nat /\ \A n \in 1..Len(all) : h[n] = Do(h[n - 1], all[n])
    BY <1>5, <1>7
  <2>2. Applied(es, all) = h[Len(all)]
    BY <1>6, <2>1, AppliedIs
  <2> QED BY <1>5, <2>2
<1>9. h[k + m] = g[m]
  <2>1. CASE m = 0
    <3>1. k + m \in 0..k + m /\ k + m <= k /\ k + m = k
      BY <2>1
    <3> QED BY <1>2, <1>3, <2>1, <3>1
  <2>2. CASE m # 0
    <3>1. k + m \in 0..k + m /\ ~(k + m <= k) /\ k + m - k = m
      BY <2>2
    <3> QED BY <1>3, <3>1
  <2> QED BY <2>1, <2>2
<1> QED BY <1>1, <1>4, <1>8, <1>9

LEMMA AppliedOne ==
    ASSUME NEW es, NEW ops, IsSequence(ops), NEW op
    PROVE  Applied(es, Append(ops, op)) = Do(Applied(es, ops), op)
<1>1. PICK k \in Nat : k = Len(ops)
  BY DEF IsSequence
<1>2. PICK f : /\ f[0] = es /\ Applied(es, ops) = f[k]
               /\ \A n \in 1..k : f[n] = Do(f[n - 1], ops[n])
  BY <1>1, AppliedSteps
<1>3. PICK all : all = Append(ops, op)
  OBVIOUS
<1>4. Len(all) = k + 1 /\ all[k + 1] = op /\ \A n \in 1..k : all[n] = ops[n]
  BY <1>1, <1>3, SequenceAppend
<1>5. PICK h : h = [n \in 0..k + 1 |-> IF n = k + 1 THEN Do(f[k], op) ELSE f[n]]
  OBVIOUS
<1>6. ASSUME NEW n \in 1..k + 1 PROVE h[n] = Do(h[n - 1], all[n])
  <2>1. CASE n = k + 1
    <3>1. n - 1 = k /\ n - 1 \in 0..k + 1 /\ n - 1 # k + 1 /\ n \in 0..k + 1
      BY <2>1
    <3>2. h[n] = Do(f[k], op) /\ h[n - 1] = f[k]
      BY <1>5, <2>1, <3>1
    <3> QED BY <1>4, <2>1, <3>2
  <2>2. CASE n # k + 1
    <3>1. n \in 1..k /\ n \in 0..k + 1 /\ n - 1 \in 0..k + 1 /\ n - 1 # k + 1
      BY <2>2
    <3>2. h[n] = f[n] /\ h[n - 1] = f[n - 1]
      BY <1>5, <2>2, <3>1
    <3> QED BY <1>2, <1>4, <3>1, <3>2
  <2> QED BY <2>1, <2>2
<1>7. h[0] = es /\ h[k + 1] = Do(f[k], op)
  <2>1. 0 \in 0..k + 1 /\ 0 # k + 1 /\ k + 1 \in 0..k + 1
    OBVIOUS
  <2> QED BY <1>2, <1>5, <2>1
<1>8. Len(all) \in Nat /\ \A n \in 1..Len(all) : h[n] = Do(h[n - 1], all[n])
  BY <1>4, <1>6
<1>9. Applied(es, all) = h[Len(all)]
  BY <1>7, <1>8, AppliedIs
<1> QED BY <1>2, <1>3, <1>4, <1>7, <1>9

-----------------------------------------------------------------------------
(* Entries, what a host sees of them, and one recorded operation.           *)

\* The fields of an entry.
LEMMA EntryIs ==
    ASSUME NEW e, IsEntry(e)
    PROVE  /\ e = [key |-> e.key, value |-> e.value, wire |-> e.wire,
                   wireName |-> e.wireName, block |-> e.block, order |-> e.order,
                   flags |-> e.flags]
           /\ IsKey(e.key) /\ e.block \in Nat /\ e.order \in 0..OrderMax
BY DEF IsEntry, NewEntry

LEMMA EntryFrom ==
    ASSUME NEW e, e = [key |-> e.key, value |-> e.value, wire |-> e.wire,
                       wireName |-> e.wireName, block |-> e.block, order |-> e.order,
                       flags |-> e.flags],
           IsKey(e.key), e.block \in Nat, e.order \in 0..OrderMax
    PROVE  IsEntry(e)
<1>1. PICK a : a = NewEntry(e.key, e.value, e.wire, e.block, e.order)
  OBVIOUS
<1>2. a = [key |-> e.key, value |-> e.value, wire |-> e.wire, wireName |-> <<>>,
           block |-> e.block, order |-> e.order, flags |-> {"Dirty"}]
  BY <1>1 DEF NewEntry
<1>3. PICK b : b = [a EXCEPT !.wireName = e.wireName, !.flags = e.flags]
  OBVIOUS
<1>4. b = [key |-> e.key, value |-> e.value, wire |-> e.wire, wireName |-> e.wireName,
           block |-> e.block, order |-> e.order, flags |-> e.flags]
  BY <1>2, <1>3
<1>5. b = e
  BY <1>4
<1> QED BY <1>1, <1>3, <1>5 DEF IsEntry

\* What a host sees of one entry, and of all.
View(e) == [key |-> e.key, value |-> e.value, wire |-> e.wire, flags |-> e.flags]
Listed(es) == [n \in 1..Len(es) |-> View(es[n])]

\* A new entry is seen as the abstract specification adds it.
LEMMA NewIs ==
    ASSUME NEW key, NEW value, NEW wire, NEW block, NEW order, NEW e,
           e = NewEntry(key, value, wire, block, order)
    PROVE  /\ e.key = key /\ e.value = value /\ e.wire = wire /\ e.block = block
           /\ e.order = order /\ e.flags = {"Dirty"} /\ ~Deleted(e)
           /\ View(e) = Lists!Entry(key, value, wire)
           /\ IsKey(key) /\ block \in Nat /\ order \in 0..OrderMax => IsEntry(e)
<1>1. e = [key |-> key, value |-> value, wire |-> wire, wireName |-> <<>>,
           block |-> block, order |-> order, flags |-> {"Dirty"}]
  BY DEF NewEntry
<1>2. /\ e.key = key /\ e.value = value /\ e.wire = wire /\ e.block = block
      /\ e.order = order /\ e.flags = {"Dirty"} /\ e.wireName = <<>>
  BY <1>1
<1>3. ~Deleted(e)
  BY <1>2 DEF Deleted
<1>4. View(e) = Lists!Entry(key, value, wire)
  BY <1>2 DEF View, Lists!Entry
<1>5. IsKey(key) /\ block \in Nat /\ order \in 0..OrderMax => IsEntry(e)
  BY <1>1, <1>2, EntryFrom
<1> QED BY <1>2, <1>3, <1>4, <1>5

\* Removing and writing are seen as the abstract specification does them.
LEMMA MarkedIs ==
    ASSUME NEW e, IsEntry(e), NEW d, d = Lists!Marked(e)
    PROVE  /\ IsEntry(d) /\ d.key = e.key /\ d.block = e.block /\ d.order = e.order
           /\ d.flags = e.flags \cup {"Dirty", "Deleted"}
           /\ View(d) = Lists!Marked(View(e))
           /\ d = [e EXCEPT !.flags = e.flags \cup {"Dirty", "Deleted"}]
<1>1. e = [key |-> e.key, value |-> e.value, wire |-> e.wire, wireName |-> e.wireName,
           block |-> e.block, order |-> e.order, flags |-> e.flags]
  BY EntryIs
<1>2. d = [e EXCEPT !.flags = e.flags \cup {"Dirty", "Deleted"}]
  BY DEF Lists!Marked
<1>3. d = [key |-> e.key, value |-> e.value, wire |-> e.wire, wireName |-> e.wireName,
           block |-> e.block, order |-> e.order, flags |-> e.flags \cup {"Dirty", "Deleted"}]
  BY <1>1, <1>2
<1>4. /\ d.key = e.key /\ d.value = e.value /\ d.wire = e.wire /\ d.wireName = e.wireName
      /\ d.block = e.block /\ d.order = e.order
      /\ d.flags = e.flags \cup {"Dirty", "Deleted"}
  BY <1>3
<1>5. IsEntry(d)
  <2>1. IsKey(d.key) /\ d.block \in Nat /\ d.order \in 0..OrderMax
    BY <1>4, EntryIs
  <2> QED BY <1>3, <1>4, <2>1, EntryFrom
<1>6. View(d) = Lists!Marked(View(e))
  BY <1>4 DEF View, Lists!Marked
<1> QED BY <1>2, <1>4, <1>5, <1>6

LEMMA WrittenIs ==
    ASSUME NEW e, IsEntry(e), NEW v, NEW d, d = Lists!Written(e, v)
    PROVE  /\ IsEntry(d) /\ d.key = e.key /\ d.block = e.block /\ d.order = e.order
           /\ d.flags = e.flags \cup {"Dirty"}
           /\ View(d) = Lists!Written(View(e), v)
<1>1. e = [key |-> e.key, value |-> e.value, wire |-> e.wire, wireName |-> e.wireName,
           block |-> e.block, order |-> e.order, flags |-> e.flags]
  BY EntryIs
<1>2. d = [e EXCEPT !.value = v, !.flags = e.flags \cup {"Dirty"}]
  BY DEF Lists!Written
<1>3. d = [key |-> e.key, value |-> v, wire |-> e.wire, wireName |-> e.wireName,
           block |-> e.block, order |-> e.order, flags |-> e.flags \cup {"Dirty"}]
  BY <1>1, <1>2
<1>4. /\ d.key = e.key /\ d.value = v /\ d.wire = e.wire /\ d.wireName = e.wireName
      /\ d.block = e.block /\ d.order = e.order /\ d.flags = e.flags \cup {"Dirty"}
  BY <1>3
<1>5. IsEntry(d)
  <2>1. IsKey(d.key) /\ d.block \in Nat /\ d.order \in 0..OrderMax
    BY <1>4, EntryIs
  <2> QED BY <1>3, <1>4, <2>1, EntryFrom
<1>6. View(d) = Lists!Written(View(e), v)
  <2>1. PICK u : u = View(e)
    OBVIOUS
  <2>2. u = [key |-> e.key, value |-> e.value, wire |-> e.wire, flags |-> e.flags]
    BY <2>1 DEF View
  <2>a. u.flags = e.flags
    BY <2>2
  <2>b. Lists!Written(u, v) = [u EXCEPT !.value = v, !.flags = e.flags \cup {"Dirty"}]
    BY <2>a DEF Lists!Written
  <2>3. Lists!Written(u, v) = [key |-> e.key, value |-> v, wire |-> e.wire,
                                          flags |-> e.flags \cup {"Dirty"}]
    BY <2>2, <2>b
  <2>4. View(d) = [key |-> e.key, value |-> v, wire |-> e.wire,
                                          flags |-> e.flags \cup {"Dirty"}]
    BY <1>4 DEF View
  <2> QED BY <2>1, <2>3, <2>4
<1> QED BY <1>4, <1>5, <1>6

\* A value with its wire type, as commit() stores it.
Stored(e, v, w) ==
    [e EXCEPT !.value = v, !.wire = w, !.wireName = <<>>,
              !.flags = (e.flags \cup {"Dirty"}) \ {"BigEndian"}]

LEMMA StoredIs ==
    ASSUME NEW e, IsEntry(e), NEW v, NEW w, NEW d, d = Stored(e, v, w)
    PROVE  /\ IsEntry(d) /\ d.key = e.key /\ d.block = e.block /\ d.order = e.order
           /\ d.flags = (e.flags \cup {"Dirty"}) \ {"BigEndian"}
           /\ View(d) = Lists!Rewritten(View(e), v, w)
<1>1. e = [key |-> e.key, value |-> e.value, wire |-> e.wire, wireName |-> e.wireName,
           block |-> e.block, order |-> e.order, flags |-> e.flags]
  BY EntryIs
<1>3. d = [key |-> e.key, value |-> v, wire |-> w, wireName |-> <<>>,
           block |-> e.block, order |-> e.order,
           flags |-> (e.flags \cup {"Dirty"}) \ {"BigEndian"}]
  BY <1>1 DEF Stored
<1>4. /\ d.key = e.key /\ d.value = v /\ d.wire = w /\ d.wireName = <<>>
      /\ d.block = e.block /\ d.order = e.order
      /\ d.flags = (e.flags \cup {"Dirty"}) \ {"BigEndian"}
  BY <1>3
<1>5. IsEntry(d)
  <2>1. IsKey(d.key) /\ d.block \in Nat /\ d.order \in 0..OrderMax
    BY <1>4, EntryIs
  <2> QED BY <1>3, <1>4, <2>1, EntryFrom
<1>6. View(d) = Lists!Rewritten(View(e), v, w)
  <2>1. PICK u : u = View(e)
    OBVIOUS
  <2>2. u = [key |-> e.key, value |-> e.value, wire |-> e.wire, flags |-> e.flags]
    BY <2>1 DEF View
  <2>a. u.flags = e.flags
    BY <2>2
  <2>b. Lists!Rewritten(u, v, w) = [u EXCEPT !.value = v, !.wire = w,
                                        !.flags = (e.flags \cup {"Dirty"}) \ {"BigEndian"}]
    BY <2>a DEF Lists!Rewritten
  <2>3. Lists!Rewritten(u, v, w) = [key |-> e.key, value |-> v, wire |-> w,
                                  flags |-> (e.flags \cup {"Dirty"}) \ {"BigEndian"}]
    BY <2>2, <2>b
  <2>4. View(d) = [key |-> e.key, value |-> v, wire |-> w,
                                  flags |-> (e.flags \cup {"Dirty"}) \ {"BigEndian"}]
    BY <1>4 DEF View
  <2> QED BY <2>1, <2>3, <2>4
<1> QED BY <1>4, <1>5, <1>6

\* A sequence with another element at one place.
Put(es, n, e) == [es EXCEPT ![n] = e]

\* The places of a sequence after a write and after a removal.
LEMMA PutIs ==
    ASSUME NEW es, IsSequence(es), NEW k \in 1..Len(es), NEW e, NEW t, t = Put(es, k, e)
    PROVE  /\ IsSequence(t) /\ Len(t) = Len(es) /\ t[k] = e
           /\ \A n \in 1..Len(es) : n # k => t[n] = es[n]
<1>1. Len(es) \in Nat /\ es = [n \in 1..Len(es) |-> es[n]]
  BY DEF IsSequence
<1>2. t = [n \in 1..Len(es) |-> IF n = k THEN e ELSE es[n]]
  BY <1>1 DEF Put
<1>3. t = [n \in 1..Len(es) |-> t[n]]
  BY <1>2
<1>4. IsSequence(t) /\ Len(t) = Len(es)
  BY <1>1, <1>3, SequenceMade
<1> QED BY <1>2, <1>4

LEMMA MarkIs ==
    ASSUME NEW es, IsSequence(es), NEW P, NEW t, t = Lists!Mark(es, P)
    PROVE  /\ IsSequence(t) /\ Len(t) = Len(es)
           /\ \A n \in 1..Len(es) : t[n] = IF n \in P THEN Lists!Marked(es[n]) ELSE es[n]
<1>1. t = [n \in 1..Len(es) |-> IF n \in P THEN Lists!Marked(es[n]) ELSE es[n]]
  BY DEF Lists!Mark
<1>2. Len(es) \in Nat /\ t = [n \in 1..Len(es) |-> t[n]]
  BY <1>1 DEF IsSequence
<1>3. IsSequence(t) /\ Len(t) = Len(es)
  BY <1>2, SequenceMade
<1> QED BY <1>1, <1>3

\* The view of a list, place by place, and through every change of it.
LEMMA ListedIs ==
    ASSUME NEW es, IsSequence(es)
    PROVE  /\ IsSequence(Listed(es)) /\ Len(Listed(es)) = Len(es)
           /\ \A n \in 1..Len(es) : Listed(es)[n] = View(es[n])
<1>1. Len(es) \in Nat
  BY DEF IsSequence
<1>2. PICK t : t = Listed(es)
  OBVIOUS
<1>3. t = [n \in 1..Len(es) |-> View(es[n])]
  BY <1>2 DEF Listed
<1>4. t = [n \in 1..Len(es) |-> t[n]]
  BY <1>3
<1>5. IsSequence(t) /\ Len(t) = Len(es)
  BY <1>1, <1>4, SequenceMade
<1> QED BY <1>2, <1>3, <1>5

LEMMA ListedAppend ==
    ASSUME NEW es, IsSequence(es), NEW e
    PROVE  Listed(Append(es, e)) = Append(Listed(es), View(e))
<1>1. PICK t, l : t = Append(es, e) /\ l = Listed(es)
  OBVIOUS
<1>2. PICK k \in Nat : k = Len(es)
  BY DEF IsSequence
<1>3. /\ IsSequence(t) /\ Len(t) = k + 1 /\ t[k + 1] = e
      /\ \A n \in 1..k : t[n] = es[n]
  BY <1>1, <1>2, SequenceAppend
<1>4. IsSequence(l) /\ Len(l) = k /\ \A n \in 1..k : l[n] = View(es[n])
  BY <1>1, <1>2, ListedIs
<1>5. PICK a, b : a = Listed(t) /\ b = Append(l, View(e))
  OBVIOUS
<1>6. /\ IsSequence(a) /\ Len(a) = k + 1 /\ \A n \in 1..k + 1 : a[n] = View(t[n])
  BY <1>3, <1>5, ListedIs
<1>7. /\ IsSequence(b) /\ Len(b) = k + 1 /\ b[k + 1] = View(e)
      /\ \A n \in 1..k : b[n] = l[n]
  BY <1>4, <1>5, SequenceAppend
<1>8. ASSUME NEW n \in 1..k + 1 PROVE a[n] = b[n]
  <2>1. CASE n = k + 1
    BY <1>3, <1>6, <1>7, <2>1
  <2>2. CASE n # k + 1
    <3>1. n \in 1..k
      BY <2>2
    <3> QED BY <1>3, <1>4, <1>6, <1>7, <3>1
  <2> QED BY <2>1, <2>2
<1> QED BY <1>1, <1>5, <1>6, <1>7, <1>8, SequenceEqual

LEMMA ListedPut ==
    ASSUME NEW es, IsSequence(es), NEW k \in 1..Len(es), NEW e
    PROVE  Listed(Put(es, k, e)) = Put(Listed(es), k, View(e))
<1>1. PICK t, l : t = Put(es, k, e) /\ l = Listed(es)
  OBVIOUS
<1>2. /\ IsSequence(t) /\ Len(t) = Len(es) /\ t[k] = e
      /\ \A n \in 1..Len(es) : n # k => t[n] = es[n]
  BY <1>1, PutIs
<1>3. IsSequence(l) /\ Len(l) = Len(es) /\ \A n \in 1..Len(es) : l[n] = View(es[n])
  BY <1>1, ListedIs
<1>4. PICK a, b : a = Listed(t) /\ b = Put(l, k, View(e))
  OBVIOUS
<1>5. IsSequence(a) /\ Len(a) = Len(es) /\ \A n \in 1..Len(es) : a[n] = View(t[n])
  BY <1>2, <1>4, ListedIs
<1>6. /\ IsSequence(b) /\ Len(b) = Len(es) /\ b[k] = View(e)
      /\ \A n \in 1..Len(es) : n # k => b[n] = l[n]
  BY <1>3, <1>4, PutIs
<1>7. \A n \in 1..Len(es) : a[n] = b[n]
  BY <1>2, <1>3, <1>5, <1>6
<1> QED BY <1>1, <1>4, <1>5, <1>6, <1>7, SequenceEqual

LEMMA ListedMark ==
    ASSUME NEW es, IsSequence(es), \A n \in 1..Len(es) : IsEntry(es[n]), NEW P
    PROVE  Listed(Lists!Mark(es, P)) = Lists!Mark(Listed(es), P)
<1>1. PICK t, l : t = Lists!Mark(es, P) /\ l = Listed(es)
  OBVIOUS
<1>2. /\ IsSequence(t) /\ Len(t) = Len(es)
      /\ \A n \in 1..Len(es) : t[n] = IF n \in P THEN Lists!Marked(es[n]) ELSE es[n]
  BY <1>1, MarkIs
<1>3. IsSequence(l) /\ Len(l) = Len(es) /\ \A n \in 1..Len(es) : l[n] = View(es[n])
  BY <1>1, ListedIs
<1>4. PICK a, b : a = Listed(t) /\ b = Lists!Mark(l, P)
  OBVIOUS
<1>5. IsSequence(a) /\ Len(a) = Len(es) /\ \A n \in 1..Len(es) : a[n] = View(t[n])
  BY <1>2, <1>4, ListedIs
<1>6. /\ IsSequence(b) /\ Len(b) = Len(es)
      /\ \A n \in 1..Len(es) : b[n] = IF n \in P THEN Lists!Marked(l[n]) ELSE l[n]
  BY <1>3, <1>4, MarkIs
<1>7. \A n \in 1..Len(es) : View(Lists!Marked(es[n])) = Lists!Marked(View(es[n]))
  BY MarkedIs
<1>8. \A n \in 1..Len(es) : a[n] = b[n]
  BY <1>2, <1>3, <1>5, <1>6, <1>7
<1> QED BY <1>1, <1>4, <1>5, <1>6, <1>8, SequenceEqual

\* One recorded operation, for an id that the list has.
LEMMA DoIs ==
    ASSUME NEW es, NEW op
    PROVE  /\ op.kind = "AddEntry" => Do(es, op) = Append(es, op.content)
           /\ op.kind = "SetValue" /\ op.target < Len(es) =>
                 Do(es, op) = Put(es, op.target + 1, Lists!Written(es[op.target + 1], op.value))
           /\ op.kind = "SetValueWithWire" /\ op.target < Len(es) =>
                 Do(es, op) = Put(es, op.target + 1,
                                  Stored(es[op.target + 1], op.value, op.wire))
           /\ op.kind = "Tombstone" /\ op.target < Len(es) =>
                 Do(es, op) = Put(es, op.target + 1, Lists!Marked(es[op.target + 1]))
BY DEF Do, Touch, Put, Stored, Lists!Written, Lists!Marked

LEMMA DoAdd == ASSUME NEW es, NEW e PROVE Do(es, AddEntry(e)) = Append(es, e)
<1>1. PICK op : op = AddEntry(e)
  OBVIOUS
<1>2. op.kind = "AddEntry" /\ op.content = e
  BY <1>1 DEF AddEntry
<1> QED BY <1>1, <1>2, DoIs

LEMMA DoSetValue ==
    ASSUME NEW es, NEW id, id < Len(es), NEW v
    PROVE  Do(es, SetValue(id, v)) = Put(es, id + 1, Lists!Written(es[id + 1], v))
<1>1. PICK op : op = SetValue(id, v)
  OBVIOUS
<1>2. op.kind = "SetValue" /\ op.target = id /\ op.value = v
  BY <1>1 DEF SetValue
<1>3. Do(es, op) = Put(es, op.target + 1, Lists!Written(es[op.target + 1], op.value))
  BY <1>2, DoIs
<1> QED BY <1>1, <1>2, <1>3

LEMMA DoSetWithWire ==
    ASSUME NEW es, NEW id, id < Len(es), NEW v, NEW w
    PROVE  Do(es, SetValueWithWire(id, v, w)) = Put(es, id + 1, Stored(es[id + 1], v, w))
<1>1. PICK op : op = SetValueWithWire(id, v, w)
  OBVIOUS
<1>2. op.kind = "SetValueWithWire" /\ op.target = id /\ op.value = v /\ op.wire = w
  BY <1>1 DEF SetValueWithWire
<1>3. Do(es, op) = Put(es, op.target + 1, Stored(es[op.target + 1], op.value, op.wire))
  BY <1>2, DoIs
<1> QED BY <1>1, <1>2, <1>3

LEMMA DoTombstone ==
    ASSUME NEW es, NEW id, id < Len(es)
    PROVE  Do(es, Tombstone(id)) = Put(es, id + 1, Lists!Marked(es[id + 1]))
<1>1. PICK op : op = Tombstone(id)
  OBVIOUS
<1>2. op.kind = "Tombstone" /\ op.target = id
  BY <1>1 DEF Tombstone
<1>3. Do(es, op) = Put(es, op.target + 1, Lists!Marked(es[op.target + 1]))
  BY <1>2, DoIs
<1> QED BY <1>1, <1>2, <1>3

LEMMA MarkNone ==
    ASSUME NEW es, IsSequence(es) PROVE Lists!Mark(es, {}) = es
<1>1. PICK t : t = Lists!Mark(es, {})
  OBVIOUS
<1>2. /\ IsSequence(t) /\ Len(t) = Len(es)
      /\ \A n \in 1..Len(es) : t[n] = IF n \in {} THEN Lists!Marked(es[n]) ELSE es[n]
  BY <1>1, MarkIs
<1>3. \A n \in 1..Len(es) : t[n] = es[n]
  BY <1>2
<1> QED BY <1>1, <1>2, <1>3, SequenceEqual

\* Marking one more.
LEMMA MarkMore ==
    ASSUME NEW es, IsSequence(es), NEW P, NEW k \in 1..Len(es), k \notin P,
           NEW Q, Q = P \cup {k}, NEW t, t = Lists!Mark(es, P)
    PROVE  Lists!Mark(es, Q) = Put(t, k, Lists!Marked(t[k]))
<1>1. PICK u, v : u = Lists!Mark(es, P \cup {k}) /\ v = Put(t, k, Lists!Marked(t[k]))
  OBVIOUS
<1>2. /\ IsSequence(t) /\ Len(t) = Len(es)
      /\ \A n \in 1..Len(es) : t[n] = IF n \in P THEN Lists!Marked(es[n]) ELSE es[n]
  BY <1>1, MarkIs
<1>3. /\ IsSequence(u) /\ Len(u) = Len(es)
      /\ \A n \in 1..Len(es) : u[n] = IF n \in P \cup {k} THEN Lists!Marked(es[n]) ELSE es[n]
  BY <1>1, MarkIs
<1>4. /\ IsSequence(v) /\ Len(v) = Len(es) /\ v[k] = Lists!Marked(t[k])
      /\ \A n \in 1..Len(es) : n # k => v[n] = t[n]
  BY <1>1, <1>2, PutIs
<1>5. ASSUME NEW n \in 1..Len(es) PROVE u[n] = v[n]
  <2>1. CASE n = k
    BY <1>2, <1>3, <1>4, <2>1
  <2>2. CASE n # k
    BY <1>2, <1>3, <1>4, <2>2
  <2> QED BY <2>1, <2>2
<1>6. u = v
  BY <1>3, <1>4, <1>5, SequenceEqual
<1> QED BY <1>1, <1>6

Tombstones(gone) == [i \in 1..Len(gone) |-> Tombstone(gone[i])]

\* Some ids, each once, and their places in a list.
Names(gone, l, Q) ==
    /\ IsSequence(gone) /\ \A i \in 1..Len(gone) : gone[i] \in Nat /\ gone[i] < Len(l)
    /\ \A i, j \in 1..Len(gone) : i # j => gone[i] # gone[j]
    /\ Q = {gone[i] + 1 : i \in 1..Len(gone)}

\* Removing several entries at once marks them.
LEMMA AppliedTombstones ==
    ASSUME NEW es, NEW ops, IsSequence(ops), NEW l, l = Applied(es, ops), IsSequence(l),
           NEW gone, NEW Q, Names(gone, l, Q)
    PROVE  /\ IsSequence(ops \o Tombstones(gone))
           /\ Applied(es, ops \o Tombstones(gone)) = Lists!Mark(l, Q)
<1>0. /\ IsSequence(gone) /\ \A i \in 1..Len(gone) : gone[i] \in Nat /\ gone[i] < Len(l)
      /\ \A i, j \in 1..Len(gone) : i # j => gone[i] # gone[j]
      /\ Q = {gone[i] + 1 : i \in 1..Len(gone)}
  BY DEF Names
<1>1. PICK m \in Nat : m = Len(gone)
  BY <1>0 DEF IsSequence
<1>2. PICK more : more = Tombstones(gone)
  OBVIOUS
<1>3. more = [i \in 1..m |-> Tombstone(gone[i])]
  BY <1>1, <1>2 DEF Tombstones
<1>4. IsSequence(more) /\ Len(more) = m /\ \A i \in 1..m : more[i] = Tombstone(gone[i])
  <2>1. more = [i \in 1..m |-> more[i]]
    BY <1>3
  <2> QED BY <1>3, <2>1, SequenceMade
<1> DEFINE P(i) == {gone[j] + 1 : j \in 1..i}
<1>5. PICK g : g = [i \in 0..m |-> Lists!Mark(l, P(i))]
  OBVIOUS
<1>6. g[0] = l
  <2>1. P(0) = {}
    OBVIOUS
  <2>2. g[0] = Lists!Mark(l, {})
    <3>1. 0 \in 0..m
      OBVIOUS
    <3> HIDE DEF P
    <3> QED BY <1>5, <2>1, <3>1
  <2> QED BY <2>2, MarkNone
<1>7. ASSUME NEW i \in 1..m PROVE g[i] = Do(g[i - 1], more[i])
  <2>1. i \in 0..m /\ i - 1 \in 0..m /\ Len(l) \in Nat
    BY DEF IsSequence
  <2>2. P(i) = P(i - 1) \cup {gone[i] + 1}
    <3>1. \A j : j \in 1..i <=> j \in 1..i - 1 \/ j = i
      OBVIOUS
    <3> QED BY <3>1
  <2>3. gone[i] + 1 \in 1..Len(l) /\ gone[i] < Len(l)
    BY <1>0, <1>1, <2>1
  <2>4. gone[i] + 1 \notin P(i - 1)
    <3>1. \A j \in 1..i - 1 : j \in 1..m /\ j # i
      OBVIOUS
    <3>2. \A j \in 1..i - 1 : gone[j] # gone[i] /\ gone[j] \in Nat /\ gone[i] \in Nat
      BY <1>0, <1>1, <3>1
    <3> QED BY <3>2
  <2> HIDE DEF P
  <2>5. PICK t, k, A, B : t = g[i - 1] /\ k = gone[i] + 1 /\ A = P(i - 1) /\ B = P(i)
    OBVIOUS
  <2>6. t = Lists!Mark(l, A) /\ g[i] = Lists!Mark(l, B) /\ B = A \cup {k}
    BY <1>5, <2>1, <2>2, <2>5
  <2>7. IsSequence(t) /\ Len(t) = Len(l)
    BY <2>6, MarkIs
  <2>8. g[i] = Put(t, k, Lists!Marked(t[k]))
    <3>1. k \in 1..Len(l) /\ k \notin A
      BY <2>3, <2>4, <2>5
    <3> QED BY <2>6, <3>1, MarkMore
  <2>9. Do(t, Tombstone(gone[i])) = Put(t, gone[i] + 1, Lists!Marked(t[gone[i] + 1]))
    <3>1. gone[i] < Len(t)
      BY <2>3, <2>7
    <3> QED BY <3>1, DoTombstone
  <2>10. Do(t, Tombstone(gone[i])) = Put(t, k, Lists!Marked(t[k]))
    BY <2>5, <2>9
  <2> QED BY <1>4, <2>5, <2>8, <2>10
<1>8. Applied(es, ops \o more) = g[m]
  BY <1>4, <1>6, <1>7, AppliedMore
<1>9. g[m] = Lists!Mark(l, P(m))
  <2>1. m \in 0..m
    OBVIOUS
  <2> HIDE DEF P
  <2> QED BY <1>5, <2>1
<1>10. IsSequence(ops \o more)
  BY <1>4, SequenceJoin
<1>11. Q = P(m)
  BY <1>0, <1>1
<1> HIDE DEF P
<1> QED BY <1>2, <1>8, <1>9, <1>10, <1>11

\* Removing one.
LEMMA AppliedTombstone ==
    ASSUME NEW es, NEW ops, IsSequence(ops), NEW l, l = Applied(es, ops), IsSequence(l),
           NEW id \in Nat, id < Len(l)
    PROVE  /\ IsSequence(ops \o Tombstones(<<id>>))
           /\ Applied(es, ops \o Tombstones(<<id>>)) = Lists!Mark(l, {id + 1})
<1>1. PICK gone : gone = <<id>>
  OBVIOUS
<1>2. IsSequence(gone) /\ Len(gone) = 1 /\ gone[1] = id
  BY <1>1 DEF IsSequence
<1>3. /\ \A i \in 1..Len(gone) : gone[i] \in Nat /\ gone[i] < Len(l)
      /\ \A i, j \in 1..Len(gone) : i # j => gone[i] # gone[j]
  <2>1. \A i \in 1..Len(gone) : i = 1
    BY <1>2
  <2> QED BY <1>2, <2>1
<1>4. PICK Q : Q = {gone[i] + 1 : i \in 1..Len(gone)}
  OBVIOUS
<1>6. Q = {id + 1}
  <2>1. 1..Len(gone) = {1}
    BY <1>2
  <2> QED BY <1>2, <1>4, <2>1
<1>5. /\ IsSequence(ops \o Tombstones(gone))
      /\ Applied(es, ops \o Tombstones(gone)) = Lists!Mark(l, Q)
  <2>1. Names(gone, l, Q)
    BY <1>2, <1>3, <1>4 DEF Names
  <2> QED BY <2>1, AppliedTombstones
<1> QED BY <1>1, <1>5, <1>6

-----------------------------------------------------------------------------
(* The living among some places.                                            *)

\* The places of C whose entries are alive.
LivePlaces(l, C) == {n \in 1..Len(l) : n \in C /\ ~Deleted(l[n])}

\* Which places are alive after an addition, a write and a removal.
LEMMA LiveAppend ==
    ASSUME NEW l, IsSequence(l), NEW e, ~Deleted(e), NEW t, t = Append(l, e), NEW C, NEW D,
           D \cap 1..Len(l) = C \cap 1..Len(l)
    PROVE  LivePlaces(t, D) = IF Len(l) + 1 \in D THEN LivePlaces(l, C) \cup {Len(l) + 1}
                                                 ELSE LivePlaces(l, C)
<1>1. PICK k \in Nat : k = Len(l)
  BY DEF IsSequence
<1>2. Len(t) = k + 1 /\ t[k + 1] = e /\ \A n \in 1..k : t[n] = l[n]
  BY <1>1, SequenceAppend
<1>3. \A n : n \in 1..k + 1 <=> n \in 1..k \/ n = k + 1
  OBVIOUS
<1>4. k + 1 \notin 1..k
  OBVIOUS
<1>5. \A n \in 1..k : n \in D <=> n \in C
  BY <1>1
<1>6. \A n : n \in LivePlaces(t, D) <=> n \in LivePlaces(l, C) \/ (n = k + 1 /\ k + 1 \in D)
  BY <1>1, <1>2, <1>3, <1>4, <1>5 DEF LivePlaces
<1> QED BY <1>1, <1>6

LEMMA LivePut ==
    ASSUME NEW l, IsSequence(l), NEW k \in 1..Len(l), NEW e, Deleted(e) <=> Deleted(l[k]),
           NEW t, t = Put(l, k, e), NEW C
    PROVE  LivePlaces(t, C) = LivePlaces(l, C)
<1>1. Len(t) = Len(l) /\ t[k] = e /\ \A n \in 1..Len(l) : n # k => t[n] = l[n]
  BY PutIs
<1>2. \A n \in 1..Len(l) : Deleted(t[n]) <=> Deleted(l[n])
  BY <1>1
<1> QED BY <1>1, <1>2 DEF LivePlaces

LEMMA LiveMark ==
    ASSUME NEW l, IsSequence(l), NEW P,
           NEW t, t = Lists!Mark(l, P), NEW C,
           \A n \in 1..Len(l) : Deleted(Lists!Marked(l[n]))
    PROVE  LivePlaces(t, C) = LivePlaces(l, C) \ P
<1>1. /\ Len(t) = Len(l)
      /\ \A n \in 1..Len(l) : t[n] = IF n \in P THEN Lists!Marked(l[n]) ELSE l[n]
  BY MarkIs
<1>2. \A n \in 1..Len(l) : Deleted(t[n]) <=> n \in P \/ Deleted(l[n])
  BY <1>1
<1> QED BY <1>1, <1>2 DEF LivePlaces

LEMMA EntryDies == ASSUME NEW e, IsEntry(e) PROVE Deleted(Lists!Marked(e))
<1>1. PICK d : d = Lists!Marked(e)
  OBVIOUS
<1>2. d.flags = e.flags \cup {"Dirty", "Deleted"}
  BY <1>1, MarkedIs
<1> QED BY <1>1, <1>2 DEF Deleted

LEMMA ViewDies == ASSUME NEW e PROVE Deleted(Lists!Marked(View(e)))
<1>1. PICK u, d : u = View(e) /\ d = Lists!Marked(u)
  OBVIOUS
<1>2. u = [key |-> e.key, value |-> e.value, wire |-> e.wire, flags |-> e.flags]
  BY <1>1 DEF View
<1>3. d = [u EXCEPT !.flags = u.flags \cup {"Dirty", "Deleted"}]
  BY <1>1 DEF Lists!Marked
<1>4. d.flags = u.flags \cup {"Dirty", "Deleted"}
  BY <1>2, <1>3
<1> QED BY <1>1, <1>4 DEF Deleted

LEMMA ViewIs ==
    ASSUME NEW e
    PROVE  /\ View(e).key = e.key /\ View(e).value = e.value /\ View(e).wire = e.wire
           /\ View(e).flags = e.flags /\ (Deleted(View(e)) <=> Deleted(e))
BY DEF View, Deleted

-----------------------------------------------------------------------------
(* The dead are counted.                                                    *)

\* The abstract specification has operators of its own, with the same meaning.
LEMMA CardinalitySame == \A S : Lists!Cardinality(S) = Cardinality(S)
BY DEF Lists!Cardinality, Cardinality

\* The places of removed entries.
DeadPlaces(l) == {n \in 1..Len(l) : Deleted(l[n])}

LEMMA DeadIs ==
    ASSUME NEW l, IsSequence(l)
    PROVE  /\ IsFiniteSet(DeadPlaces(l)) /\ Lists!Dead(l) = Cardinality(DeadPlaces(l))
           /\ Lists!Dead(l) \in Nat
<1>1. PICK k \in Nat : k = Len(l)
  BY DEF IsSequence
<1>2. IsFiniteSet(1..k)
  BY FS_Interval
<1>3. DeadPlaces(l) \in SUBSET (1..k)
  BY <1>1 DEF DeadPlaces
<1>4. IsFiniteSet(DeadPlaces(l))
  BY <1>2, <1>3, FS_Subset
<1>5. Lists!Dead(l) = Cardinality(DeadPlaces(l))
  BY CardinalitySame DEF Lists!Dead, DeadPlaces, Lists!Deleted, Deleted
<1>6. Cardinality(DeadPlaces(l)) \in Nat
  BY <1>4, FS_CardinalityType
<1> QED BY <1>4, <1>5, <1>6

\* A host sees the same entries dead.
LEMMA DeadListed ==
    ASSUME NEW es, IsSequence(es) PROVE DeadPlaces(Listed(es)) = DeadPlaces(es)
<1>1. Len(Listed(es)) = Len(es) /\ \A n \in 1..Len(es) : Listed(es)[n] = View(es[n])
  BY ListedIs
<1>2. \A n \in 1..Len(es) : Deleted(Listed(es)[n]) <=> Deleted(es[n])
  BY <1>1, ViewIs
<1> QED BY <1>1, <1>2 DEF DeadPlaces

\* The number of dead entries of a store's list, by what is in the store.
Dying(es) == Cardinality(DeadPlaces(es))

LEMMA DyingIs ==
    ASSUME NEW es, IsSequence(es)
    PROVE  Dying(es) \in Nat /\ Lists!Dead(Listed(es)) = Dying(es)
<1>1. IsSequence(Listed(es))
  BY ListedIs
<1>2. Lists!Dead(Listed(es)) = Cardinality(DeadPlaces(Listed(es))) /\ Lists!Dead(Listed(es)) \in Nat
  BY <1>1, DeadIs
<1>3. DeadPlaces(Listed(es)) = DeadPlaces(es)
  BY DeadListed
<1> QED BY <1>2, <1>3 DEF Dying

\* An addition and a write kill nothing; a removal kills what was alive.
LEMMA DyingAppend ==
    ASSUME NEW l, IsSequence(l), NEW e, ~Deleted(e)
    PROVE  Dying(Append(l, e)) = Dying(l)
<1>1. PICK k \in Nat : k = Len(l)
  BY DEF IsSequence
<1>2. PICK t : t = Append(l, e)
  OBVIOUS
<1>3. Len(t) = k + 1 /\ t[k + 1] = e /\ \A n \in 1..k : t[n] = l[n]
  BY <1>1, <1>2, SequenceAppend
<1>4. \A n : n \in 1..k + 1 <=> n \in 1..k \/ n = k + 1
  OBVIOUS
<1>5. DeadPlaces(t) = DeadPlaces(l)
  BY <1>1, <1>3, <1>4 DEF DeadPlaces
<1> QED BY <1>2, <1>5 DEF Dying

LEMMA DyingPut ==
    ASSUME NEW l, IsSequence(l), NEW k \in 1..Len(l), NEW e, Deleted(e) <=> Deleted(l[k])
    PROVE  Dying(Put(l, k, e)) = Dying(l)
<1>1. PICK t : t = Put(l, k, e)
  OBVIOUS
<1>2. Len(t) = Len(l) /\ t[k] = e /\ \A n \in 1..Len(l) : n # k => t[n] = l[n]
  BY <1>1, PutIs
<1>3. \A n \in 1..Len(l) : Deleted(t[n]) <=> Deleted(l[n])
  BY <1>2
<1>4. DeadPlaces(t) = DeadPlaces(l)
  BY <1>2, <1>3 DEF DeadPlaces
<1> QED BY <1>1, <1>4 DEF Dying

LEMMA DyingMark ==
    ASSUME NEW l, IsSequence(l), \A n \in 1..Len(l) : Deleted(Lists!Marked(l[n])),
           NEW P, P \subseteq 1..Len(l), IsFiniteSet(P), \A n \in P : ~Deleted(l[n])
    PROVE  Dying(Lists!Mark(l, P)) = Dying(l) + Cardinality(P)
<1>1. PICK t : t = Lists!Mark(l, P)
  OBVIOUS
<1>2. /\ IsSequence(t) /\ Len(t) = Len(l)
      /\ \A n \in 1..Len(l) : t[n] = IF n \in P THEN Lists!Marked(l[n]) ELSE l[n]
  BY <1>1, MarkIs
<1>3. \A n \in 1..Len(l) : Deleted(t[n]) <=> n \in P \/ Deleted(l[n])
  BY <1>2
<1>4. PICK D : D = DeadPlaces(l)
  OBVIOUS
<1>5. DeadPlaces(t) = D \cup P /\ D \cap P = {}
  BY <1>2, <1>3, <1>4 DEF DeadPlaces
<1>6. IsFiniteSet(D) /\ Cardinality(D) \in Nat /\ Cardinality(P) \in Nat
  BY <1>4, DeadIs, FS_CardinalityType
<1>7. Cardinality(D \cup P) = Cardinality(D) + Cardinality(P) - Cardinality({})
  BY <1>5, <1>6, FS_Union
<1>8. Cardinality({}) = 0
  BY FS_EmptySet
<1> QED BY <1>1, <1>4, <1>5, <1>6, <1>7, <1>8 DEF Dying

-----------------------------------------------------------------------------
(* An edit buffer over a store, and the entries it leads to.                *)

\* es is where the edits lead: the entries of the base keep their place, key, block and
\* order, and the counts of the answer count.
Edited(s, edits, es, added, removed) ==
    /\ IsSequence(edits) /\ es = Applied(s.entries, edits) /\ IsSequence(es)
    /\ \A n \in 1..Len(es) : IsEntry(es[n])
    /\ added \in Nat /\ removed \in Nat /\ Len(es) = Len(s.entries) + added
    /\ \A n \in 1..Len(s.entries) :
          /\ es[n].key = s.entries[n].key /\ es[n].block = s.entries[n].block
          /\ es[n].order = s.entries[n].order
    /\ Dying(es) = Dying(s.entries) + removed

\* An empty buffer, and what each kind of operation recorded does.
LEMMA EditedStart ==
    ASSUME NEW s, IsStore(s) PROVE Edited(s, <<>>, s.entries, 0, 0)
<1>1. IsSequence(s.entries) /\ \A n \in 1..Len(s.entries) : IsEntry(s.entries[n])
  BY DEF IsStore
<1>2. IsSequence(<<>>) /\ s.entries = Applied(s.entries, <<>>)
  BY AppliedNone DEF IsSequence
<1>3. Dying(s.entries) \in Nat /\ Len(s.entries) \in Nat
  BY <1>1, DyingIs DEF IsSequence
<1> QED BY <1>1, <1>2, <1>3 DEF Edited

LEMMA EditedAdd ==
    ASSUME NEW s, IsSequence(s.entries), NEW edits, NEW es, NEW added, NEW removed,
           Edited(s, edits, es, added, removed), NEW e, IsEntry(e), ~Deleted(e)
    PROVE  Edited(s, Append(edits, AddEntry(e)), Append(es, e), added + 1, removed)
<1>1. PICK t, more : t = Append(es, e) /\ more = Append(edits, AddEntry(e))
  OBVIOUS
<1>2. PICK k \in Nat, b \in Nat : k = Len(es) /\ b = Len(s.entries)
  BY DEF Edited, IsSequence
<1>3. /\ IsSequence(edits) /\ es = Applied(s.entries, edits) /\ IsSequence(es)
      /\ (\A n \in 1..k : IsEntry(es[n])) /\ added \in Nat /\ removed \in Nat /\ k = b + added
      /\ (\A n \in 1..b : es[n].key = s.entries[n].key /\ es[n].block = s.entries[n].block
                          /\ es[n].order = s.entries[n].order)
      /\ Dying(es) = Dying(s.entries) + removed
  BY <1>2 DEF Edited
<1>4. IsSequence(more) /\ t = Applied(s.entries, more)
  BY <1>1, <1>3, SequenceAppend, AppliedOne, DoAdd
<1>5. IsSequence(t) /\ Len(t) = k + 1 /\ t[k + 1] = e /\ \A n \in 1..k : t[n] = es[n]
  BY <1>1, <1>2, <1>3, SequenceAppend
<1>6. \A n \in 1..k + 1 : IsEntry(t[n])
  <2>1. \A n \in 1..k + 1 : n \in 1..k \/ n = k + 1
    OBVIOUS
  <2> QED BY <1>3, <1>5, <2>1
<1>7. k + 1 = b + (added + 1) /\ added + 1 \in Nat
  BY <1>3
<1>8. ASSUME NEW n \in 1..b
      PROVE  t[n].key = s.entries[n].key /\ t[n].block = s.entries[n].block
             /\ t[n].order = s.entries[n].order
  <2>1. n \in 1..k
    BY <1>3
  <2> QED BY <1>3, <1>5, <2>1
<1>9. Dying(t) = Dying(s.entries) + removed
  BY <1>1, <1>3, DyingAppend
<1>10. Edited(s, more, t, added + 1, removed)
  BY <1>2, <1>3, <1>4, <1>5, <1>6, <1>7, <1>8, <1>9 DEF Edited
<1> QED BY <1>1, <1>10

LEMMA EditedPut ==
    ASSUME NEW s, IsSequence(s.entries), NEW edits, NEW es, NEW added, NEW removed,
           Edited(s, edits, es, added, removed), NEW k \in 1..Len(es), NEW e, IsEntry(e),
           Deleted(e) <=> Deleted(es[k]), e.key = es[k].key, e.block = es[k].block,
           e.order = es[k].order, NEW op, Do(es, op) = Put(es, k, e)
    PROVE  Edited(s, Append(edits, op), Put(es, k, e), added, removed)
<1>1. PICK t, more : t = Put(es, k, e) /\ more = Append(edits, op)
  OBVIOUS
<1>2. PICK b \in Nat : b = Len(s.entries)
  BY DEF IsSequence
<1>3. /\ IsSequence(edits) /\ es = Applied(s.entries, edits) /\ IsSequence(es)
      /\ (\A n \in 1..Len(es) : IsEntry(es[n])) /\ added \in Nat /\ removed \in Nat
      /\ Len(es) = b + added
      /\ (\A n \in 1..b : es[n].key = s.entries[n].key /\ es[n].block = s.entries[n].block
                          /\ es[n].order = s.entries[n].order)
      /\ Dying(es) = Dying(s.entries) + removed
  BY <1>2 DEF Edited
<1>4. IsSequence(more) /\ t = Applied(s.entries, more)
  <2>1. Applied(s.entries, more) = Do(es, op)
    BY <1>1, <1>3, AppliedOne
  <2> QED BY <1>1, <1>3, <2>1, SequenceAppend
<1>5. /\ IsSequence(t) /\ Len(t) = Len(es) /\ t[k] = e
      /\ \A n \in 1..Len(es) : n # k => t[n] = es[n]
  BY <1>1, <1>3, PutIs
<1>6. \A n \in 1..Len(es) : IsEntry(t[n]) /\ t[n].key = es[n].key /\ t[n].block = es[n].block
                            /\ t[n].order = es[n].order
  BY <1>3, <1>5
<1>7. ASSUME NEW n \in 1..b
      PROVE  t[n].key = s.entries[n].key /\ t[n].block = s.entries[n].block
             /\ t[n].order = s.entries[n].order
  <2>1. n \in 1..Len(es)
    BY <1>3
  <2> QED BY <1>3, <1>6, <2>1
<1>8. Dying(t) = Dying(s.entries) + removed
  BY <1>1, <1>3, DyingPut
<1>9. Edited(s, more, t, added, removed)
  BY <1>2, <1>3, <1>4, <1>5, <1>6, <1>7, <1>8 DEF Edited
<1> QED BY <1>1, <1>9

LEMMA EditedMark ==
    ASSUME NEW s, IsSequence(s.entries), NEW edits, NEW es, NEW added, NEW removed,
           Edited(s, edits, es, added, removed), NEW more, IsSequence(more),
           NEW P, P \subseteq 1..Len(es), IsFiniteSet(P), \A n \in P : ~Deleted(es[n]),
           Applied(s.entries, more) = Lists!Mark(es, P)
    PROVE  Edited(s, more, Lists!Mark(es, P), added, removed + Cardinality(P))
<1>1. PICK t : t = Lists!Mark(es, P)
  OBVIOUS
<1>2. PICK b \in Nat : b = Len(s.entries)
  BY DEF IsSequence
<1>3. /\ es = Applied(s.entries, edits) /\ IsSequence(es)
      /\ (\A n \in 1..Len(es) : IsEntry(es[n])) /\ added \in Nat /\ removed \in Nat
      /\ Len(es) = b + added
      /\ (\A n \in 1..b : es[n].key = s.entries[n].key /\ es[n].block = s.entries[n].block
                          /\ es[n].order = s.entries[n].order)
      /\ Dying(es) = Dying(s.entries) + removed
  BY <1>2 DEF Edited
<1>5. /\ IsSequence(t) /\ Len(t) = Len(es)
      /\ \A n \in 1..Len(es) : t[n] = IF n \in P THEN Lists!Marked(es[n]) ELSE es[n]
  BY <1>1, <1>3, MarkIs
<1>6. \A n \in 1..Len(es) : IsEntry(t[n]) /\ t[n].key = es[n].key /\ t[n].block = es[n].block
                            /\ t[n].order = es[n].order
  <2> TAKE n \in 1..Len(es)
  <2>1. PICK d : d = Lists!Marked(es[n])
    OBVIOUS
  <2>2. IsEntry(d) /\ d.key = es[n].key /\ d.block = es[n].block /\ d.order = es[n].order
    BY <1>3, <2>1, MarkedIs
  <2> QED BY <1>3, <1>5, <2>1, <2>2
<1>7. ASSUME NEW n \in 1..b
      PROVE  t[n].key = s.entries[n].key /\ t[n].block = s.entries[n].block
             /\ t[n].order = s.entries[n].order
  <2>1. n \in 1..Len(es)
    BY <1>3
  <2> QED BY <1>3, <1>6, <2>1
<1>8. Cardinality(P) \in Nat
  BY FS_CardinalityType
<1>9. Dying(t) = Dying(s.entries) + (removed + Cardinality(P)) /\ Dying(s.entries) \in Nat
  <2>1. \A n \in 1..Len(es) : Deleted(Lists!Marked(es[n]))
    BY <1>3, EntryDies
  <2>2. Dying(t) = Dying(es) + Cardinality(P)
    BY <1>1, <1>3, <2>1, DyingMark
  <2>3. Dying(s.entries) \in Nat
    BY DyingIs
  <2> QED BY <1>3, <1>8, <2>2, <2>3
<1>10. Edited(s, more, t, added, removed + Cardinality(P))
  BY <1>1, <1>2, <1>3, <1>5, <1>6, <1>7, <1>8, <1>9 DEF Edited
<1> QED BY <1>1, <1>10

-----------------------------------------------------------------------------
(* The abstract operations in the terms of the store.                       *)

\* The places of a field, of a key and of a scope, and those alive.
FieldAt(l, f) == {n \in 1..Len(l) : OfField(f, l[n].key)}
KeyAt(l, key) == {n \in 1..Len(l) : l[n].key = key}
ScopeAt(l, scope) == {n \in 1..Len(l) : InScope(scope, l[n].key)}

LEMMA NthSame == \A P, n : Lists!Nth(P, n) = Nth(P, n)
BY CardinalitySame DEF Lists!Nth, Nth

LEMMA OfFieldSame == \A f, key : Lists!OfField(f, key) <=> OfField(f, key)
BY DEF Lists!OfField, OfField, Lists!NoLeaf, NoLeaf

LEMMA InScopeSame == \A scope, key : Lists!InScope(scope, key) <=> InScope(scope, key)
BY DEF Lists!InScope, InScope

LEMMA DeletedSame == \A e : Lists!Deleted(e) <=> Deleted(e)
BY DEF Lists!Deleted, Deleted

LEMMA KeySame == \A r, i, f : Lists!Key(r, i, f) = Key(r, i, f)
BY DEF Lists!Key, Key

LEMMA MinSame == \A S : Lists!Min(S) = Min(S)
BY DEF Lists!Min, Min

LEMMA PickedSame == \A s, P : Lists!Picked(s, P) = Picked(s, P)
BY CardinalitySame, NthSame DEF Lists!Picked, Picked

FieldLive(l, f) == LivePlaces(l, FieldAt(l, f))
KeyLive(l, key) == LivePlaces(l, KeyAt(l, key))
ScopeLive(l, scope) == LivePlaces(l, ScopeAt(l, scope))

\* The sets of the abstract specification, by place.
LEMMA FieldLiveIs ==
    \A l, f : Lists!Live(l, LAMBDA key : Lists!OfField(f, key)) = FieldLive(l, f)
BY OfFieldSame, DeletedSame DEF Lists!Live, FieldLive, LivePlaces, FieldAt

LEMMA KeyLiveIs == \A l, k : Lists!Live(l, LAMBDA key : key = k) = KeyLive(l, k)
BY DeletedSame DEF Lists!Live, KeyLive, LivePlaces, KeyAt

LEMMA ScopeLiveIs ==
    \A l, s : Lists!Live(l, LAMBDA key : Lists!InScope(s, key)) = ScopeLive(l, s)
BY InScopeSame, DeletedSame DEF Lists!Live, ScopeLive, LivePlaces, ScopeAt

\* When an operation by field applies.
Single(l, op) ==
    op.field \in Repeated \/ (op.occurrence = 0 /\ Cardinality(FieldLive(l, op.field)) = 1)
FieldAdds(l, op) ==
    op.kind = "Add" /\ (op.field \in Repeated \/ FieldLive(l, op.field) = {})
FieldSets(l, op) ==
    /\ op.kind = "Set" /\ op.occurrence # All /\ Single(l, op)
    /\ op.occurrence < Cardinality(FieldLive(l, op.field))
FieldClears(l, op) ==
    op.kind = "Remove" /\ op.occurrence = All /\ FieldLive(l, op.field) # {}
FieldDrops(l, op) ==
    /\ op.kind = "Remove" /\ op.occurrence # All /\ Single(l, op)
    /\ op.occurrence < Cardinality(FieldLive(l, op.field))

\* The lists that each kind of operation by field leads to.
LEMMA ByFieldAdds ==
    ASSUME NEW l, NEW op, FieldAdds(l, op), NEW x \in Lists!ByField(l, op)
    PROVE  \E k \in Lists!NewKeys(l, op.field) :
              x = Append(l, Lists!Entry(k, op.value, "none"))
BY FieldLiveIs DEF Lists!ByField, FieldAdds

LEMMA ByFieldAdding ==
    ASSUME NEW l, NEW op, FieldAdds(l, op), NEW k \in Lists!NewKeys(l, op.field)
    PROVE  Append(l, Lists!Entry(k, op.value, "none")) \in Lists!ByField(l, op)
BY FieldLiveIs DEF Lists!ByField, FieldAdds

LEMMA ByFieldSets ==
    ASSUME NEW l, NEW op, FieldSets(l, op),
           NEW at, at = Nth(FieldLive(l, op.field), op.occurrence + 1)
    PROVE  Lists!ByField(l, op) = {Put(l, at, Lists!Written(l[at], op.value))}
BY CardinalitySame, NthSame, FieldLiveIs DEF Lists!ByField, FieldSets, Single, Put

LEMMA ByFieldClears ==
    ASSUME NEW l, NEW op, FieldClears(l, op)
    PROVE  Lists!ByField(l, op) = {Lists!Mark(l, FieldLive(l, op.field))}
BY FieldLiveIs DEF Lists!ByField, FieldClears

LEMMA ByFieldDrops ==
    ASSUME NEW l, NEW op, FieldDrops(l, op),
           NEW at, at = Nth(FieldLive(l, op.field), op.occurrence + 1)
    PROVE  Lists!ByField(l, op) = {Lists!Mark(l, {at})}
BY CardinalitySame, NthSame, FieldLiveIs DEF Lists!ByField, FieldDrops, Single

FieldApplies(l, op) ==
    FieldAdds(l, op) \/ FieldSets(l, op) \/ FieldClears(l, op) \/ FieldDrops(l, op)

LEMMA ByFieldElse ==
    ASSUME NEW l, NEW op, ~FieldApplies(l, op)
    PROVE  Lists!ByField(l, op) = {}
BY CardinalitySame, FieldLiveIs
   DEF Lists!ByField, FieldApplies, FieldAdds, FieldSets, FieldClears, FieldDrops, Single

-----------------------------------------------------------------------------
(* The lists that the first operations of a request may lead to.            *)

\* f[n] holds the lists that the first n operations may lead to, from one list.
IsAfter(l, r, m, f) ==
    f = [i \in 0..m |-> IF i = 0 THEN {l}
                        ELSE UNION {Lists!Results(r, k, r.ops[i]) : k \in f[i - 1]}]
HasAfter(l, r, m) == \E f : IsAfter(l, r, m, f)
AfterFrom(l, r) == CHOOSE f : IsAfter(l, r, Len(r.ops), f)

\* There is such a function, and it is the one of the abstract specification.
LEMMA AfterExists ==
    ASSUME NEW l, NEW r, NEW k \in Nat PROVE HasAfter(l, r, k)
<1> DEFINE S == {m \in Nat : HasAfter(l, r, m)}
           Step(F, i) == UNION {Lists!Results(r, x, r.ops[i]) : x \in F}
<1>1. 0 \in S
  <2>1. PICK f : f = [i \in 0..0 |-> {l}]
    OBVIOUS
  <2>2. \A i \in 0..0 : i = 0
    OBVIOUS
  <2>3. IsAfter(l, r, 0, f)
    BY <2>1, <2>2 DEF IsAfter
  <2> QED BY <2>3 DEF HasAfter
<1>2. ASSUME NEW m \in Nat, m \in S PROVE m + 1 \in S
  <2>1. PICK f : f = [i \in 0..m |-> IF i = 0 THEN {l} ELSE Step(f[i - 1], i)]
    BY <1>2 DEF HasAfter, IsAfter
  <2> HIDE DEF Step
  <2>2. PICK g : g = [i \in 0..m + 1 |-> IF i = m + 1 THEN Step(f[m], i) ELSE f[i]]
    OBVIOUS
  <2>3. \A i \in 0..m : g[i] = f[i]
    BY <2>2
  <2>4. ASSUME NEW i \in 0..m + 1
        PROVE  g[i] = IF i = 0 THEN {l} ELSE Step(g[i - 1], i)
    <3>1. CASE i = m + 1
      <4>1. i # 0 /\ i - 1 = m /\ m \in 0..m
        BY <3>1
      <4> QED BY <2>2, <2>3, <3>1, <4>1
    <3>2. CASE i # m + 1
      <4>1. i \in 0..m /\ (i # 0 => i - 1 \in 0..m)
        BY <3>2
      <4>2. f[i] = IF i = 0 THEN {l} ELSE Step(f[i - 1], i)
        BY <2>1, <4>1
      <4> QED BY <2>3, <4>1, <4>2
    <3> QED BY <3>1, <3>2
  <2>5. g = [i \in 0..m + 1 |-> IF i = 0 THEN {l} ELSE Step(g[i - 1], i)]
    BY <2>2, <2>4
  <2>6. IsAfter(l, r, m + 1, g)
    BY <2>5 DEF IsAfter, Step
  <2> QED BY <2>6 DEF HasAfter
<1> HIDE DEF S
<1>3. k \in S
  BY <1>1, <1>2, Induction
<1> QED BY <1>3 DEF S

LEMMA AfterFromIs ==
    ASSUME NEW l, NEW r, Len(r.ops) \in Nat
    PROVE  /\ AfterFrom(l, r)[0] = {l}
           /\ \A n \in 1..Len(r.ops) : AfterFrom(l, r)[n] =
                 UNION {Lists!Results(r, k, r.ops[n]) : k \in AfterFrom(l, r)[n - 1]}
<1>1. PICK m : m = Len(r.ops)
  OBVIOUS
<1>2. PICK f : f = AfterFrom(l, r)
  OBVIOUS
<1>3. IsAfter(l, r, m, f)
  <2>1. HasAfter(l, r, m)
    BY <1>1, AfterExists
  <2> QED BY <1>1, <1>2, <2>1 DEF HasAfter, AfterFrom
<1>4. f[0] = {l}
  <2>1. 0 \in 0..m
    BY <1>1
  <2> QED BY <1>3, <2>1 DEF IsAfter
<1>5. ASSUME NEW n \in 1..m
      PROVE  f[n] = UNION {Lists!Results(r, k, r.ops[n]) : k \in f[n - 1]}
  <2>1. n \in 0..m /\ n # 0
    BY <1>1
  <2> QED BY <1>3, <2>1 DEF IsAfter
<1> QED BY <1>1, <1>2, <1>4, <1>5

LEMMA AfterIs == \A r, n : Lists!After(r, n) = AfterFrom(Seen(store), r)[n]
BY DEF Lists!After, AfterFrom, IsAfter

\* One operation leads on from any of the lists.
LEMMA AfterStep ==
    ASSUME NEW l, NEW r, Len(r.ops) \in Nat, NEW n \in 1..Len(r.ops),
           NEW k \in AfterFrom(l, r)[n - 1], NEW m \in Lists!Results(r, k, r.ops[n])
    PROVE  m \in AfterFrom(l, r)[n]
<1>1. AfterFrom(l, r)[n] = UNION {Lists!Results(r, x, r.ops[n]) : x \in AfterFrom(l, r)[n - 1]}
  BY AfterFromIs
<1> QED BY <1>1

\* ... and there is no other way.
LEMMA AfterBefore ==
    ASSUME NEW l, NEW r, Len(r.ops) \in Nat, NEW n \in 1..Len(r.ops),
           NEW m \in AfterFrom(l, r)[n]
    PROVE  \E k \in AfterFrom(l, r)[n - 1] : m \in Lists!Results(r, k, r.ops[n])
<1>1. AfterFrom(l, r)[n] = UNION {Lists!Results(r, x, r.ops[n]) : x \in AfterFrom(l, r)[n - 1]}
  BY AfterFromIs
<1> QED BY <1>1

-----------------------------------------------------------------------------
(* Lists that differ in the numbers of their items only.                    *)

\* Lists with the same fields at the same places, whatever the indices of their items.
IsView(x) == x = [key |-> x.key, value |-> x.value, wire |-> x.wire, flags |-> x.flags]

Alike(l, m) ==
    /\ IsSequence(l) /\ IsSequence(m) /\ Len(l) = Len(m)
    /\ \A n \in 1..Len(m) :
          /\ IsView(l[n]) /\ IsView(m[n]) /\ (Deleted(l[n]) <=> Deleted(m[n]))
          /\ \A f \in Fields : OfField(f, l[n].key) <=> OfField(f, m[n].key)

\* Views stay views through every change.
LEMMA ViewsAre ==
    ASSUME NEW x, IsView(x), NEW v
    PROVE  /\ IsView(Lists!Marked(x)) /\ Deleted(Lists!Marked(x)) /\ Lists!Marked(x).key = x.key
           /\ IsView(Lists!Written(x, v)) /\ Lists!Written(x, v).key = x.key
           /\ Deleted(Lists!Written(x, v)) <=> Deleted(x)
<1>1. PICK d, w : d = Lists!Marked(x) /\ w = Lists!Written(x, v)
  OBVIOUS
<1>2. x = [key |-> x.key, value |-> x.value, wire |-> x.wire, flags |-> x.flags]
  BY DEF IsView
<1>3. d = [x EXCEPT !.flags = x.flags \cup {"Dirty", "Deleted"}]
  BY <1>1 DEF Lists!Marked
<1>4. d = [key |-> x.key, value |-> x.value, wire |-> x.wire,
           flags |-> x.flags \cup {"Dirty", "Deleted"}]
  BY <1>2, <1>3
<1>5. d.key = x.key /\ d.flags = x.flags \cup {"Dirty", "Deleted"} /\ IsView(d)
  BY <1>4 DEF IsView
<1>6. w = [x EXCEPT !.value = v, !.flags = x.flags \cup {"Dirty"}]
  BY <1>1 DEF Lists!Written
<1>7. w = [key |-> x.key, value |-> v, wire |-> x.wire, flags |-> x.flags \cup {"Dirty"}]
  BY <1>2, <1>6
<1>8. w.key = x.key /\ w.flags = x.flags \cup {"Dirty"} /\ IsView(w)
  BY <1>7 DEF IsView
<1>9. Deleted(d) /\ (Deleted(w) <=> Deleted(x))
  BY <1>5, <1>8 DEF Deleted
<1> QED BY <1>1, <1>5, <1>8, <1>9

LEMMA EntryView ==
    ASSUME NEW k, NEW v, NEW w
    PROVE  /\ IsView(Lists!Entry(k, v, w)) /\ Lists!Entry(k, v, w).key = k
           /\ ~Deleted(Lists!Entry(k, v, w))
<1>1. PICK e : e = Lists!Entry(k, v, w)
  OBVIOUS
<1>2. e = [key |-> k, value |-> v, wire |-> w, flags |-> {"Dirty"}]
  BY <1>1 DEF Lists!Entry
<1>3. IsView(e) /\ e.key = k /\ e.flags = {"Dirty"}
  BY <1>2 DEF IsView
<1> QED BY <1>1, <1>3 DEF Deleted

\* Alike lists have the same entries of each field alive, through every change.
LEMMA AlikeLive ==
    ASSUME NEW l, NEW m, Alike(l, m), NEW f \in Fields
    PROVE  FieldLive(l, f) = FieldLive(m, f) /\ FieldLive(m, f) \subseteq 1..Len(m)
BY DEF Alike, FieldLive, LivePlaces, FieldAt

LEMMA AlikeAppend ==
    ASSUME NEW l, NEW m, Alike(l, m), NEW x, NEW y, IsView(x), IsView(y),
           Deleted(x) <=> Deleted(y),
           \A f \in Fields : OfField(f, x.key) <=> OfField(f, y.key)
    PROVE  Alike(Append(l, x), Append(m, y))
<1>1. PICK k \in Nat : k = Len(m)
  BY DEF Alike, IsSequence
<1>2. PICK t, u : t = Append(l, x) /\ u = Append(m, y)
  OBVIOUS
<1>3. /\ IsSequence(t) /\ Len(t) = k + 1 /\ t[k + 1] = x /\ \A n \in 1..k : t[n] = l[n]
  BY <1>1, <1>2, SequenceAppend DEF Alike
<1>4. /\ IsSequence(u) /\ Len(u) = k + 1 /\ u[k + 1] = y /\ \A n \in 1..k : u[n] = m[n]
  BY <1>1, <1>2, SequenceAppend DEF Alike
<1>5. ASSUME NEW n \in 1..k + 1
      PROVE  /\ IsView(t[n]) /\ IsView(u[n]) /\ (Deleted(t[n]) <=> Deleted(u[n]))
             /\ \A f \in Fields : OfField(f, t[n].key) <=> OfField(f, u[n].key)
  <2>1. CASE n = k + 1
    BY <1>3, <1>4, <2>1
  <2>2. CASE n # k + 1
    <3>1. n \in 1..k
      BY <2>2
    <3> QED BY <1>1, <1>3, <1>4, <3>1 DEF Alike
  <2> QED BY <2>1, <2>2
<1>6. Alike(t, u)
  BY <1>3, <1>4, <1>5 DEF Alike
<1> QED BY <1>2, <1>6

LEMMA AlikeWrite ==
    ASSUME NEW l, NEW m, Alike(l, m), NEW k \in 1..Len(m), NEW v
    PROVE  Alike(Put(l, k, Lists!Written(l[k], v)), Put(m, k, Lists!Written(m[k], v)))
<1>1. PICK t, u : t = Put(l, k, Lists!Written(l[k], v)) /\ u = Put(m, k, Lists!Written(m[k], v))
  OBVIOUS
<1>2. IsSequence(l) /\ IsSequence(m) /\ Len(l) = Len(m)
  BY DEF Alike
<1>3. /\ IsSequence(t) /\ Len(t) = Len(m) /\ t[k] = Lists!Written(l[k], v)
      /\ \A n \in 1..Len(m) : n # k => t[n] = l[n]
  BY <1>1, <1>2, PutIs
<1>4. /\ IsSequence(u) /\ Len(u) = Len(m) /\ u[k] = Lists!Written(m[k], v)
      /\ \A n \in 1..Len(m) : n # k => u[n] = m[n]
  BY <1>1, <1>2, PutIs
<1>5. ASSUME NEW n \in 1..Len(m)
      PROVE  /\ IsView(t[n]) /\ IsView(u[n]) /\ (Deleted(t[n]) <=> Deleted(u[n]))
             /\ \A f \in Fields : OfField(f, t[n].key) <=> OfField(f, u[n].key)
  <2>0. /\ IsView(l[n]) /\ IsView(m[n]) /\ (Deleted(l[n]) <=> Deleted(m[n]))
        /\ \A f \in Fields : OfField(f, l[n].key) <=> OfField(f, m[n].key)
    BY DEF Alike
  <2>1. CASE n = k
    <3>1. PICK a, b : a = Lists!Written(l[k], v) /\ b = Lists!Written(m[k], v)
      OBVIOUS
    <3>2. IsView(l[k]) /\ IsView(m[k])
      BY <2>0, <2>1
    <3>3. IsView(a) /\ a.key = l[k].key /\ (Deleted(a) <=> Deleted(l[k]))
      BY <3>1, <3>2, ViewsAre
    <3>4. IsView(b) /\ b.key = m[k].key /\ (Deleted(b) <=> Deleted(m[k]))
      BY <3>1, <3>2, ViewsAre
    <3>5. t[n] = a /\ u[n] = b
      BY <1>3, <1>4, <2>1, <3>1
    <3> QED BY <2>0, <2>1, <3>3, <3>4, <3>5
  <2>2. CASE n # k
    BY <1>3, <1>4, <2>0, <2>2
  <2> QED BY <2>1, <2>2
<1>6. Alike(t, u)
  BY <1>3, <1>4, <1>5 DEF Alike
<1> QED BY <1>1, <1>6

LEMMA AlikeMark ==
    ASSUME NEW l, NEW m, Alike(l, m), NEW P
    PROVE  Alike(Lists!Mark(l, P), Lists!Mark(m, P))
<1>1. PICK t, u : t = Lists!Mark(l, P) /\ u = Lists!Mark(m, P)
  OBVIOUS
<1>2. IsSequence(l) /\ IsSequence(m) /\ Len(l) = Len(m)
  BY DEF Alike
<1>3. /\ IsSequence(t) /\ Len(t) = Len(m)
      /\ \A n \in 1..Len(m) : t[n] = IF n \in P THEN Lists!Marked(l[n]) ELSE l[n]
  BY <1>1, <1>2, MarkIs
<1>4. /\ IsSequence(u) /\ Len(u) = Len(m)
      /\ \A n \in 1..Len(m) : u[n] = IF n \in P THEN Lists!Marked(m[n]) ELSE m[n]
  BY <1>1, <1>2, MarkIs
<1>5. ASSUME NEW n \in 1..Len(m)
      PROVE  /\ IsView(t[n]) /\ IsView(u[n]) /\ (Deleted(t[n]) <=> Deleted(u[n]))
             /\ \A f \in Fields : OfField(f, t[n].key) <=> OfField(f, u[n].key)
  <2>0. /\ IsView(l[n]) /\ IsView(m[n]) /\ (Deleted(l[n]) <=> Deleted(m[n]))
        /\ \A f \in Fields : OfField(f, l[n].key) <=> OfField(f, m[n].key)
    BY DEF Alike
  <2>1. CASE n \in P
    BY <1>3, <1>4, <2>0, <2>1, ViewsAre
  <2>2. CASE n \notin P
    BY <1>3, <1>4, <2>0, <2>2
  <2> QED BY <2>1, <2>2
<1>6. Alike(t, u)
  BY <1>3, <1>4, <1>5 DEF Alike
<1> QED BY <1>1, <1>6

\* The keys that a field may give to a new entry are keys of that field only.
LEMMA NewKeysAre ==
    ASSUME NEW f \in Fields, NEW l, NEW k \in Lists!NewKeys(l, f), NEW g \in Fields
    PROVE  OfField(g, k) <=> g = f
<1>1. CASE f \in Repeated
  <2>1. PICK i \in 1..IndexMax : k = Key(f, i, NoLeaf)
    BY <1>1, KeySame DEF Lists!NewKeys, Lists!NoLeaf, NoLeaf
  <2>2. k.root = f /\ k.leaf = NoLeaf
    BY <2>1 DEF Key
  <2>3. CASE g \in Repeated
    BY <2>2, <2>3 DEF OfField
  <2>4. CASE g \notin Repeated
    <3>1. g \in DOMAIN Singletons /\ g # f
      BY <1>1, <2>4 DEF Fields
    <3>2. k # Singletons[g]
      BY <1>1, <2>2, <3>1, EditingAssumption
    <3> QED BY <2>4, <3>1, <3>2 DEF OfField
  <2> QED BY <2>3, <2>4
<1>2. CASE f \notin Repeated
  <2>1. k = Singletons[f] /\ f \in DOMAIN Singletons
    BY <1>2 DEF Lists!NewKeys, Fields
  <2>2. CASE g \in Repeated
    <3>1. ~(k.root = g /\ k.leaf = NoLeaf) /\ g # f
      BY <1>2, <2>1, <2>2, EditingAssumption
    <3> QED BY <2>2, <3>1 DEF OfField
  <2>3. CASE g \notin Repeated
    <3>1. g \in DOMAIN Singletons
      BY <2>3 DEF Fields
    <3>2. Singletons[f] = Singletons[g] => f = g
      BY <2>1, <3>1, EditingAssumption
    <3> QED BY <2>1, <2>3, <3>2 DEF OfField
  <2> QED BY <2>2, <2>3
<1> QED BY <1>1, <1>2

\* Lists that are alike lead to lists that are alike, or to none.
LEMMA AlikeApplies ==
    ASSUME NEW l, NEW m, Alike(l, m), NEW op, op.field \in Fields
    PROVE  /\ FieldAdds(l, op) <=> FieldAdds(m, op)
           /\ FieldSets(l, op) <=> FieldSets(m, op)
           /\ FieldClears(l, op) <=> FieldClears(m, op)
           /\ FieldDrops(l, op) <=> FieldDrops(m, op)
           /\ FieldLive(l, op.field) = FieldLive(m, op.field)
<1>1. PICK live : live = FieldLive(m, op.field)
  OBVIOUS
<1>2. FieldLive(l, op.field) = live
  BY <1>1, AlikeLive
<1>3. Single(l, op) <=> Single(m, op)
  BY <1>1, <1>2 DEF Single
<1> QED BY <1>1, <1>2, <1>3 DEF FieldAdds, FieldSets, FieldClears, FieldDrops

\* An occurrence that is there names a place.
LEMMA LivePlace ==
    ASSUME NEW P, NEW k \in Nat, P \subseteq 1..k, NEW i \in Nat, i < Cardinality(P)
    PROVE  Nth(P, i + 1) \in P
<1>1. Enumerates(InIdOrder(P), P)
  <2>1. PICK n \in Nat : n = k + 1
    OBVIOUS
  <2>2. P \subseteq 0..n - 1
    BY <2>1
  <2> QED BY <2>2, EnumExists
<1>2. PICK q : q = InIdOrder(P)
  OBVIOUS
<1>3. q \in Seq(Nat) /\ P = {q[j] : j \in 1..Len(q)}
  BY <1>1, <1>2 DEF Enumerates
<1>4. Cardinality(P) = Len(q)
  BY <1>1, <1>2, EnumCard
<1>5. i + 1 \in 1..Len(q)
  <2>1. Len(q) \in Nat
    BY <1>3
  <2>2. i < Len(q)
    BY <1>4
  <2> QED BY <2>1, <2>2
<1>6. Nth(P, i + 1) = q[i + 1]
  BY <1>1, <1>2, <1>5, EnumNth
<1> QED BY <1>3, <1>5, <1>6

\* One operation takes alike lists to alike lists.
LEMMA AlikeResults ==
    ASSUME NEW l, NEW m, Alike(l, m), NEW op, op.field \in Fields, op.occurrence \in Nat,
           NEW x \in Lists!ByField(l, op), NEW y \in Lists!ByField(m, op)
    PROVE  Alike(x, y)
<1>1. PICK live : live = FieldLive(m, op.field)
  OBVIOUS
<1>2. PICK at : at = Nth(live, op.occurrence + 1)
  OBVIOUS
<1>3. /\ FieldAdds(l, op) <=> FieldAdds(m, op)
      /\ FieldSets(l, op) <=> FieldSets(m, op)
      /\ FieldClears(l, op) <=> FieldClears(m, op)
      /\ FieldDrops(l, op) <=> FieldDrops(m, op)
      /\ FieldLive(l, op.field) = live
  BY <1>1, AlikeApplies
<1>4. live \subseteq 1..Len(m) /\ Len(m) \in Nat
  BY <1>1, AlikeLive DEF Alike, IsSequence
<1>5. CASE FieldAdds(m, op)
  <2>3. PICK j \in Lists!NewKeys(l, op.field) : x = Append(l, Lists!Entry(j, op.value, "none"))
    BY <1>3, <1>5, ByFieldAdds
  <2>4. PICK k \in Lists!NewKeys(m, op.field) : y = Append(m, Lists!Entry(k, op.value, "none"))
    BY <1>5, ByFieldAdds
  <2>5. PICK a, b : a = Lists!Entry(j, op.value, "none") /\ b = Lists!Entry(k, op.value, "none")
    OBVIOUS
  <2>6. /\ IsView(a) /\ IsView(b) /\ a.key = j /\ b.key = k /\ ~Deleted(a) /\ ~Deleted(b)
    BY <2>5, EntryView
  <2>7. \A f \in Fields : OfField(f, j) <=> f = op.field
    BY NewKeysAre
  <2>8. \A f \in Fields : OfField(f, k) <=> f = op.field
    BY NewKeysAre
  <2>9. Alike(Append(l, a), Append(m, b))
    <3>1. \A f \in Fields : OfField(f, a.key) <=> OfField(f, b.key)
      BY <2>6, <2>7, <2>8
    <3> QED BY <2>6, <3>1, AlikeAppend
  <2> QED BY <2>3, <2>4, <2>5, <2>9
<1>6. CASE FieldSets(m, op)
  <2>1. Lists!ByField(l, op) = {Put(l, at, Lists!Written(l[at], op.value))}
    <3>1. FieldSets(l, op) /\ at = Nth(FieldLive(l, op.field), op.occurrence + 1)
      BY <1>2, <1>3, <1>6
    <3> QED BY <3>1, ByFieldSets
  <2>2. Lists!ByField(m, op) = {Put(m, at, Lists!Written(m[at], op.value))}
    <3>1. at = Nth(FieldLive(m, op.field), op.occurrence + 1)
      BY <1>1, <1>2
    <3> QED BY <1>6, <3>1, ByFieldSets
  <2>3. at \in 1..Len(m)
    <3>1. op.occurrence < Cardinality(live)
      BY <1>1, <1>6 DEF FieldSets
    <3>2. at \in live
      BY <1>2, <1>4, <3>1, LivePlace
    <3> QED BY <1>4, <3>2
  <2>4. Alike(Put(l, at, Lists!Written(l[at], op.value)),
              Put(m, at, Lists!Written(m[at], op.value)))
    BY <2>3, AlikeWrite
  <2> QED BY <2>1, <2>2, <2>4
<1>7. CASE FieldClears(m, op)
  <2>1. Lists!ByField(l, op) = {Lists!Mark(l, live)}
    BY <1>3, <1>7, ByFieldClears
  <2>2. Lists!ByField(m, op) = {Lists!Mark(m, live)}
    BY <1>1, <1>7, ByFieldClears
  <2> QED BY <2>1, <2>2, AlikeMark
<1>8. CASE FieldDrops(m, op)
  <2>1. Lists!ByField(l, op) = {Lists!Mark(l, {at})}
    <3>1. FieldDrops(l, op) /\ at = Nth(FieldLive(l, op.field), op.occurrence + 1)
      BY <1>2, <1>3, <1>8
    <3> QED BY <3>1, ByFieldDrops
  <2>2. Lists!ByField(m, op) = {Lists!Mark(m, {at})}
    <3>1. at = Nth(FieldLive(m, op.field), op.occurrence + 1)
      BY <1>1, <1>2
    <3> QED BY <1>8, <3>1, ByFieldDrops
  <2> QED BY <2>1, <2>2, AlikeMark
<1>9. CASE ~FieldApplies(m, op)
  <2>1. Lists!ByField(m, op) = {}
    BY <1>9, ByFieldElse
  <2> QED BY <2>1
<1> QED BY <1>5, <1>6, <1>7, <1>8, <1>9 DEF FieldApplies

\* What a host sees has the same fields alive.
LEMMA FieldListed ==
    ASSUME NEW es, IsSequence(es), NEW f
    PROVE  FieldLive(Listed(es), f) = FieldLive(es, f)
<1>1. PICK l : l = Listed(es)
  OBVIOUS
<1>2. /\ Len(l) = Len(es)
      /\ \A n \in 1..Len(es) : l[n] = View(es[n])
  BY <1>1, ListedIs
<1>3. ASSUME NEW n \in 1..Len(es)
      PROVE  l[n].key = es[n].key /\ (Deleted(l[n]) <=> Deleted(es[n]))
  BY <1>2, ViewIs
<1>4. FieldLive(l, f) = FieldLive(es, f)
  BY <1>2, <1>3 DEF FieldLive, LivePlaces, FieldAt
<1> QED BY <1>1, <1>4

\* Tables by field.
OnFields(a) == a = [f \in Fields |-> a[f]]
OnRepeated(t) == t = [f \in Repeated |-> t[f]]

\* The record that a call by field keeps.
LogicalShape(c) ==
    /\ c = [stage |-> "logical", ops |-> c.ops, next |-> c.next, active |-> c.active,
            top |-> c.top, block |-> c.block, order |-> c.order, edits |-> c.edits,
            counts |-> c.counts]
    /\ OnFields(c.active) /\ OnRepeated(c.top)
    /\ c.counts = [added |-> c.counts.added, updated |-> c.counts.updated,
                   removed |-> c.counts.removed]

\* What no operation changes.
LogicalKept(c, d) ==
    /\ LogicalShape(d) /\ d.ops = c.ops /\ d.next = c.next + 1 /\ d.block = c.block

\* The record from its fields.
LEMMA ShapeFrom ==
    ASSUME NEW ops, NEW next, NEW active, NEW top, NEW block, NEW order, NEW edits, NEW counts,
           NEW d, d = [stage |-> "logical", ops |-> ops, next |-> next, active |-> active,
                       top |-> top, block |-> block, order |-> order, edits |-> edits,
                       counts |-> counts],
           OnFields(active), OnRepeated(top),
           counts = [added |-> counts.added, updated |-> counts.updated,
                     removed |-> counts.removed]
    PROVE  /\ LogicalShape(d) /\ d.ops = ops /\ d.next = next /\ d.active = active
           /\ d.top = top /\ d.block = block /\ d.order = order /\ d.edits = edits
           /\ d.counts = counts
<1>1. /\ d.ops = ops /\ d.next = next /\ d.active = active
      /\ d.top = top /\ d.block = block /\ d.order = order /\ d.edits = edits
      /\ d.counts = counts
  OBVIOUS
<1> QED BY <1>1 DEF LogicalShape

\* The record of the counts.
Counted(added, updated, removed) == [added |-> added, updated |-> updated, removed |-> removed]

\* Its fields.
LEMMA CountedIs ==
    ASSUME NEW x, NEW y, NEW z, NEW k, k = Counted(x, y, z)
    PROVE  /\ k = [added |-> k.added, updated |-> k.updated, removed |-> k.removed]
           /\ k.added = x /\ k.removed = z
<1>1. k.added = x /\ k.updated = y /\ k.removed = z
  BY DEF Counted
<1> QED BY <1>1 DEF Counted

\* One operation on the record; the last step of every operation is !.next.
AddAdvances(c, d, e, k, a, t, o) ==
    \E b : /\ b = [c EXCEPT !.edits = e, !.active = a, !.top = t, !.order = o, !.counts = k]
           /\ d = [b EXCEPT !.next = b.next + 1]

LEMMA AddAdvancesIs ==
    ASSUME NEW c, NEW d, NEW e, NEW k, NEW a, NEW t, NEW o, LogicalShape(c),
           AddAdvances(c, d, e, k, a, t, o),
           OnFields(a), OnRepeated(t), NEW x, NEW y, NEW z, k = Counted(x, y, z)
    PROVE  /\ LogicalKept(c, d) /\ d.active = a /\ d.top = t /\ d.order = o
           /\ d.edits = e /\ d.counts.added = x /\ d.counts.removed = z
<1>1. PICK ops, next, active, top, block, order, edits, counts :
          /\ ops = c.ops /\ next = c.next /\ active = c.active /\ top = c.top
          /\ block = c.block /\ order = c.order /\ edits = c.edits /\ counts = c.counts
  OBVIOUS
<1>2. c = [stage |-> "logical", ops |-> ops, next |-> next, active |-> active, top |-> top,
           block |-> block, order |-> order, edits |-> edits, counts |-> counts]
  BY <1>1 DEF LogicalShape
<1>3. PICK b : /\ b = [c EXCEPT !.edits = e, !.active = a, !.top = t, !.order = o, !.counts = k]
               /\ d = [b EXCEPT !.next = b.next + 1]
  BY DEF AddAdvances
<1>4. PICK m : m = next + 1
  OBVIOUS
<1>5. d = [stage |-> "logical", ops |-> ops, next |-> m, active |-> a, top |-> t,
           block |-> block, order |-> o, edits |-> e, counts |-> k]
  BY <1>2, <1>3, <1>4
<1>6. OnFields(active) /\ OnRepeated(top)
  BY <1>1 DEF LogicalShape
<1>7. /\ k = [added |-> k.added, updated |-> k.updated, removed |-> k.removed]
      /\ k.added = x /\ k.removed = z
  BY CountedIs
<1>8. /\ LogicalShape(d) /\ d.ops = ops /\ d.next = m /\ d.active = a
      /\ d.top = t /\ d.block = block /\ d.order = o /\ d.edits = e
      /\ d.counts = k
  BY <1>5, <1>6, <1>7, ShapeFrom
<1> QED BY <1>1, <1>4, <1>7, <1>8 DEF LogicalKept

SetAdvances(c, d, e, k) ==
    \E b : b = [c EXCEPT !.edits = e, !.counts = k] /\ d = [b EXCEPT !.next = b.next + 1]

LEMMA SetAdvancesIs ==
    ASSUME NEW c, NEW d, NEW e, NEW k, LogicalShape(c),
           SetAdvances(c, d, e, k), NEW x, NEW y, NEW z, k = Counted(x, y, z)
    PROVE  /\ LogicalKept(c, d) /\ d.active = c.active /\ d.top = c.top /\ d.order = c.order
           /\ d.edits = e /\ d.counts.added = x /\ d.counts.removed = z
<1>1. PICK ops, next, active, top, block, order, edits, counts :
          /\ ops = c.ops /\ next = c.next /\ active = c.active /\ top = c.top
          /\ block = c.block /\ order = c.order /\ edits = c.edits /\ counts = c.counts
  OBVIOUS
<1>2. c = [stage |-> "logical", ops |-> ops, next |-> next, active |-> active, top |-> top,
           block |-> block, order |-> order, edits |-> edits, counts |-> counts]
  BY <1>1 DEF LogicalShape
<1>3. PICK b : b = [c EXCEPT !.edits = e, !.counts = k] /\ d = [b EXCEPT !.next = b.next + 1]
  BY DEF SetAdvances
<1>4. PICK m : m = next + 1
  OBVIOUS
<1>5. d = [stage |-> "logical", ops |-> ops, next |-> m, active |-> active, top |-> top,
           block |-> block, order |-> order, edits |-> e, counts |-> k]
  BY <1>2, <1>3, <1>4
<1>6. OnFields(active) /\ OnRepeated(top)
  BY <1>1 DEF LogicalShape
<1>7. /\ k = [added |-> k.added, updated |-> k.updated, removed |-> k.removed]
      /\ k.added = x /\ k.removed = z
  BY CountedIs
<1>8. /\ LogicalShape(d) /\ d.ops = ops /\ d.next = m /\ d.active = active
      /\ d.top = top /\ d.block = block /\ d.order = order /\ d.edits = e
      /\ d.counts = k
  BY <1>5, <1>6, <1>7, ShapeFrom
<1> QED BY <1>1, <1>4, <1>7, <1>8 DEF LogicalKept

RemoveAdvances(c, d, e, k, a) ==
    \E b : /\ b = [c EXCEPT !.edits = e, !.active = a, !.counts = k]
           /\ d = [b EXCEPT !.next = b.next + 1]

LEMMA RemoveAdvancesIs ==
    ASSUME NEW c, NEW d, NEW e, NEW k, NEW a, LogicalShape(c),
           RemoveAdvances(c, d, e, k, a),
           OnFields(a), NEW x, NEW y, NEW z, k = Counted(x, y, z)
    PROVE  /\ LogicalKept(c, d) /\ d.active = a /\ d.top = c.top /\ d.order = c.order
           /\ d.edits = e /\ d.counts.added = x /\ d.counts.removed = z
<1>1. PICK ops, next, active, top, block, order, edits, counts :
          /\ ops = c.ops /\ next = c.next /\ active = c.active /\ top = c.top
          /\ block = c.block /\ order = c.order /\ edits = c.edits /\ counts = c.counts
  OBVIOUS
<1>2. c = [stage |-> "logical", ops |-> ops, next |-> next, active |-> active, top |-> top,
           block |-> block, order |-> order, edits |-> edits, counts |-> counts]
  BY <1>1 DEF LogicalShape
<1>3. PICK b : /\ b = [c EXCEPT !.edits = e, !.active = a, !.counts = k]
               /\ d = [b EXCEPT !.next = b.next + 1]
  BY DEF RemoveAdvances
<1>4. PICK m : m = next + 1
  OBVIOUS
<1>5. d = [stage |-> "logical", ops |-> ops, next |-> m, active |-> a, top |-> top,
           block |-> block, order |-> order, edits |-> e, counts |-> k]
  BY <1>2, <1>3, <1>4
<1>6. OnFields(active) /\ OnRepeated(top)
  BY <1>1 DEF LogicalShape
<1>7. /\ k = [added |-> k.added, updated |-> k.updated, removed |-> k.removed]
      /\ k.added = x /\ k.removed = z
  BY CountedIs
<1>8. /\ LogicalShape(d) /\ d.ops = ops /\ d.next = m /\ d.active = a
      /\ d.top = top /\ d.block = block /\ d.order = order /\ d.edits = e
      /\ d.counts = k
  BY <1>5, <1>6, <1>7, ShapeFrom
<1> QED BY <1>1, <1>4, <1>7, <1>8 DEF LogicalKept

\* What an operation that adds changes.
Added(s, c, op, d) ==
    /\ LogicalKept(c, d)
    /\ d.edits = Append(c.edits, AddEntry(NewEntry(FieldKey(c, op.field), op.value,
                                                   "none", c.block, c.order)))
    /\ d.active[op.field] = Append(c.active[op.field], Len(s.entries) + c.counts.added)
    /\ \A f \in Fields : f # op.field => d.active[f] = c.active[f]
    /\ \A f \in Repeated : d.top[f] = IF f = op.field THEN c.top[f] + 1 ELSE c.top[f]
    /\ d.order = Saturated(c.order + 1, OrderMax)
    /\ d.counts.added = c.counts.added + 1 /\ d.counts.removed = c.counts.removed

LEMMA StepAdds ==
    ASSUME NEW s, NEW c, LogicalShape(c), NEW op, op = c.ops[c.next], op.kind = "Add",
           op.field \in Fields, NEW d, d = LogicalStep(s, c)
    PROVE  Added(s, c, op, d)
<1>1. PICK e, id : /\ e = Append(c.edits, AddEntry(NewEntry(FieldKey(c, op.field), op.value,
                                                            "none", c.block, c.order)))
                   /\ id = Len(s.entries) + c.counts.added
  OBVIOUS
<1>2. PICK a, t, o : /\ a = [c.active EXCEPT ![op.field] = Append(c.active[op.field], id)]
                     /\ t = [f \in Repeated |-> IF f = op.field THEN c.top[f] + 1 ELSE c.top[f]]
                     /\ o = Saturated(c.order + 1, OrderMax)
  OBVIOUS
<1>3. PICK k : k = Counted(c.counts.added + 1, c.counts.updated, c.counts.removed)
  OBVIOUS
<1>4. PICK b : b = Recorded(c, op, id)
  OBVIOUS
<1>5. b = [c EXCEPT !.edits = e, !.active = a, !.top = t, !.order = o, !.counts = k]
  <2>1. c.counts = [added |-> c.counts.added, updated |-> c.counts.updated,
                    removed |-> c.counts.removed]
    BY DEF LogicalShape
  <2>2. k = [c.counts EXCEPT !.added = c.counts.added + 1]
    BY <1>3, <2>1 DEF Counted
  <2> QED BY <1>1, <1>2, <1>4, <2>2 DEF Recorded
<1>6. d = [b EXCEPT !.next = b.next + 1]
  BY <1>1, <1>4 DEF LogicalStep, LogicalDone, LogicalAdd
<1>7. /\ OnFields(a) /\ OnRepeated(t)
      /\ a[op.field] = Append(c.active[op.field], id)
      /\ \A f \in Fields : f # op.field => a[f] = c.active[f]
  <2>1. OnFields(c.active)
    BY DEF LogicalShape
  <2> QED BY <1>2, <2>1 DEF OnFields, OnRepeated
<1>8. /\ LogicalKept(c, d) /\ d.active = a /\ d.top = t /\ d.order = o
      /\ d.edits = e /\ d.counts.added = c.counts.added + 1 /\ d.counts.removed = c.counts.removed
  <2>1. AddAdvances(c, d, e, k, a, t, o)
    BY <1>5, <1>6 DEF AddAdvances
  <2>2. PICK x, y, z : k = Counted(x, y, z) /\ x = c.counts.added + 1 /\ z = c.counts.removed
    BY <1>3
  <2>3. OnFields(a)
    BY <1>7
  <2>4. OnRepeated(t)
    BY <1>7
  <2>5. /\ LogicalKept(c, d) /\ d.active = a /\ d.top = t /\ d.order = o
        /\ d.edits = e /\ d.counts.added = x /\ d.counts.removed = z
    BY <2>1, <2>2, <2>3, <2>4, AddAdvancesIs
  <2> QED BY <2>2, <2>5
<1>9. \A f \in Repeated : d.top[f] = IF f = op.field THEN c.top[f] + 1 ELSE c.top[f]
  BY <1>2, <1>8
<1> QED BY <1>1, <1>2, <1>7, <1>8, <1>9 DEF Added

\* What an operation that sets changes.
Wrote(c, op, d) ==
    /\ LogicalKept(c, d)
    /\ d.edits = Append(c.edits,
                        SetValue(c.active[op.field][op.occurrence + 1], op.value))
    /\ d.active = c.active /\ d.top = c.top /\ d.order = c.order
    /\ d.counts.added = c.counts.added /\ d.counts.removed = c.counts.removed

LEMMA StepSets ==
    ASSUME NEW s, NEW c, LogicalShape(c), NEW op, op = c.ops[c.next], op.kind = "Set",
           NEW d, d = LogicalStep(s, c)
    PROVE  Wrote(c, op, d)
<1>1. PICK e : e = Append(c.edits, SetValue(c.active[op.field][op.occurrence + 1], op.value))
  OBVIOUS
<1>2. PICK k : k = Counted(c.counts.added, c.counts.updated + 1, c.counts.removed)
  OBVIOUS
<1>3. PICK b : b = LogicalSet(c, op)
  OBVIOUS
<1>4. b = [c EXCEPT !.edits = e, !.counts = k]
  <2>1. c.counts = [added |-> c.counts.added, updated |-> c.counts.updated,
                    removed |-> c.counts.removed]
    BY DEF LogicalShape
  <2>2. k = [c.counts EXCEPT !.updated = c.counts.updated + 1]
    BY <1>2, <2>1 DEF Counted
  <2> QED BY <1>1, <1>3, <2>2 DEF LogicalSet
<1>5. d = [b EXCEPT !.next = b.next + 1]
  BY <1>3 DEF LogicalStep, LogicalDone
<1>6. /\ LogicalKept(c, d) /\ d.active = c.active /\ d.top = c.top
      /\ d.order = c.order
      /\ d.edits = e /\ d.counts.added = c.counts.added /\ d.counts.removed = c.counts.removed
  <2>1. SetAdvances(c, d, e, k)
    BY <1>4, <1>5 DEF SetAdvances
  <2> QED BY <1>2, <2>1, SetAdvancesIs
<1> QED BY <1>1, <1>2, <1>6 DEF Wrote

\* The ids that a removal is about.
Gone(c, op) == IF op.occurrence = All THEN c.active[op.field]
               ELSE <<c.active[op.field][op.occurrence + 1]>>

\* What an operation that removes changes.
Removed(c, op, d, gone) ==
    /\ LogicalKept(c, d)
    /\ d.edits = c.edits \o Tombstones(gone)
    /\ d.active[op.field] = IF op.occurrence = All THEN <<>>
                            ELSE RemoveAt(c.active[op.field], op.occurrence + 1)
    /\ \A f \in Fields : f # op.field => d.active[f] = c.active[f]
    /\ d.top = c.top /\ d.order = c.order
    /\ d.counts.added = c.counts.added
    /\ d.counts.removed = c.counts.removed + Len(gone)

LEMMA StepRemoves ==
    ASSUME NEW s, NEW c, LogicalShape(c), NEW op, op = c.ops[c.next], op.kind = "Remove",
           op.field \in Fields, NEW d, d = LogicalStep(s, c), NEW gone,
           gone = Gone(c, op)
    PROVE  Removed(c, op, d, gone)
<1>1. PICK e, x : /\ e = c.edits \o Tombstones(gone)
                  /\ x = IF op.occurrence = All THEN <<>>
                         ELSE RemoveAt(c.active[op.field], op.occurrence + 1)
  OBVIOUS
<1>2. PICK a : a = [c.active EXCEPT ![op.field] = x]
  OBVIOUS
<1>3. PICK k : k = Counted(c.counts.added, c.counts.updated, c.counts.removed + Len(gone))
  OBVIOUS
<1>4. PICK b : b = LogicalRemove(c, op)
  OBVIOUS
<1>5. b = [c EXCEPT !.edits = e, !.active = a, !.counts = k]
  <2>1. c.counts = [added |-> c.counts.added, updated |-> c.counts.updated,
                    removed |-> c.counts.removed]
    BY DEF LogicalShape
  <2>2. k = [c.counts EXCEPT !.removed = c.counts.removed + Len(gone)]
    BY <1>3, <2>1 DEF Counted
  <2>3. b = [c EXCEPT !.edits = c.edits \o [i \in 1..Len(gone) |-> Tombstone(gone[i])],
                      !.active = [c.active EXCEPT ![op.field] = x],
                      !.counts = [c.counts EXCEPT !.removed = c.counts.removed + Len(gone)]]
    BY <1>1, <1>4 DEF LogicalRemove, Gone
  <2> QED BY <1>1, <1>2, <2>2, <2>3 DEF Tombstones
<1>6. d = [b EXCEPT !.next = b.next + 1]
  BY <1>4 DEF LogicalStep, LogicalDone
<1>7. /\ OnFields(a) /\ a[op.field] = x
      /\ \A f \in Fields : f # op.field => a[f] = c.active[f]
  <2>1. OnFields(c.active)
    BY DEF LogicalShape
  <2> QED BY <1>2, <2>1 DEF OnFields, OnRepeated
<1>8. /\ LogicalKept(c, d) /\ d.active = a /\ d.top = c.top /\ d.order = c.order
      /\ d.edits = e /\ d.counts.added = c.counts.added
      /\ d.counts.removed = c.counts.removed + Len(gone)
  <2>1. RemoveAdvances(c, d, e, k, a)
    BY <1>5, <1>6 DEF RemoveAdvances
  <2>2. PICK u, y, z : /\ k = Counted(u, y, z) /\ u = c.counts.added
                     /\ z = c.counts.removed + Len(gone)
    BY <1>3
  <2>3. OnFields(a)
    BY <1>7
  <2>4. /\ LogicalKept(c, d) /\ d.active = a /\ d.top = c.top /\ d.order = c.order
        /\ d.edits = e /\ d.counts.added = u /\ d.counts.removed = z
    BY <2>1, <2>2, <2>3, RemoveAdvancesIs
  <2> QED BY <2>2, <2>4
<1> QED BY <1>1, <1>3, <1>7, <1>8 DEF Removed

-----------------------------------------------------------------------------
(* What the call by field knows of the entries that its edits lead to.      *)

\* No key is of two fields.
LEMMA FieldsDisjoint ==
    ASSUME NEW f \in Fields, NEW g \in Fields, NEW k, OfField(f, k), OfField(g, k)
    PROVE  f = g
<1>1. CASE f \in Repeated /\ g \in Repeated
  BY <1>1 DEF OfField
<1>2. CASE f \in Repeated /\ g \notin Repeated
  <2>1. g \in DOMAIN Singletons /\ k = Singletons[g]
    BY <1>2 DEF Fields, OfField
  <2>2. k.root = f /\ k.leaf = NoLeaf
    BY <1>2 DEF OfField
  <2> QED BY <1>2, <2>1, <2>2, EditingAssumption
<1>3. CASE f \notin Repeated /\ g \in Repeated
  <2>1. f \in DOMAIN Singletons /\ k = Singletons[f]
    BY <1>3 DEF Fields, OfField
  <2>2. k.root = g /\ k.leaf = NoLeaf
    BY <1>3 DEF OfField
  <2> QED BY <1>3, <2>1, <2>2, EditingAssumption
<1>4. CASE f \notin Repeated /\ g \notin Repeated
  <2>1. f \in DOMAIN Singletons /\ g \in DOMAIN Singletons
    BY <1>4 DEF Fields
  <2>2. Singletons[f] = Singletons[g]
    BY <1>4 DEF OfField
  <2> QED BY <2>1, <2>2, EditingAssumption
<1> QED BY <1>1, <1>2, <1>3, <1>4

\* Entries with other values and flags.
SameFrame(es, fs) ==
    /\ IsSequence(es) /\ IsSequence(fs) /\ Len(fs) = Len(es)
    /\ \A n \in 1..Len(es) : /\ fs[n].key = es[n].key /\ fs[n].block = es[n].block
                             /\ fs[n].order = es[n].order

\* A write and a removal leave the frame, and all that depends on it.
LEMMA FramePut ==
    ASSUME NEW es, IsSequence(es), NEW k \in 1..Len(es), NEW e, e.key = es[k].key,
           e.block = es[k].block, e.order = es[k].order, NEW fs, fs = Put(es, k, e)
    PROVE  SameFrame(es, fs)
<1>1. /\ IsSequence(fs) /\ Len(fs) = Len(es) /\ fs[k] = e
      /\ \A n \in 1..Len(es) : n # k => fs[n] = es[n]
  BY PutIs
<1> QED BY <1>1 DEF SameFrame

LEMMA FrameMark ==
    ASSUME NEW es, IsSequence(es), \A n \in 1..Len(es) : IsEntry(es[n]), NEW P,
           NEW fs, fs = Lists!Mark(es, P)
    PROVE  SameFrame(es, fs)
<1>1. /\ IsSequence(fs) /\ Len(fs) = Len(es)
      /\ \A n \in 1..Len(es) : fs[n] = IF n \in P THEN Lists!Marked(es[n]) ELSE es[n]
  BY MarkIs
<1>2. ASSUME NEW n \in 1..Len(es)
      PROVE  /\ fs[n].key = es[n].key /\ fs[n].block = es[n].block
             /\ fs[n].order = es[n].order
  <2>1. CASE n \in P
    <3>1. PICK d : d = Lists!Marked(es[n])
      OBVIOUS
    <3>2. d.key = es[n].key /\ d.block = es[n].block /\ d.order = es[n].order
      BY <3>1, MarkedIs
    <3> QED BY <1>1, <2>1, <3>1, <3>2
  <2>2. CASE n \notin P
    BY <1>1, <2>2
  <2> QED BY <2>1, <2>2
<1> QED BY <1>1, <1>2 DEF SameFrame

LEMMA FrameAt ==
    ASSUME NEW es, NEW fs, SameFrame(es, fs)
    PROVE  /\ \A f : FieldAt(fs, f) = FieldAt(es, f)
           /\ \A k : KeyAt(fs, k) = KeyAt(es, k)
BY DEF SameFrame, FieldAt, KeyAt

\* The items of a list do not go beyond a number.
Items(es, f, top) == \A n \in 1..Len(es) : OfField(f, es[n].key) => es[n].key.item <= top

\* The entries added are in one block, in order.
InOrder(s, es, block, order) ==
    \A n \in Len(s.entries) + 1..Len(es) :
        /\ es[n].block = block /\ es[n].order \in OriginOrder(s)..order
        /\ \A m \in Len(s.entries) + 1..n - 1 : es[m].order <= es[n].order

LEMMA FrameItems ==
    ASSUME NEW es, NEW fs, SameFrame(es, fs), NEW f, NEW top, Items(es, f, top)
    PROVE  Items(fs, f, top)
BY DEF SameFrame, Items

LEMMA FrameInOrder ==
    ASSUME NEW es, NEW fs, SameFrame(es, fs), NEW s, NEW block, NEW order,
           Len(s.entries) \in Nat, InOrder(s, es, block, order)
    PROVE  InOrder(s, fs, block, order)
<1>1. PICK a \in Nat, b \in Nat : a = Len(s.entries) /\ b = Len(es)
  BY DEF SameFrame, IsSequence
<1>2. Len(fs) = b /\ \A n \in a + 1..b : n \in 1..b
  BY <1>1 DEF SameFrame
<1>3. \A n \in 1..b : fs[n].block = es[n].block /\ fs[n].order = es[n].order
  BY <1>1 DEF SameFrame
<1>4. ASSUME NEW n \in a + 1..b
      PROVE  /\ fs[n].block = block /\ fs[n].order \in OriginOrder(s)..order
             /\ \A m \in a + 1..n - 1 : fs[m].order <= fs[n].order
  <2>1. /\ es[n].block = block /\ es[n].order \in OriginOrder(s)..order
        /\ \A m \in a + 1..n - 1 : es[m].order <= es[n].order
    BY <1>1 DEF InOrder
  <2>2. \A m \in a + 1..n - 1 : m \in 1..b
    BY <1>1
  <2> QED BY <1>2, <1>3, <2>1, <2>2
<1> QED BY <1>1, <1>2, <1>4 DEF InOrder

\* The call's record, for a store and the entries that its edits lead to.
LogicalIs(s, c, es) ==
    /\ LogicalShape(c) /\ Edited(s, c.edits, es, c.counts.added, c.counts.removed)
    /\ \A f \in Fields : Tracks(c.active[f], FieldLive(es, f))
    /\ \A f \in Repeated : c.top[f] \in 0..IndexMax /\ Items(es, f, c.top[f])
    /\ c.block = OriginBlock(s) /\ c.order \in OriginOrder(s)..OrderMax
    /\ InOrder(s, es, c.block, c.order)

\* Where the additions go.
LEMMA OriginIs ==
    ASSUME NEW s, IsStore(s)
    PROVE  /\ OriginBlock(s) \in Nat /\ OriginOrder(s) \in 0..OrderMax
           /\ \A m \in LiveXmp(s) :
                 s.entries[m].block < s.blocks /\ s.entries[m].block = OriginBlock(s)
                 => s.entries[m].order <= OriginOrder(s)
<1>1. PICK n \in Nat : n = Len(s.entries)
  BY DEF IsStore, IsSequence
<1>2. PICK C : C = Carriers(s)
  OBVIOUS
<1>3. C = {id \in 0..n - 1 : /\ ~Deleted(s.entries[id + 1])
                             /\ s.entries[id + 1].key.root \notin Native
                             /\ s.entries[id + 1].block < s.blocks}
  BY <1>1, <1>2 DEF Carriers, Ids
<1>4. \A i \in 1..n : s.entries[i].block \in Nat /\ s.entries[i].order \in 0..OrderMax
  BY <1>1, EntryIs DEF IsStore
<1>5. \A m \in LiveXmp(s) : s.entries[m].block < s.blocks => m - 1 \in C
  <2>1. ASSUME NEW m \in LiveXmp(s), s.entries[m].block < s.blocks PROVE m - 1 \in C
    <3>1. m \in 1..n /\ ~Deleted(s.entries[m]) /\ s.entries[m].key.root \notin Native
      BY <1>1 DEF LiveXmp
    <3>2. m - 1 \in 0..n - 1 /\ m - 1 + 1 = m
      BY <1>1, <3>1
    <3> QED BY <1>3, <2>1, <3>1, <3>2
  <2> QED BY <2>1
<1>6. OrderMax \in Nat /\ NoBlock \in Nat
  BY EditingAssumption
<1>7. CASE C = {}
  <2>1. OriginBlock(s) = NoBlock /\ OriginOrder(s) = 0
    BY <1>2, <1>7 DEF OriginBlock, OriginOrder
  <2> QED BY <1>5, <1>6, <1>7, <2>1
<1>8. CASE C # {}
  <2>1. Min(C) \in C
    BY <1>3, <1>8, MinIs
  <2>2. PICK b : b = s.entries[Min(C) + 1].block
    OBVIOUS
  <2>3. b \in Nat
    <3>1. Min(C) + 1 \in 1..n
      BY <1>1, <1>3, <2>1
    <3> QED BY <1>4, <2>2, <3>1
  <2>4. OriginBlock(s) = b
    BY <1>2, <1>8, <2>2 DEF OriginBlock
  <2>5. PICK O : O = {s.entries[id + 1].order : id \in {c \in C : s.entries[c + 1].block = b}}
    OBVIOUS
  <2>6. OriginOrder(s) = Saturated(1 + Max(O), OrderMax)
    BY <1>2, <1>8, <2>4, <2>5 DEF OriginOrder
  <2>7. O \subseteq Nat /\ O # {} /\ \A o \in O : o <= OrderMax
    <3>1. \A c \in C : c + 1 \in 1..n
      BY <1>1, <1>3
    <3>2. O \subseteq 0..OrderMax
      BY <1>4, <2>5, <3>1
    <3>3. O # {}
      BY <2>1, <2>2, <2>5
    <3> QED BY <1>6, <3>2, <3>3
  <2>8. PICK x : x = Max(O)
    OBVIOUS
  <2>9. x \in O /\ (\A o \in O : o <= x) /\ x <= OrderMax
    BY <1>6, <2>7, <2>8, MaxIs
  <2>10. x \in Nat
    BY <2>7, <2>9
  <2>11. OriginOrder(s) = IF 1 + x > OrderMax THEN OrderMax ELSE 1 + x
    BY <2>6, <2>8 DEF Saturated
  <2>12. OriginOrder(s) \in 0..OrderMax
    BY <1>6, <2>10, <2>11
  <2>13. ASSUME NEW m \in LiveXmp(s), s.entries[m].block < s.blocks,
                s.entries[m].block = OriginBlock(s)
         PROVE  s.entries[m].order <= OriginOrder(s)
    <3>1. m - 1 \in C
      BY <1>5, <2>13
    <3>2. m \in 1..n
      BY <1>1 DEF LiveXmp
    <3>3. m - 1 + 1 = m
      BY <3>2
    <3>4. s.entries[m].order \in O
      BY <2>4, <2>5, <2>13, <3>1, <3>3
    <3>5. s.entries[m].order <= x /\ s.entries[m].order \in 0..OrderMax
      BY <1>4, <2>9, <3>2, <3>4
    <3> QED BY <1>6, <2>10, <2>11, <3>5
  <2> QED BY <2>3, <2>4, <2>12, <2>13
<1> QED BY <1>7, <1>8

\* The highest index in use.
LEMMA TopIs ==
    ASSUME NEW s, IsStore(s), NEW f \in Repeated, NEW t, t = Top(s)[f]
    PROVE  t \in 0..IndexMax /\ Items(s.entries, f, t)
<1>1. PICK n \in Nat : n = Len(s.entries)
  BY DEF IsStore, IsSequence
<1>2. IndexMax \in Nat
  BY EditingAssumption
<1>3. PICK I : I = Ids(s, LAMBDA e : OfField(f, e.key))
  OBVIOUS
<1>4. I = {id \in 0..n - 1 : OfField(f, s.entries[id + 1].key)}
  BY <1>1, <1>3 DEF Ids
<1>5. PICK S : S = {0} \cup {s.entries[id + 1].key.item : id \in I}
  OBVIOUS
<1>6. t = Max(S)
  BY <1>3, <1>5 DEF Top
<1>7. \A i \in 1..n : s.entries[i].key.item \in 0..IndexMax
  BY <1>1, EntryIs DEF IsStore, IsKey
<1>8. S \subseteq Nat /\ S # {} /\ \A y \in S : y <= IndexMax
  <2>1. \A id \in I : id + 1 \in 1..n
    BY <1>1, <1>4
  <2>2. S \subseteq 0..IndexMax
    BY <1>2, <1>5, <1>7, <2>1
  <2> QED BY <1>2, <1>5, <2>2
<1>9. t \in S /\ (\A y \in S : y <= t) /\ t <= IndexMax
  BY <1>2, <1>6, <1>8, MaxIs
<1>10. ASSUME NEW i \in 1..n, OfField(f, s.entries[i].key) PROVE s.entries[i].key.item <= t
  <2>1. i - 1 \in I /\ i - 1 + 1 = i
    BY <1>1, <1>4, <1>10
  <2>2. s.entries[i].key.item \in S
    BY <1>5, <2>1
  <2> QED BY <1>9, <2>2
<1>11. t \in 0..IndexMax
  BY <1>2, <1>8, <1>9
<1> QED BY <1>1, <1>10, <1>11 DEF Items

\* The tables start with the living entries of each field.
LEMMA ActiveIs ==
    ASSUME NEW s, IsStore(s), NEW f \in Fields
    PROVE  Tracks(Active(s)[f], FieldLive(s.entries, f))
<1>1. PICK n \in Nat : n = Len(s.entries)
  BY DEF IsStore, IsSequence
<1>2. PICK P : P = FieldLive(s.entries, f)
  OBVIOUS
<1>3. P = {i \in 1..n : OfField(f, s.entries[i].key) /\ ~Deleted(s.entries[i])}
  BY <1>1, <1>2 DEF FieldLive, LivePlaces, FieldAt
<1>4. PICK S : S = Ids(s, LAMBDA e : OfField(f, e.key) /\ ~Deleted(e))
  OBVIOUS
<1>5. S = {i \in 0..n - 1 : i + 1 \in P}
  <2>1. S = {i \in 0..n - 1 : OfField(f, s.entries[i + 1].key) /\ ~Deleted(s.entries[i + 1])}
    BY <1>1, <1>4 DEF Ids
  <2>2. \A i \in 0..n - 1 : i + 1 \in 1..n
    BY <1>1
  <2> QED BY <1>3, <2>1, <2>2
<1>6. Tracks(InIdOrder(S), P)
  <2>1. P \subseteq 1..n
    BY <1>3
  <2> QED BY <1>5, <2>1, TracksStart
<1>7. Active(s)[f] = InIdOrder(S)
  BY <1>4 DEF Active
<1> QED BY <1>2, <1>6, <1>7

\* The record is right when the call begins.
LEMMA LogicalStarts ==
    ASSUME NEW s, IsStore(s), NEW ops, NEW c, c = LogicalStart(s, ops)
    PROVE  LogicalIs(s, c, s.entries) /\ c.ops = ops /\ c.next = 1
<1>1. PICK active, top, block, order, counts :
          /\ active = Active(s) /\ top = Top(s) /\ block = OriginBlock(s)
          /\ order = OriginOrder(s) /\ counts = NoCounts
  OBVIOUS
<1>2. counts = [added |-> counts.added, updated |-> counts.updated, removed |-> counts.removed]
      /\ counts.added = 0 /\ counts.removed = 0
  BY <1>1 DEF NoCounts
<1>3. OnFields(active) /\ OnRepeated(top)
  BY <1>1 DEF OnFields, OnRepeated, Active, Top
<1>4. c = [stage |-> "logical", ops |-> ops, next |-> 1, active |-> active, top |-> top,
           block |-> block, order |-> order, edits |-> <<>>, counts |-> counts]
  BY <1>1 DEF LogicalStart
<1>5. /\ LogicalShape(c) /\ c.ops = ops /\ c.next = 1 /\ c.active = active /\ c.top = top
      /\ c.block = block /\ c.order = order /\ c.edits = <<>> /\ c.counts = counts
  BY <1>2, <1>3, <1>4, ShapeFrom
<1>6. Edited(s, c.edits, s.entries, c.counts.added, c.counts.removed)
  BY <1>2, <1>5, EditedStart
<1>7. \A f \in Fields : Tracks(c.active[f], FieldLive(s.entries, f))
  BY <1>1, <1>5, ActiveIs
<1>8. \A f \in Repeated : c.top[f] \in 0..IndexMax /\ Items(s.entries, f, c.top[f])
  BY <1>1, <1>5, TopIs
<1>9. c.block = OriginBlock(s) /\ c.order \in OriginOrder(s)..OrderMax
  <2>1. OriginOrder(s) \in 0..OrderMax /\ OrderMax \in Nat
    BY OriginIs, EditingAssumption
  <2> QED BY <1>1, <1>5, <2>1
<1>10. InOrder(s, s.entries, c.block, c.order)
  <2>1. Len(s.entries) \in Nat
    BY DEF IsStore, IsSequence
  <2>2. Len(s.entries) + 1..Len(s.entries) = {}
    BY <2>1
  <2> QED BY <2>2 DEF InOrder
<1> QED BY <1>5, <1>6, <1>7, <1>8, <1>9, <1>10 DEF LogicalIs

-----------------------------------------------------------------------------
(* An operation that adds an entry.                                         *)

\* The key of an addition is new, and one that the abstract specification allows.
LEMMA FieldKeyIs ==
    ASSUME NEW s, NEW c, NEW es, LogicalIs(s, c, es), NEW f \in Fields,
           f \in Repeated => c.top[f] # IndexMax, NEW k, k = FieldKey(c, f)
    PROVE  /\ IsKey(k) /\ k \in Lists!NewKeys(Listed(es), f)
           /\ \A g \in Fields : OfField(g, k) <=> g = f
           /\ f \in Repeated => k.item = c.top[f] + 1
<1>1. PICK l : l = Listed(es)
  OBVIOUS
<1>2. IsSequence(es)
  BY DEF LogicalIs, Edited
<1>3. Len(l) = Len(es) /\ \A n \in 1..Len(es) : l[n].key = es[n].key
  BY <1>1, <1>2, ListedIs, ViewIs
<1>4. CASE f \in Repeated
  <2>1. PICK t : t = c.top[f]
    OBVIOUS
  <2>2. t \in 0..IndexMax /\ Items(es, f, t) /\ IndexMax \in Nat
    BY <1>4, <2>1, EditingAssumption DEF LogicalIs
  <2>3. k = Key(f, t + 1, NoLeaf) /\ t + 1 \in 1..IndexMax
    BY <1>4, <2>1, <2>2 DEF FieldKey
  <2>4. k.root = f /\ k.item = t + 1 /\ k.leaf = NoLeaf
    BY <2>3 DEF Key
  <2>5. IsKey(k)
    BY <2>2, <2>3, <2>4 DEF IsKey, Key
  <2>6. \A n \in 1..Len(l) : l[n].key # k
    <3>1. ASSUME NEW n \in 1..Len(es), es[n].key = k PROVE FALSE
      <4>1. OfField(f, es[n].key)
        BY <1>4, <2>4, <3>1 DEF OfField
      <4>2. t + 1 <= t
        BY <2>2, <2>4, <3>1, <4>1 DEF Items
      <4> QED BY <2>2, <4>2
    <3> QED BY <1>3, <3>1
  <2>7. k \in Lists!NewKeys(l, f)
    <3>1. k \in {Lists!Key(f, i, Lists!NoLeaf) : i \in 1..IndexMax}
      BY <2>3, KeySame DEF NoLeaf, Lists!NoLeaf
    <3> QED BY <1>4, <2>6, <3>1 DEF Lists!NewKeys
  <2> QED BY <1>1, <2>1, <2>4, <2>5, <2>7, NewKeysAre
<1>5. CASE f \notin Repeated
  <2>1. f \in DOMAIN Singletons /\ k = Singletons[f]
    BY <1>5 DEF Fields, FieldKey
  <2>2. IsKey(k)
    BY <2>1, EditingAssumption
  <2>3. k \in Lists!NewKeys(l, f)
    BY <1>5, <2>1 DEF Lists!NewKeys
  <2> QED BY <1>1, <1>5, <2>2, <2>3, NewKeysAre
<1> QED BY <1>4, <1>5

\* One more entry among those of a field.
LEMMA FieldAppendAny ==
    ASSUME NEW es, IsSequence(es), NEW e, ~Deleted(e), NEW fs, fs = Append(es, e), NEW f
    PROVE  \A n : n \in FieldLive(fs, f) <=>
                      n \in FieldLive(es, f) \/ (n = Len(es) + 1 /\ OfField(f, e.key))
<1>1. PICK k \in Nat : k = Len(es)
  BY DEF IsSequence
<1>2. Len(fs) = k + 1 /\ fs[k + 1] = e /\ \A n \in 1..k : fs[n] = es[n]
  BY <1>1, SequenceAppend
<1>3. FieldLive(fs, f) = {n \in 1..k + 1 : OfField(f, fs[n].key) /\ ~Deleted(fs[n])}
  BY <1>2 DEF FieldLive, LivePlaces, FieldAt
<1>4. FieldLive(es, f) = {n \in 1..k : OfField(f, es[n].key) /\ ~Deleted(es[n])}
  BY <1>1 DEF FieldLive, LivePlaces, FieldAt
<1>5. \A n : n \in 1..k + 1 <=> n \in 1..k \/ n = k + 1
  OBVIOUS
<1>6. \A n : n \in FieldLive(fs, f) <=>
                 n \in FieldLive(es, f) \/ (n = k + 1 /\ OfField(f, e.key))
  BY <1>2, <1>3, <1>4, <1>5
<1> QED BY <1>1, <1>6

LEMMA FieldAppend ==
    ASSUME NEW es, IsSequence(es), NEW e, ~Deleted(e), NEW f, OfField(f, e.key)
    PROVE  FieldLive(Append(es, e), f) = FieldLive(es, f) \cup {Len(es) + 1}
<1>1. PICK fs : fs = Append(es, e)
  OBVIOUS
<1>2. \A n : n \in FieldLive(fs, f) <=>
                n \in FieldLive(es, f) \/ (n = Len(es) + 1 /\ OfField(f, e.key))
  BY <1>1, FieldAppendAny
<1>3. FieldLive(fs, f) = FieldLive(es, f) \cup {Len(es) + 1}
  BY <1>2
<1> QED BY <1>1, <1>3

LEMMA FieldAppendOther ==
    ASSUME NEW es, IsSequence(es), NEW e, ~Deleted(e), NEW f, ~OfField(f, e.key)
    PROVE  FieldLive(Append(es, e), f) = FieldLive(es, f)
<1>1. PICK fs : fs = Append(es, e)
  OBVIOUS
<1>2. \A n : n \in FieldLive(fs, f) <=>
                n \in FieldLive(es, f) \/ (n = Len(es) + 1 /\ OfField(f, e.key))
  BY <1>1, FieldAppendAny
<1>3. FieldLive(fs, f) = FieldLive(es, f)
  BY <1>2
<1> QED BY <1>1, <1>3

\* An addition keeps the record right and is one of the promised ones.
LEMMA LogicalAddKeeps ==
    ASSUME NEW s, IsStore(s), NEW c, NEW es, LogicalIs(s, c, es), NEW op, op = c.ops[c.next],
           op.kind = "Add", op.field \in Fields, LogicalError(s, c, op) = "Ok",
           NEW d, d = LogicalStep(s, c)
    PROVE  /\ d.ops = c.ops /\ d.next = c.next + 1
           /\ \E fs : LogicalIs(s, d, fs) /\ Listed(fs) \in Lists!ByField(Listed(es), op)
<1>1. /\ op.occurrence = 0 /\ (op.field \notin Repeated => c.active[op.field] = <<>>)
      /\ op.field \in Repeated => c.top[op.field] # IndexMax
  <2>1. LogicalAddError(s, c, op) = "Ok"
    BY DEF LogicalError
  <2>2. op.occurrence = 0
    BY <2>1 DEF LogicalAddError
  <2>3. ValueError(op) = "Ok"
    BY <2>1, <2>2 DEF LogicalAddError
  <2> QED BY <2>1, <2>2, <2>3 DEF LogicalAddError
<1>2. PICK k, e : k = FieldKey(c, op.field) /\ e = NewEntry(k, op.value, "none", c.block, c.order)
  OBVIOUS
<1>3. PICK fs : fs = Append(es, e)
  OBVIOUS
<1>4. /\ IsKey(k) /\ k \in Lists!NewKeys(Listed(es), op.field)
      /\ \A g \in Fields : OfField(g, k) <=> g = op.field
      /\ op.field \in Repeated => k.item = c.top[op.field] + 1
  BY <1>1, <1>2, FieldKeyIs
<1>5. /\ LogicalShape(c) /\ Edited(s, c.edits, es, c.counts.added, c.counts.removed)
      /\ c.block = OriginBlock(s) /\ c.order \in OriginOrder(s)..OrderMax
      /\ InOrder(s, es, c.block, c.order)
  BY DEF LogicalIs
<1>6. OriginBlock(s) \in Nat /\ OriginOrder(s) \in 0..OrderMax /\ OrderMax \in Nat
  BY OriginIs, EditingAssumption
<1>7. PICK a \in Nat, m \in Nat, b \in Nat :
          a = Len(s.entries) /\ m = Len(es) /\ b = c.counts.added /\ m = a + b
  BY <1>5 DEF Edited, IsStore, IsSequence
<1>8. c.block \in Nat /\ c.order \in 0..OrderMax
  BY <1>5, <1>6
<1>9. /\ e.key = k /\ e.block = c.block /\ e.order = c.order /\ ~Deleted(e) /\ IsEntry(e)
      /\ View(e) = Lists!Entry(k, op.value, "none")
  BY <1>2, <1>4, <1>8, NewIs
<1>10. /\ LogicalKept(c, d) /\ d.edits = Append(c.edits, AddEntry(e))
       /\ d.active[op.field] = Append(c.active[op.field], m)
       /\ \A f \in Fields : f # op.field => d.active[f] = c.active[f]
       /\ \A f \in Repeated : d.top[f] = IF f = op.field THEN c.top[f] + 1 ELSE c.top[f]
       /\ d.order = Saturated(c.order + 1, OrderMax)
       /\ d.counts.added = c.counts.added + 1 /\ d.counts.removed = c.counts.removed
  <2>1. LogicalShape(c)
    BY <1>5
  <2>2. /\ LogicalKept(c, d)
        /\ d.edits = Append(c.edits, AddEntry(NewEntry(FieldKey(c, op.field), op.value,
                                                       "none", c.block, c.order)))
        /\ d.active[op.field] = Append(c.active[op.field], Len(s.entries) + c.counts.added)
        /\ \A f \in Fields : f # op.field => d.active[f] = c.active[f]
        /\ \A f \in Repeated : d.top[f] = IF f = op.field THEN c.top[f] + 1 ELSE c.top[f]
        /\ d.order = Saturated(c.order + 1, OrderMax)
        /\ d.counts.added = c.counts.added + 1 /\ d.counts.removed = c.counts.removed
    <3>1. Added(s, c, op, d)
      BY <2>1, StepAdds
    <3> QED BY <3>1 DEF Added
  <2>3. d.edits = Append(c.edits, AddEntry(e))
    BY <1>2, <2>2
  <2>4. d.active[op.field] = Append(c.active[op.field], m)
    BY <1>7, <2>2
  <2> QED BY <2>2, <2>3, <2>4
<1>11. IsSequence(es) /\ IsSequence(s.entries)
  <2>1. IsSequence(es)
    BY <1>5 DEF Edited
  <2>2. IsSequence(s.entries)
    BY DEF IsStore
  <2> QED BY <2>1, <2>2
<1>12. Edited(s, d.edits, fs, d.counts.added, d.counts.removed)
  <2>1. Edited(s, c.edits, es, c.counts.added, c.counts.removed)
    BY <1>5
  <2>2. IsEntry(e) /\ ~Deleted(e)
    BY <1>9
  <2>3. Edited(s, Append(c.edits, AddEntry(e)), Append(es, e), c.counts.added + 1,
               c.counts.removed)
    BY <1>11, <2>1, <2>2, EditedAdd
  <2> QED BY <1>3, <1>10, <2>3
<1>13. Len(fs) = m + 1 /\ fs[m + 1] = e /\ \A n \in 1..m : fs[n] = es[n]
  <2>1. Len(fs) = Len(es) + 1 /\ fs[Len(es) + 1] = e /\ \A n \in 1..Len(es) : fs[n] = es[n]
    BY <1>3, <1>11, SequenceAppend
  <2> QED BY <1>7, <2>1
<1>14. ASSUME NEW f \in Fields PROVE Tracks(d.active[f], FieldLive(fs, f))
  <2>1. Tracks(c.active[f], FieldLive(es, f))
    BY DEF LogicalIs
  <2>2. CASE f = op.field
    <3>1. FieldLive(fs, f) = FieldLive(es, f) \cup {m + 1}
      <4>1. OfField(f, e.key)
        BY <1>4, <1>9, <2>2
      <4>2. ~Deleted(e)
        BY <1>9
      <4>3. FieldLive(Append(es, e), f) = FieldLive(es, f) \cup {Len(es) + 1}
        BY <1>11, <4>1, <4>2, FieldAppend
      <4> QED BY <1>3, <1>7, <4>3
    <3>2. \A p \in FieldLive(es, f) : p <= m
      BY <1>7 DEF FieldLive, LivePlaces
    <3>3. Tracks(Append(c.active[f], m), FieldLive(es, f) \cup {m + 1})
      BY <2>1, <3>2, TracksAppend
    <3> QED BY <1>10, <2>2, <3>1, <3>3
  <2>3. CASE f # op.field
    <3>1. FieldLive(fs, f) = FieldLive(es, f)
      <4>1. ~OfField(f, e.key)
        BY <1>4, <1>9, <2>3
      <4>2. ~Deleted(e)
        BY <1>9
      <4>3. FieldLive(Append(es, e), f) = FieldLive(es, f)
        BY <1>11, <4>1, <4>2, FieldAppendOther
      <4> QED BY <1>3, <4>3
    <3> QED BY <1>10, <2>1, <2>3, <3>1
  <2> QED BY <2>2, <2>3
<1>15. ASSUME NEW f \in Repeated PROVE d.top[f] \in 0..IndexMax /\ Items(fs, f, d.top[f])
  <2>1. c.top[f] \in 0..IndexMax /\ Items(es, f, c.top[f]) /\ IndexMax \in Nat /\ f \in Fields
    BY EditingAssumption DEF LogicalIs, Fields
  <2>2. d.top[f] \in 0..IndexMax /\ c.top[f] <= d.top[f]
    <3>1. d.top[f] = IF f = op.field THEN c.top[f] + 1 ELSE c.top[f]
      BY <1>10
    <3>2. f = op.field => c.top[f] # IndexMax
      BY <1>1
    <3> QED BY <2>1, <3>1, <3>2
  <2>3. ASSUME NEW n \in 1..m + 1, OfField(f, fs[n].key) PROVE fs[n].key.item <= d.top[f]
    <3>1. CASE n = m + 1
      <4>1. f = op.field
        BY <1>4, <1>9, <1>13, <2>1, <2>3, <3>1
      <4>2. d.top[f] = c.top[f] + 1
        BY <1>10, <4>1
      <4>3. fs[n].key = k /\ k.item = c.top[f] + 1
        BY <1>4, <1>9, <1>13, <3>1, <4>1
      <4> QED BY <2>1, <4>2, <4>3
    <3>2. CASE n # m + 1
      <4>1. n \in 1..m /\ fs[n] = es[n]
        BY <1>13, <3>2
      <4>2. es[n].key.item <= c.top[f]
        BY <1>7, <2>1, <2>3, <4>1 DEF Items
      <4>3. es[n].key.item \in Nat
        <5>1. IsEntry(es[n]) /\ IndexMax \in Nat
          BY <1>5, <1>7, <4>1, EditingAssumption DEF Edited
        <5> QED BY <5>1, EntryIs DEF IsKey
      <4> QED BY <2>1, <2>2, <4>1, <4>2, <4>3
    <3> QED BY <3>1, <3>2
  <2> QED BY <1>13, <2>2, <2>3 DEF Items
<1>16. d.order \in OriginOrder(s)..OrderMax /\ c.order <= d.order
  <2>1. PICK x, y : x = c.order /\ y = OriginOrder(s)
    OBVIOUS
  <2>2. x \in y..OrderMax /\ y \in Nat /\ OrderMax \in Nat
    BY <1>5, <1>6, <2>1
  <2>3. d.order = IF x + 1 > OrderMax THEN OrderMax ELSE x + 1
    BY <1>10, <2>1 DEF Saturated
  <2> QED BY <2>1, <2>2, <2>3
<1>17. InOrder(s, fs, d.block, d.order)
  <2>1. d.block = c.block
    BY <1>10 DEF LogicalKept
  <2>2. ASSUME NEW n \in a + 1..m
        PROVE  /\ es[n].block = c.block /\ es[n].order \in OriginOrder(s)..c.order
               /\ \A i \in a + 1..n - 1 : es[i].order <= es[n].order
    BY <1>5, <1>7 DEF InOrder
  <2>3. ASSUME NEW n \in a + 1..m + 1
        PROVE  /\ fs[n].block = c.block /\ fs[n].order \in OriginOrder(s)..d.order
               /\ \A i \in a + 1..n - 1 : fs[i].order <= fs[n].order
    <3>1. CASE n = m + 1
      <4>1. fs[n].block = c.block /\ fs[n].order = c.order
        BY <1>9, <1>13, <3>1
      <4>2. ASSUME NEW i \in a + 1..m PROVE fs[i].order <= c.order
        <5>1. i \in 1..m /\ fs[i] = es[i]
          BY <1>7, <1>13
        <5> QED BY <1>6, <1>8, <2>2, <5>1
      <4>3. n - 1 = m
        BY <3>1
      <4> QED BY <1>5, <1>6, <1>8, <1>16, <4>1, <4>2, <4>3
    <3>2. CASE n # m + 1
      <4>1. n \in a + 1..m /\ n \in 1..m /\ fs[n] = es[n]
        BY <1>7, <1>13, <3>2
      <4>2. \A i \in a + 1..n - 1 : fs[i] = es[i]
        BY <1>7, <1>13, <4>1
      <4>3. es[n].order \in OriginOrder(s)..d.order
        BY <1>6, <1>8, <1>16, <2>2, <4>1
      <4> QED BY <2>2, <4>1, <4>2, <4>3
    <3> QED BY <3>1, <3>2
  <2> QED BY <1>7, <1>13, <2>1, <2>3 DEF InOrder
<1>18. LogicalIs(s, d, fs)
  <2>1. LogicalShape(d) /\ d.block = c.block
    BY <1>10 DEF LogicalKept
  <2> QED BY <1>5, <1>12, <1>14, <1>15, <1>16, <1>17, <2>1 DEF LogicalIs
<1>19. Listed(fs) \in Lists!ByField(Listed(es), op)
  <2>1. FieldLive(Listed(es), op.field) = {} \/ op.field \in Repeated
    <3>1. Tracks(c.active[op.field], FieldLive(es, op.field))
      BY DEF LogicalIs
    <3>2. (c.active[op.field] = <<>>) <=> (FieldLive(es, op.field) = {})
      BY <3>1, TracksNone
    <3> QED BY <1>1, <1>11, <3>2, FieldListed
  <2>2. FieldAdds(Listed(es), op)
    BY <1>1, <2>1 DEF FieldAdds
  <2>3. Listed(fs) = Append(Listed(es), Lists!Entry(k, op.value, "none"))
    BY <1>3, <1>9, <1>11, ListedAppend
  <2> QED BY <1>4, <2>2, <2>3, ByFieldAdding
<1> QED BY <1>10, <1>18, <1>19 DEF LogicalKept

-----------------------------------------------------------------------------
(* Operations that set and remove.                                          *)

\* The target that an occurrence names.
LEMMA Target ==
    ASSUME NEW q, NEW P, Tracks(q, P), NEW i \in Nat, i < Len(q), NEW m, P \subseteq 1..m,
           m \in Nat
    PROVE  /\ q[i + 1] \in Nat /\ q[i + 1] < m /\ q[i + 1] + 1 \in P
           /\ Nth(P, i + 1) = q[i + 1] + 1 /\ i + 1 \in 1..Len(q)
<1>1. Len(q) \in Nat
  BY TracksIs
<1>2. i + 1 \in 1..Len(q)
  BY <1>1
<1>3. Nth(P, i + 1) = q[i + 1] + 1 /\ q[i + 1] + 1 \in P /\ q[i + 1] \in Nat
  BY <1>2, TracksIs
<1> QED BY <1>2, <1>3

\* The entries of a field are in the list and alive.
LEMMA LivePlacesIn ==
    ASSUME NEW es, NEW f
    PROVE  FieldLive(es, f) \subseteq 1..Len(es) /\ \A n \in FieldLive(es, f) : ~Deleted(es[n])
BY DEF FieldLive, LivePlaces

\* So does a write.
LEMMA LogicalSetKeeps ==
    ASSUME NEW s, IsStore(s), NEW c, NEW es, LogicalIs(s, c, es), NEW op, op = c.ops[c.next],
           op.kind = "Set", op.field \in Fields, op.occurrence \in Nat,
           LogicalError(s, c, op) = "Ok", NEW d, d = LogicalStep(s, c)
    PROVE  /\ d.ops = c.ops /\ d.next = c.next + 1
           /\ \E fs : LogicalIs(s, d, fs) /\ Listed(fs) \in Lists!ByField(Listed(es), op)
<1>1. PICK q, P, l : q = c.active[op.field] /\ P = FieldLive(es, op.field) /\ l = Listed(es)
  OBVIOUS
<1>2. /\ LogicalShape(c) /\ Edited(s, c.edits, es, c.counts.added, c.counts.removed)
      /\ c.block = OriginBlock(s) /\ c.order \in OriginOrder(s)..OrderMax
      /\ InOrder(s, es, c.block, c.order) /\ Tracks(q, P)
  BY <1>1 DEF LogicalIs
<1>3. IsSequence(es) /\ Len(es) \in Nat /\ \A n \in 1..Len(es) : IsEntry(es[n])
  BY <1>2 DEF Edited, IsSequence
<1>4. /\ op.occurrence # All /\ (op.field \in Repeated \/ (op.occurrence = 0 /\ Len(q) = 1))
      /\ op.occurrence < Len(q)
  <2>1. LogicalSetError(c, op) = "Ok"
    BY DEF LogicalError
  <2>2. op.occurrence # All /\ (op.field \in Repeated \/ op.occurrence = 0)
    BY <2>1 DEF LogicalSetError
  <2>3. LogicalTargetError(c, op) = "Ok"
    BY <2>1, <2>2 DEF LogicalSetError
  <2>4. Len(q) \in Nat
    BY <1>2, TracksIs
  <2>5. /\ ~(op.field \notin Repeated /\ Len(q) > 1)
        /\ ~(op.occurrence >= Len(q))
    BY <1>1, <2>3 DEF LogicalTargetError
  <2>6. PICK n \in Nat : n = Len(q)
    BY <2>4
  <2>7. op.occurrence < n
    BY <2>5, <2>6
  <2>8. ASSUME op.field \notin Repeated PROVE op.occurrence = 0 /\ n = 1
    <3>1. op.occurrence = 0 /\ ~(n > 1)
      BY <2>2, <2>5, <2>6, <2>8
    <3> QED BY <2>7, <3>1
  <2> QED BY <2>2, <2>6, <2>7, <2>8
<1>5. PICK id, k : id = q[op.occurrence + 1] /\ k = id + 1
  OBVIOUS
<1>6. P \subseteq 1..Len(es) /\ \A n \in P : ~Deleted(es[n])
  BY <1>1, LivePlacesIn
<1>7. /\ id \in Nat /\ id < Len(es) /\ k \in P /\ Nth(P, op.occurrence + 1) = k
      /\ k \in 1..Len(es) /\ IsEntry(es[k])
  <2>1. /\ id \in Nat /\ id < Len(es) /\ k \in P /\ Nth(P, op.occurrence + 1) = k
    BY <1>2, <1>3, <1>4, <1>5, <1>6, Target
  <2> QED BY <1>3, <1>6, <2>1
<1>8. PICK e, fs : e = Lists!Written(es[k], op.value) /\ fs = Put(es, k, e)
  OBVIOUS
<1>9. /\ IsEntry(e) /\ e.key = es[k].key /\ e.block = es[k].block /\ e.order = es[k].order
      /\ e.flags = es[k].flags \cup {"Dirty"} /\ View(e) = Lists!Written(View(es[k]), op.value)
  BY <1>7, <1>8, WrittenIs
<1>10. Deleted(e) <=> Deleted(es[k])
  BY <1>9 DEF Deleted
<1>11. /\ LogicalKept(c, d) /\ d.edits = Append(c.edits, SetValue(id, op.value))
       /\ d.active = c.active /\ d.top = c.top /\ d.order = c.order
       /\ d.counts.added = c.counts.added /\ d.counts.removed = c.counts.removed
  <2>1. Wrote(c, op, d)
    BY <1>2, StepSets
  <2> QED BY <1>1, <1>5, <2>1 DEF Wrote
<1>12. Edited(s, d.edits, fs, d.counts.added, d.counts.removed)
  <2>1. PICK o : o = SetValue(id, op.value)
    OBVIOUS
  <2>2. Do(es, o) = Put(es, k, e)
    <3>1. Do(es, SetValue(id, op.value)) =
             Put(es, id + 1, Lists!Written(es[id + 1], op.value))
      BY <1>7, DoSetValue
    <3> QED BY <1>5, <1>8, <2>1, <3>1
  <2>3. IsSequence(s.entries)
    BY DEF IsStore
  <2>4. Edited(s, Append(c.edits, o), Put(es, k, e), c.counts.added, c.counts.removed)
    <3>1. Edited(s, c.edits, es, c.counts.added, c.counts.removed)
      BY <1>2
    <3> QED BY <1>7, <1>9, <1>10, <2>2, <2>3, <3>1, EditedPut
  <2> QED BY <1>8, <1>11, <2>1, <2>4
<1>13. SameFrame(es, fs)
  BY <1>3, <1>7, <1>8, <1>9, FramePut
<1>14. ASSUME NEW f \in Fields PROVE Tracks(d.active[f], FieldLive(fs, f))
  <2>1. Tracks(c.active[f], FieldLive(es, f))
    BY DEF LogicalIs
  <2>2. FieldAt(fs, f) = FieldAt(es, f)
    BY <1>13, FrameAt
  <2>3. PICK C : C = FieldAt(es, f)
    OBVIOUS
  <2>4. LivePlaces(fs, C) = LivePlaces(es, C)
    BY <1>3, <1>7, <1>8, <1>10, LivePut
  <2> QED BY <1>11, <2>1, <2>2, <2>3, <2>4 DEF FieldLive
<1>15. ASSUME NEW f \in Repeated PROVE d.top[f] \in 0..IndexMax /\ Items(fs, f, d.top[f])
  <2>1. c.top[f] \in 0..IndexMax /\ Items(es, f, c.top[f])
    BY DEF LogicalIs
  <2> QED BY <1>11, <1>13, <2>1, FrameItems
<1>16. InOrder(s, fs, c.block, c.order)
  <2>1. Len(s.entries) \in Nat
    BY DEF IsStore, IsSequence
  <2> QED BY <1>2, <1>13, <2>1, FrameInOrder
<1>17. LogicalIs(s, d, fs)
  <2>1. LogicalShape(d) /\ d.block = c.block
    BY <1>11 DEF LogicalKept
  <2> QED BY <1>2, <1>11, <1>12, <1>14, <1>15, <1>16, <2>1 DEF LogicalIs
<1>18. Listed(fs) \in Lists!ByField(l, op)
  <2>1. FieldLive(l, op.field) = P
    BY <1>1, <1>3, FieldListed
  <2>2. Cardinality(P) = Len(q)
    BY <1>2, TracksIs
  <2>3. FieldSets(l, op)
    BY <1>4, <2>1, <2>2 DEF FieldSets, Single
  <2>4. k = Nth(FieldLive(l, op.field), op.occurrence + 1)
    BY <1>7, <2>1
  <2>5. Lists!ByField(l, op) = {Put(l, k, Lists!Written(l[k], op.value))}
    BY <2>3, <2>4, ByFieldSets
  <2>6. l[k] = View(es[k])
    BY <1>1, <1>3, <1>7, ListedIs
  <2>7. Listed(Put(es, k, e)) = Put(Listed(es), k, View(e))
    BY <1>3, <1>7, ListedPut
  <2>8. Listed(fs) = Put(l, k, Lists!Written(l[k], op.value))
    BY <1>1, <1>8, <1>9, <2>6, <2>7
  <2> QED BY <2>5, <2>8
<1> QED BY <1>1, <1>11, <1>17, <1>18 DEF LogicalKept

\* What removing some of the entries of one field does to a call's record.
LEMMA LogicalDropKeeps ==
    ASSUME NEW s, IsStore(s), NEW c, NEW es, LogicalIs(s, c, es), NEW g \in Fields,
           NEW P, P \subseteq FieldLive(es, g), IsFiniteSet(P), NEW q,
           Tracks(q, FieldLive(es, g) \ P), NEW d, LogicalKept(c, d),
           Applied(s.entries, d.edits) = Lists!Mark(es, P), IsSequence(d.edits),
           d.active[g] = q, \A f \in Fields : f # g => d.active[f] = c.active[f],
           d.top = c.top, d.order = c.order, d.counts.added = c.counts.added,
           d.counts.removed = c.counts.removed + Cardinality(P)
    PROVE  LogicalIs(s, d, Lists!Mark(es, P))
<1>1. PICK fs : fs = Lists!Mark(es, P)
  OBVIOUS
<1>2. /\ Edited(s, c.edits, es, c.counts.added, c.counts.removed)
      /\ c.block = OriginBlock(s) /\ c.order \in OriginOrder(s)..OrderMax
      /\ InOrder(s, es, c.block, c.order)
  BY DEF LogicalIs
<1>3. IsSequence(es) /\ Len(es) \in Nat /\ \A n \in 1..Len(es) : IsEntry(es[n])
  BY <1>2 DEF Edited, IsSequence
<1>4. P \subseteq 1..Len(es) /\ \A n \in P : ~Deleted(es[n])
  BY LivePlacesIn
<1>5. IsSequence(s.entries) /\ Len(s.entries) \in Nat
  BY DEF IsStore, IsSequence
<1>6. Edited(s, d.edits, Lists!Mark(es, P), c.counts.added, c.counts.removed + Cardinality(P))
  BY <1>2, <1>4, <1>5, EditedMark
<1>7. SameFrame(es, fs)
  BY <1>1, <1>3, FrameMark
<1>8. ASSUME NEW f \in Fields PROVE FieldLive(fs, f) = FieldLive(es, f) \ P
  <2>1. FieldAt(fs, f) = FieldAt(es, f)
    BY <1>7, FrameAt
  <2>2. PICK C : C = FieldAt(es, f)
    OBVIOUS
  <2>3. \A n \in 1..Len(es) : Deleted(Lists!Marked(es[n]))
    BY <1>3, EntryDies
  <2>4. LivePlaces(fs, C) = LivePlaces(es, C) \ P
    BY <1>1, <1>3, <2>3, LiveMark
  <2> QED BY <2>1, <2>2, <2>4 DEF FieldLive
<1>9. ASSUME NEW f \in Fields PROVE Tracks(d.active[f], FieldLive(fs, f))
  <2>1. CASE f = g
    BY <1>8, <2>1
  <2>2. CASE f # g
    <3>1. FieldLive(es, f) \cap P = {}
      <4>1. ASSUME NEW n \in FieldLive(es, f), n \in FieldLive(es, g) PROVE FALSE
        <5>1. OfField(f, es[n].key) /\ OfField(g, es[n].key)
          BY <4>1 DEF FieldLive, LivePlaces, FieldAt
        <5> QED BY <2>2, <5>1, FieldsDisjoint
      <4> QED BY <4>1
    <3>2. FieldLive(fs, f) = FieldLive(es, f)
      BY <1>8, <3>1
    <3>3. Tracks(c.active[f], FieldLive(es, f))
      BY DEF LogicalIs
    <3> QED BY <2>2, <3>2, <3>3
  <2> QED BY <2>1, <2>2
<1>10. ASSUME NEW f \in Repeated PROVE d.top[f] \in 0..IndexMax /\ Items(fs, f, d.top[f])
  <2>1. c.top[f] \in 0..IndexMax /\ Items(es, f, c.top[f])
    BY DEF LogicalIs
  <2> QED BY <1>7, <2>1, FrameItems
<1>11. InOrder(s, fs, c.block, c.order)
  BY <1>2, <1>5, <1>7, FrameInOrder
<1>12. LogicalIs(s, d, fs)
  <2>1. LogicalShape(d) /\ d.block = c.block
    BY DEF LogicalKept
  <2> QED BY <1>1, <1>2, <1>6, <1>9, <1>10, <1>11, <2>1 DEF LogicalIs
<1> QED BY <1>1, <1>12

\* The ids in a list of them are of different entries.
LEMMA TracksNames ==
    ASSUME NEW q, NEW P, Tracks(q, P), NEW l, IsSequence(l), \A p \in P : p \in 1..Len(l)
    PROVE  Names(q, l, P)
<1>1. /\ IsSequence(q) /\ Len(q) \in Nat /\ P = {q[i] + 1 : i \in 1..Len(q)}
      /\ \A i \in 1..Len(q) : q[i] \in Nat
      /\ \A i, j \in 1..Len(q) : i < j => q[i] < q[j]
  BY DEF Tracks, IsSequence
<1>2. ASSUME NEW i \in 1..Len(q) PROVE q[i] \in Nat /\ q[i] < Len(l)
  <2>1. q[i] \in Nat /\ q[i] + 1 \in 1..Len(l)
    BY <1>1
  <2>2. Len(l) \in Nat
    BY DEF IsSequence
  <2> QED BY <2>1, <2>2
<1>3. ASSUME NEW i \in 1..Len(q), NEW j \in 1..Len(q), i # j PROVE q[i] # q[j]
  <2>1. i < j \/ j < i
    BY <1>1, <1>3
  <2> QED BY <1>1, <1>2, <2>1
<1> QED BY <1>1, <1>2, <1>3 DEF Names

\* So does a removal.
LEMMA LogicalRemoveKeeps ==
    ASSUME NEW s, IsStore(s), NEW c, NEW es, LogicalIs(s, c, es), NEW op, op = c.ops[c.next],
           op.kind = "Remove", op.field \in Fields, op.occurrence \in Nat,
           LogicalError(s, c, op) = "Ok", NEW d, d = LogicalStep(s, c)
    PROVE  /\ d.ops = c.ops /\ d.next = c.next + 1
           /\ \E fs : LogicalIs(s, d, fs) /\ Listed(fs) \in Lists!ByField(Listed(es), op)
<1>1. PICK q, R, l : q = c.active[op.field] /\ R = FieldLive(es, op.field) /\ l = Listed(es)
  OBVIOUS
<1>2. LogicalShape(c) /\ Edited(s, c.edits, es, c.counts.added, c.counts.removed) /\ Tracks(q, R)
  BY <1>1 DEF LogicalIs
<1>3. /\ IsSequence(es) /\ Len(es) \in Nat /\ \A n \in 1..Len(es) : IsEntry(es[n])
      /\ IsSequence(c.edits) /\ Applied(s.entries, c.edits) = es
  BY <1>2 DEF Edited, IsSequence
<1>4. PICK m \in Nat : m = Len(q)
  BY <1>2, TracksIs
<1>5. LogicalRemoveError(c, op) = "Ok"
  BY DEF LogicalError
<1>6. R \subseteq 1..Len(es) /\ \A n \in R : ~Deleted(es[n])
  BY <1>1, LivePlacesIn
<1>7. PICK gone : gone = Gone(c, op)
  OBVIOUS
<1>8. Removed(c, op, d, gone)
  BY <1>2, <1>7, StepRemoves
<1>9. /\ LogicalKept(c, d) /\ d.edits = c.edits \o Tombstones(gone)
      /\ \A f \in Fields : f # op.field => d.active[f] = c.active[f]
      /\ d.top = c.top /\ d.order = c.order /\ d.counts.added = c.counts.added
      /\ d.counts.removed = c.counts.removed + Len(gone)
  BY <1>8 DEF Removed
<1>10. FieldLive(l, op.field) = R /\ Cardinality(R) = m /\ IsFiniteSet(R)
  <2>1. FieldLive(l, op.field) = R
    BY <1>1, <1>3, FieldListed
  <2>2. Cardinality(R) = Len(q) /\ IsFiniteSet(R)
    BY <1>2, TracksIs
  <2> QED BY <1>4, <2>1, <2>2
<1>11. CASE op.occurrence = All
  <2>1. q # <<>>
    BY <1>1, <1>5, <1>11 DEF LogicalRemoveError
  <2>2. gone = q /\ d.active[op.field] = <<>>
    BY <1>1, <1>7, <1>8, <1>11 DEF Gone, Removed
  <2>6. /\ IsSequence(c.edits \o Tombstones(q))
        /\ Applied(s.entries, c.edits \o Tombstones(q)) = Lists!Mark(es, R)
    <3>1. Tracks(q, R) /\ IsSequence(c.edits) /\ IsSequence(es)
      BY <1>2, <1>3
    <3>2. es = Applied(s.entries, c.edits)
      BY <1>3
    <3>3. \A p \in R : p \in 1..Len(es)
      BY <1>6
    <3>4. Names(q, es, R)
      BY <3>1, <3>3, TracksNames
    <3> QED BY <3>1, <3>2, <3>4, AppliedTombstones
  <2>7. Tracks(<<>>, FieldLive(es, op.field) \ R)
    <3>1. FieldLive(es, op.field) \ R = {}
      BY <1>1
    <3> QED BY <3>1, TracksEmpty
  <2>8. LogicalIs(s, d, Lists!Mark(es, R))
    <3>1. /\ R \subseteq FieldLive(es, op.field) /\ IsFiniteSet(R)
          /\ Applied(s.entries, d.edits) = Lists!Mark(es, R) /\ IsSequence(d.edits)
          /\ d.active[op.field] = <<>>
          /\ d.counts.removed = c.counts.removed + Cardinality(R)
      BY <1>1, <1>4, <1>9, <1>10, <2>2, <2>6
    <3>2. /\ LogicalKept(c, d) /\ d.top = c.top /\ d.order = c.order
          /\ d.counts.added = c.counts.added
      BY <1>9
    <3>3. \A f \in Fields : f # op.field => d.active[f] = c.active[f]
      BY <1>9
    <3> QED BY <2>7, <3>1, <3>2, <3>3, LogicalDropKeeps
  <2>9. Listed(Lists!Mark(es, R)) \in Lists!ByField(l, op)
    <3>1. FieldClears(l, op)
      <4>1. R # {}
        BY <1>2, <2>1, TracksNone
      <4> QED BY <1>10, <1>11, <4>1 DEF FieldClears
    <3>2. Lists!ByField(l, op) = {Lists!Mark(l, R)}
      BY <1>10, <3>1, ByFieldClears
    <3> QED BY <1>1, <1>3, <3>2, ListedMark
  <2> QED BY <1>1, <1>9, <2>8, <2>9 DEF LogicalKept
<1>12. CASE op.occurrence # All
  <2>1. /\ op.field \in Repeated \/ (op.occurrence = 0 /\ m = 1)
        /\ op.occurrence < m
    <3>1. /\ op.field \in Repeated \/ op.occurrence = 0
          /\ LogicalTargetError(c, op) = "Ok"
      BY <1>5, <1>12 DEF LogicalRemoveError
    <3>2. ~(op.field \notin Repeated /\ m > 1) /\ ~(op.occurrence >= m)
      BY <1>1, <1>4, <3>1 DEF LogicalTargetError
    <3>3. op.occurrence < m
      BY <3>2
    <3>4. ASSUME op.field \notin Repeated PROVE op.occurrence = 0 /\ m = 1
      <4>1. op.occurrence = 0 /\ ~(m > 1)
        BY <3>1, <3>2, <3>4
      <4> QED BY <3>3, <4>1
    <3> QED BY <3>3, <3>4
  <2>2. PICK id, k : id = q[op.occurrence + 1] /\ k = id + 1
    OBVIOUS
  <2>3. /\ id \in Nat /\ id < Len(es) /\ k \in R /\ Nth(R, op.occurrence + 1) = k
        /\ op.occurrence + 1 \in 1..Len(q)
    BY <1>2, <1>3, <1>4, <1>6, <2>1, <2>2, Target
  <2>4. gone = <<id>>
    BY <1>1, <1>7, <1>12, <2>2 DEF Gone
  <2>5. d.active[op.field] = RemoveAt(q, op.occurrence + 1)
    BY <1>1, <1>8, <1>12 DEF Removed
  <2>6. /\ IsSequence(c.edits \o Tombstones(<<id>>))
        /\ Applied(s.entries, c.edits \o Tombstones(<<id>>)) = Lists!Mark(es, {id + 1})
    BY <1>3, <2>3, AppliedTombstone
  <2>7. PICK P : P = {k}
    OBVIOUS
  <2>8. Tracks(RemoveAt(q, op.occurrence + 1), R \ P)
    <3>1. PICK i \in 1..Len(q) : i = op.occurrence + 1
      BY <2>3
    <3>2. Tracks(RemoveAt(q, i), R \ {q[i] + 1})
      BY <1>2, TracksRemoveAt
    <3> QED BY <2>2, <2>7, <3>1, <3>2
  <2>9. IsFiniteSet(P) /\ Cardinality(P) = 1 /\ Len(gone) = 1
    BY <2>4, <2>7, FS_Singleton
  <2>10. LogicalIs(s, d, Lists!Mark(es, P))
    <3>1. /\ P \subseteq FieldLive(es, op.field) /\ IsFiniteSet(P)
          /\ Applied(s.entries, d.edits) = Lists!Mark(es, P) /\ IsSequence(d.edits)
          /\ d.counts.removed = c.counts.removed + Cardinality(P)
      BY <1>1, <1>9, <2>2, <2>3, <2>4, <2>6, <2>7, <2>9
    <3>2. /\ LogicalKept(c, d) /\ d.top = c.top /\ d.order = c.order
          /\ d.counts.added = c.counts.added
      BY <1>9
    <3>3. \A f \in Fields : f # op.field => d.active[f] = c.active[f]
      BY <1>9
    <3>4. PICK x : x = RemoveAt(q, op.occurrence + 1)
      OBVIOUS
    <3>5. d.active[op.field] = x /\ Tracks(x, FieldLive(es, op.field) \ P)
      BY <1>1, <2>5, <2>8, <3>4
    <3> QED BY <3>1, <3>2, <3>3, <3>5, LogicalDropKeeps
  <2>11. Listed(Lists!Mark(es, P)) \in Lists!ByField(l, op)
    <3>1. FieldDrops(l, op)
      BY <1>10, <1>12, <2>1 DEF FieldDrops, Single
    <3>2. k = Nth(FieldLive(l, op.field), op.occurrence + 1)
      BY <1>10, <2>3
    <3>3. Lists!ByField(l, op) = {Lists!Mark(l, {k})}
      BY <3>1, <3>2, ByFieldDrops
    <3>4. Listed(Lists!Mark(es, P)) = Lists!Mark(Listed(es), P)
      BY <1>3, ListedMark
    <3> QED BY <1>1, <2>7, <3>3, <3>4
  <2> QED BY <1>1, <1>9, <2>10, <2>11 DEF LogicalKept
<1> QED BY <1>11, <1>12

\* Every operation by field that is not refused does what was promised.
LEMMA LogicalDoes ==
    ASSUME NEW s, IsStore(s), NEW c, NEW es, LogicalIs(s, c, es), NEW op, op = c.ops[c.next],
           IsOperation("logical", op), LogicalError(s, c, op) = "Ok",
           NEW d, d = LogicalStep(s, c)
    PROVE  /\ d.ops = c.ops /\ d.next = c.next + 1
           /\ \E fs : LogicalIs(s, d, fs) /\ Listed(fs) \in Lists!ByField(Listed(es), op)
<1>1. /\ op.kind \in {"Add", "Set", "Remove"} /\ op.field \in Fields /\ op.occurrence \in Nat
  BY DEF IsOperation
<1>2. CASE op.kind = "Add"
  BY <1>1, <1>2, LogicalAddKeeps
<1>3. CASE op.kind = "Set"
  BY <1>1, <1>3, LogicalSetKeeps
<1>4. CASE op.kind = "Remove"
  BY <1>1, <1>4, LogicalRemoveKeeps
<1> QED BY <1>1, <1>2, <1>3, <1>4

\* An operation refused for its target has none, or is an Add refused for an
\* occurrence that it should not have looked at.
LEMMA LogicalMisses ==
    ASSUME NEW s, IsStore(s), NEW c, NEW es, LogicalIs(s, c, es), NEW op,
           IsOperation("logical", op), LogicalError(s, c, op) \in Lists!NoTarget,
           op.kind = "Add" => op.occurrence = 0
    PROVE  ~FieldApplies(Listed(es), op)
<1>1. /\ op.kind \in {"Add", "Set", "Remove"} /\ op.field \in Fields /\ op.occurrence \in Nat
  BY DEF IsOperation
<1>2. PICK q, R, l : q = c.active[op.field] /\ R = FieldLive(es, op.field) /\ l = Listed(es)
  OBVIOUS
<1>3. Tracks(q, R) /\ IsSequence(es)
  BY <1>1, <1>2 DEF LogicalIs, Edited
<1>4. PICK m \in Nat : m = Len(q)
  BY <1>3, TracksIs
<1>5. FieldLive(l, op.field) = R /\ Cardinality(R) = m /\ ((q = <<>>) <=> (R = {}))
  <2>1. FieldLive(l, op.field) = R
    BY <1>2, <1>3, FieldListed
  <2>2. Cardinality(R) = Len(q)
    BY <1>3, TracksIs
  <2> QED BY <1>3, <1>4, <2>1, <2>2, TracksNone
<1>6. ValueError(op) \in {"Ok", "InvalidValue"}
  BY DEF ValueError
<1>7. CASE op.kind = "Add"
  <2>1. LogicalAddError(s, c, op) \in Lists!NoTarget
    BY <1>7 DEF LogicalError
  <2>2. q # <<>> /\ op.field \notin Repeated
    <3>1. CASE op.occurrence = 0 /\ ValueError(op) # "Ok"
      <4>1. LogicalAddError(s, c, op) = "InvalidValue"
        BY <1>6, <3>1 DEF LogicalAddError
      <4> QED BY <2>1, <4>1 DEF Lists!NoTarget
    <3>2. CASE op.occurrence = 0 /\ ValueError(op) = "Ok"
      <4>1. op.field \notin Repeated /\ c.active[op.field] # <<>>
        BY <2>1, <3>2 DEF LogicalAddError, Lists!NoTarget
      <4> QED BY <1>2, <4>1
    <3> QED BY <1>7, <3>1, <3>2
  <2>3. ~FieldAdds(l, op)
    BY <1>5, <2>2 DEF FieldAdds
  <2> QED BY <1>2, <1>7, <2>3 DEF FieldApplies, FieldSets, FieldClears, FieldDrops
<1>8. LogicalTargetError(c, op) # "Ok" =>
         \/ op.field \notin Repeated /\ m > 1
         \/ op.occurrence >= m
  BY <1>2, <1>4 DEF LogicalTargetError
<1>9. ~Single(l, op) \/ ~(op.occurrence < m) \/ LogicalTargetError(c, op) = "Ok"
  <2>1. CASE op.field \notin Repeated /\ m > 1
    <3>1. ~Single(l, op)
      BY <1>4, <1>5, <2>1 DEF Single
    <3> QED BY <3>1
  <2>2. CASE op.occurrence >= m
    BY <1>1, <1>4, <2>2
  <2> QED BY <1>8, <2>1, <2>2
<1>10. CASE op.kind = "Set"
  <2>1. LogicalSetError(c, op) \in Lists!NoTarget
    BY <1>10 DEF LogicalError
  <2>2. CASE op.occurrence = All \/ (op.field \notin Repeated /\ op.occurrence # 0)
    BY <1>2, <1>10, <2>2
       DEF FieldApplies, FieldAdds, FieldSets, FieldClears, FieldDrops, Single
  <2>3. CASE ~(op.occurrence = All \/ (op.field \notin Repeated /\ op.occurrence # 0))
    <3>1. ValueError(op) = "Ok"
      BY <1>6, <2>1, <2>3 DEF LogicalSetError, Lists!NoTarget
    <3>2. LogicalTargetError(c, op) # "Ok"
      BY <2>1, <2>3, <3>1 DEF LogicalSetError, Lists!NoTarget
    <3>3. ~FieldSets(l, op)
      BY <1>5, <1>9, <3>2 DEF FieldSets
    <3> QED BY <1>2, <1>10, <3>3 DEF FieldApplies, FieldAdds, FieldClears, FieldDrops
  <2> QED BY <2>2, <2>3
<1>11. CASE op.kind = "Remove"
  <2>1. LogicalRemoveError(c, op) \in Lists!NoTarget
    BY <1>11 DEF LogicalError
  <2>2. CASE op.field \notin Repeated /\ op.occurrence \notin {0, All}
    BY <1>2, <1>11, <2>2
       DEF FieldApplies, FieldAdds, FieldSets, FieldClears, FieldDrops, Single
  <2>3. CASE R = {}
    <3>1. m = 0
      BY <1>3, <1>4, <1>5, <2>3
    <3>2. ~(op.occurrence < m)
      BY <1>1, <3>1
    <3> QED BY <1>2, <1>5, <1>11, <2>3, <3>2
            DEF FieldApplies, FieldAdds, FieldSets, FieldClears, FieldDrops
  <2>4. CASE R # {} /\ ~(op.field \notin Repeated /\ op.occurrence \notin {0, All})
    <3>1. op.occurrence # All
      BY <1>2, <1>5, <2>1, <2>4 DEF LogicalRemoveError, Lists!NoTarget
    <3>2. LogicalTargetError(c, op) # "Ok"
      BY <1>2, <1>5, <2>1, <2>4, <3>1 DEF LogicalRemoveError, Lists!NoTarget
    <3>3. ~FieldDrops(l, op)
      BY <1>5, <1>9, <3>2 DEF FieldDrops
    <3> QED BY <1>2, <1>11, <3>1, <3>3 DEF FieldApplies, FieldAdds, FieldSets, FieldClears
  <2> QED BY <2>2, <2>3, <2>4
<1> QED BY <1>1, <1>7, <1>10, <1>11

-----------------------------------------------------------------------------
(* The lists that the operations so far may have led to.                    *)

\* A list is one of them, and the others differ in the numbers of items only.
Reached(r, l0, n, l) ==
    l \in AfterFrom(l0, r)[n] /\ \A k \in AfterFrom(l0, r)[n] : Alike(k, l)

\* Before the first operation there is one list; each that follows keeps them alike.
LEMMA ReachedStart ==
    ASSUME NEW es, IsSequence(es), NEW r, Len(r.ops) \in Nat
    PROVE  Reached(r, Listed(es), 0, Listed(es))
<1>1. PICK l : l = Listed(es)
  OBVIOUS
<1>2. AfterFrom(l, r)[0] = {l}
  BY AfterFromIs
<1>3. IsSequence(l) /\ \A n \in 1..Len(l) : l[n] = View(es[n])
  BY <1>1, ListedIs
<1>4. \A n \in 1..Len(l) : IsView(l[n])
  <2>1. ASSUME NEW x, NEW v, v = View(x) PROVE IsView(v)
    <3>1. PICK a, b, c, d : a = x.key /\ b = x.value /\ c = x.wire /\ d = x.flags
      OBVIOUS
    <3>2. v = [key |-> a, value |-> b, wire |-> c, flags |-> d]
      BY <2>1, <3>1 DEF View
    <3>3. v.key = a /\ v.value = b /\ v.wire = c /\ v.flags = d
      BY <3>2
    <3> QED BY <3>2, <3>3 DEF IsView
  <2> QED BY <1>3, <2>1
<1>5. Alike(l, l)
  BY <1>3, <1>4 DEF Alike
<1> QED BY <1>1, <1>2, <1>5 DEF Reached

LEMMA ReachedStep ==
    ASSUME NEW r, r.api = "logical", Len(r.ops) \in Nat, NEW l0, NEW n \in 1..Len(r.ops),
           NEW l, Reached(r, l0, n - 1, l), IsOperation("logical", r.ops[n]),
           NEW m, m \in Lists!ByField(l, r.ops[n])
    PROVE  Reached(r, l0, n, m)
<1>1. PICK op : op = r.ops[n]
  OBVIOUS
<1>2. op.field \in Fields /\ op.occurrence \in Nat
  BY <1>1 DEF IsOperation
<1>3. \A k : Lists!Results(r, k, op) = Lists!ByField(k, op)
  BY DEF Lists!Results
<1>4. m \in AfterFrom(l0, r)[n]
  <2>1. l \in AfterFrom(l0, r)[n - 1] /\ m \in Lists!Results(r, l, r.ops[n])
    BY <1>1, <1>3 DEF Reached
  <2> QED BY <2>1, AfterStep
<1>5. ASSUME NEW x \in AfterFrom(l0, r)[n] PROVE Alike(x, m)
  <2>1. PICK k \in AfterFrom(l0, r)[n - 1] : x \in Lists!Results(r, k, r.ops[n])
    BY AfterBefore
  <2>2. Alike(k, l) /\ x \in Lists!ByField(k, op)
    BY <1>1, <1>3, <2>1 DEF Reached
  <2> QED BY <1>1, <1>2, <2>2, AlikeResults
<1> QED BY <1>4, <1>5 DEF Reached

\* An operation that does not apply to one of them applies to none.
LEMMA ReachedNone ==
    ASSUME NEW r, r.api = "logical", Len(r.ops) \in Nat, NEW l0, NEW n \in 1..Len(r.ops),
           NEW l, Reached(r, l0, n - 1, l), IsOperation("logical", r.ops[n]),
           ~FieldApplies(l, r.ops[n])
    PROVE  AfterFrom(l0, r)[n] = {}
<1>1. PICK op : op = r.ops[n]
  OBVIOUS
<1>2. op.field \in Fields /\ op.occurrence \in Nat
  BY <1>1 DEF IsOperation
<1>3. ASSUME NEW x \in AfterFrom(l0, r)[n] PROVE FALSE
  <2>1. PICK k \in AfterFrom(l0, r)[n - 1] : x \in Lists!Results(r, k, r.ops[n])
    BY AfterBefore
  <2>2. Alike(k, l) /\ x \in Lists!ByField(k, op)
    BY <1>1, <2>1 DEF Reached, Lists!Results
  <2>3. ~FieldApplies(k, op)
    <3>1. /\ FieldAdds(k, op) <=> FieldAdds(l, op)
          /\ FieldSets(k, op) <=> FieldSets(l, op)
          /\ FieldClears(k, op) <=> FieldClears(l, op)
          /\ FieldDrops(k, op) <=> FieldDrops(l, op)
      BY <1>2, <2>2, AlikeApplies
    <3> QED BY <1>1, <3>1 DEF FieldApplies
  <2> QED BY <2>2, <2>3, ByFieldElse
<1> QED BY <1>3

-----------------------------------------------------------------------------
(* Operations by exact key on a list.                                       *)

\* The place among the entries with the key that an occurrence names.
KeyNamed(l, op) ==
    IF op.occurrence = Unique THEN Cardinality(KeyLive(l, op.key)) = 1
                              ELSE op.occurrence < Cardinality(KeyLive(l, op.key))
KeyAdds(l, op, policy) ==
    /\ op.kind = "Add" /\ op.occurrence = Unique
    /\ Cardinality(KeyLive(l, op.key)) = 0 \/ policy = "Append"
KeySets(l, op) == op.kind = "Set" /\ op.occurrence # All /\ KeyNamed(l, op)
KeyClears(l, op) == op.kind = "Remove" /\ op.occurrence = All /\ KeyLive(l, op.key) # {}
KeyDrops(l, op) == op.kind = "Remove" /\ op.occurrence # All /\ KeyNamed(l, op)

\* An operation that adds appends.
LEMMA ByKeyAdds ==
    ASSUME NEW l, NEW op, NEW policy, KeyAdds(l, op, policy)
    PROVE  Lists!ByKey(l, op, policy) = {Append(l, Lists!Entry(op.key, op.value, op.wire))}
BY CardinalitySame, KeyLiveIs DEF Lists!ByKey, KeyAdds

\* An operation that sets rewrites.
LEMMA ByKeySets ==
    ASSUME NEW l, NEW op, NEW policy, KeySets(l, op), NEW at,
           at = Nth(KeyLive(l, op.key), Position(op))
    PROVE  Lists!ByKey(l, op, policy) = {Put(l, at, Lists!Rewritten(l[at], op.value, op.wire))}
BY CardinalitySame, NthSame, KeyLiveIs DEF Lists!ByKey, KeySets, KeyNamed, Put, Position

\* An operation that removes all marks them.
LEMMA ByKeyClears ==
    ASSUME NEW l, NEW op, NEW policy, KeyClears(l, op)
    PROVE  Lists!ByKey(l, op, policy) = {Lists!Mark(l, KeyLive(l, op.key))}
BY KeyLiveIs DEF Lists!ByKey, KeyClears

\* An operation that removes one marks it.
LEMMA ByKeyDrops ==
    ASSUME NEW l, NEW op, NEW policy, KeyDrops(l, op), NEW at,
           at = Nth(KeyLive(l, op.key), Position(op))
    PROVE  Lists!ByKey(l, op, policy) = {Lists!Mark(l, {at})}
BY CardinalitySame, NthSame, KeyLiveIs DEF Lists!ByKey, KeyDrops, KeyNamed, Position

KeyApplies(l, op, policy) ==
    KeyAdds(l, op, policy) \/ KeySets(l, op) \/ KeyClears(l, op) \/ KeyDrops(l, op)

\* Any other leads nowhere.
LEMMA ByKeyElse ==
    ASSUME NEW l, NEW op, NEW policy, ~KeyApplies(l, op, policy)
    PROVE  Lists!ByKey(l, op, policy) = {}
BY CardinalitySame, KeyLiveIs
   DEF Lists!ByKey, KeyApplies, KeyAdds, KeySets, KeyClears, KeyDrops, KeyNamed

\* What a host sees has the same keys alive.
LEMMA KeyListed ==
    ASSUME NEW es, IsSequence(es), NEW k
    PROVE  KeyLive(Listed(es), k) = KeyLive(es, k)
<1>1. Len(Listed(es)) = Len(es) /\ \A n \in 1..Len(es) : Listed(es)[n] = View(es[n])
  BY ListedIs
<1>2. \A n \in 1..Len(es) : /\ Listed(es)[n].key = es[n].key
                            /\ Deleted(Listed(es)[n]) <=> Deleted(es[n])
  BY <1>1, ViewIs
<1> QED BY <1>1, <1>2 DEF KeyLive, LivePlaces, KeyAt

\* Entries with a key are entries of the list.
LEMMA KeyLiveIn ==
    ASSUME NEW es, NEW k
    PROVE  /\ KeyLive(es, k) \subseteq 1..Len(es)
           /\ \A n \in KeyLive(es, k) : ~Deleted(es[n]) /\ es[n].key = k
BY DEF KeyLive, LivePlaces, KeyAt

\* One more entry among those of a key.
LEMMA KeyAppendAny ==
    ASSUME NEW es, IsSequence(es), NEW e, ~Deleted(e), NEW fs, fs = Append(es, e), NEW k
    PROVE  \A n : n \in KeyLive(fs, k) <=>
                      n \in KeyLive(es, k) \/ (n = Len(es) + 1 /\ e.key = k)
<1>1. PICK m \in Nat : m = Len(es)
  BY DEF IsSequence
<1>2. Len(fs) = m + 1 /\ fs[m + 1] = e /\ \A n \in 1..m : fs[n] = es[n]
  BY <1>1, SequenceAppend
<1>3. KeyLive(fs, k) = {n \in 1..m + 1 : fs[n].key = k /\ ~Deleted(fs[n])}
  BY <1>2 DEF KeyLive, LivePlaces, KeyAt
<1>4. KeyLive(es, k) = {n \in 1..m : es[n].key = k /\ ~Deleted(es[n])}
  BY <1>1 DEF KeyLive, LivePlaces, KeyAt
<1>5. \A n : n \in 1..m + 1 <=> n \in 1..m \/ n = m + 1
  OBVIOUS
<1>6. \A n : n \in KeyLive(fs, k) <=>
                 n \in KeyLive(es, k) \/ (n = m + 1 /\ e.key = k)
  <2>1. \A n \in 1..m : fs[n].key = k /\ ~Deleted(fs[n]) <=> es[n].key = k /\ ~Deleted(es[n])
    BY <1>2
  <2>2. fs[m + 1].key = k /\ ~Deleted(fs[m + 1]) <=> e.key = k
    BY <1>2
  <2>3. m + 1 \notin 1..m
    OBVIOUS
  <2> QED BY <1>3, <1>4, <1>5, <2>1, <2>2, <2>3
<1> QED BY <1>1, <1>6

\* An added entry is alive under its key.
LEMMA KeyAppend ==
    ASSUME NEW es, IsSequence(es), NEW e, ~Deleted(e), NEW k, e.key = k
    PROVE  KeyLive(Append(es, e), k) = KeyLive(es, k) \cup {Len(es) + 1}
BY KeyAppendAny

\* An added entry changes no other key.
LEMMA KeyAppendOther ==
    ASSUME NEW es, IsSequence(es), NEW e, ~Deleted(e), NEW k, e.key # k
    PROVE  KeyLive(Append(es, e), k) = KeyLive(es, k)
<1>1. PICK fs : fs = Append(es, e)
  OBVIOUS
<1>2. \A n : n \in KeyLive(fs, k) <=>
                 n \in KeyLive(es, k) \/ (n = Len(es) + 1 /\ e.key = k)
  BY <1>1, KeyAppendAny
<1>3. \A n : n \in KeyLive(fs, k) <=> n \in KeyLive(es, k)
  BY <1>2
<1>4. KeyLive(fs, k) = KeyLive(es, k)
  BY <1>3
<1> QED BY <1>1, <1>4

-----------------------------------------------------------------------------
(* The record that a call by exact key keeps.                               *)

\* Tables by the keys of the request.
KeysOf(ops) == {ops[i].key : i \in 1..Len(ops)}
OnKeys(a, K) == a = [k \in K |-> a[k]]

TypedShape(c) ==
    /\ c = [stage |-> "typed", ops |-> c.ops, owner |-> c.owner, max |-> c.max,
            policy |-> c.policy, next |-> c.next, active |-> c.active,
            writers |-> c.writers, edits |-> c.edits, counts |-> c.counts]
    /\ OnKeys(c.active, KeysOf(c.ops))
    /\ c.counts = [added |-> c.counts.added, updated |-> c.counts.updated,
                   removed |-> c.counts.removed]

\* What no operation changes.
TypedKept(c, d) ==
    /\ TypedShape(d) /\ d.ops = c.ops /\ d.owner = c.owner /\ d.max = c.max
    /\ d.policy = c.policy /\ d.next = c.next + 1

\* The record from its fields.
LEMMA TypedShapeFrom ==
    ASSUME NEW ops, NEW owner, NEW max, NEW policy, NEW next, NEW active, NEW writers,
           NEW edits, NEW counts, NEW d,
           d = [stage |-> "typed", ops |-> ops, owner |-> owner, max |-> max,
                policy |-> policy, next |-> next, active |-> active,
                writers |-> writers, edits |-> edits, counts |-> counts],
           OnKeys(active, KeysOf(ops)),
           counts = [added |-> counts.added, updated |-> counts.updated,
                     removed |-> counts.removed]
    PROVE  /\ TypedShape(d) /\ d.ops = ops /\ d.owner = owner /\ d.max = max
           /\ d.policy = policy /\ d.next = next /\ d.active = active
           /\ d.writers = writers /\ d.edits = edits /\ d.counts = counts
<1>1. /\ d.ops = ops /\ d.owner = owner /\ d.max = max
      /\ d.policy = policy /\ d.next = next /\ d.active = active
      /\ d.writers = writers /\ d.edits = edits /\ d.counts = counts
  OBVIOUS
<1> QED BY <1>1 DEF TypedShape

\* One operation on the record; an operation that sets leaves the table of keys alone.
TypedAdvances(c, d, e, a, w, k) ==
    \E b : /\ \/ b = [c EXCEPT !.edits = e, !.active = a, !.writers = w, !.counts = k]
              \/ a = c.active /\ b = [c EXCEPT !.edits = e, !.writers = w, !.counts = k]
           /\ d = [b EXCEPT !.next = b.next + 1]

LEMMA TypedAdvancesIs ==
    ASSUME NEW c, NEW d, NEW e, NEW a, NEW w, NEW k, TypedShape(c),
           TypedAdvances(c, d, e, a, w, k), OnKeys(a, KeysOf(c.ops)),
           NEW x, NEW y, NEW z, k = Counted(x, y, z)
    PROVE  /\ TypedKept(c, d) /\ d.active = a /\ d.writers = w
           /\ d.edits = e /\ d.counts.added = x /\ d.counts.removed = z
<1>1. PICK ops, owner, max, policy, next, active, writers, edits, counts :
          /\ ops = c.ops /\ owner = c.owner /\ max = c.max /\ policy = c.policy
          /\ next = c.next /\ active = c.active
          /\ writers = c.writers /\ edits = c.edits /\ counts = c.counts
  OBVIOUS
<1>2. c = [stage |-> "typed", ops |-> ops, owner |-> owner, max |-> max,
           policy |-> policy, next |-> next, active |-> active,
           writers |-> writers, edits |-> edits, counts |-> counts]
  BY <1>1 DEF TypedShape
<1>3. PICK b : /\ \/ b = [c EXCEPT !.edits = e, !.active = a, !.writers = w, !.counts = k]
                  \/ a = c.active /\ b = [c EXCEPT !.edits = e, !.writers = w, !.counts = k]
               /\ d = [b EXCEPT !.next = b.next + 1]
  BY DEF TypedAdvances
<1>4. PICK m : m = next + 1
  OBVIOUS
<1>5. b = [stage |-> "typed", ops |-> ops, owner |-> owner, max |-> max,
           policy |-> policy, next |-> next, active |-> a,
           writers |-> w, edits |-> e, counts |-> k]
  <2>1. CASE b = [c EXCEPT !.edits = e, !.active = a, !.writers = w, !.counts = k]
    BY <1>2, <2>1
  <2>2. CASE a = c.active /\ b = [c EXCEPT !.edits = e, !.writers = w, !.counts = k]
    <3>1. b = [c EXCEPT !.edits = e, !.writers = w, !.counts = k]
      BY <2>2
    <3>2. b = [stage |-> "typed", ops |-> ops, owner |-> owner, max |-> max,
               policy |-> policy, next |-> next, active |-> active,
               writers |-> w, edits |-> e, counts |-> k]
      BY <1>2, <3>1
    <3> QED BY <1>1, <2>2, <3>2
  <2> QED BY <1>3, <2>1, <2>2
<1>6. d = [stage |-> "typed", ops |-> ops, owner |-> owner, max |-> max,
           policy |-> policy, next |-> m, active |-> a,
           writers |-> w, edits |-> e, counts |-> k]
  BY <1>3, <1>4, <1>5
<1>7. OnKeys(a, KeysOf(ops))
  BY <1>1
<1>8. /\ k = [added |-> k.added, updated |-> k.updated, removed |-> k.removed]
      /\ k.added = x /\ k.removed = z
  BY CountedIs
<1>9. /\ TypedShape(d) /\ d.ops = ops /\ d.owner = owner /\ d.max = max
      /\ d.policy = policy /\ d.next = m /\ d.active = a
      /\ d.writers = w /\ d.edits = e /\ d.counts = k
  BY <1>6, <1>7, <1>8, TypedShapeFrom
<1> QED BY <1>1, <1>4, <1>8, <1>9 DEF TypedKept

\* What an operation that adds changes.
KeyAdded(c, op, d) ==
    /\ TypedKept(c, d)
    /\ d.edits = Append(c.edits, AddEntry(NewEntry(op.key, op.value, op.wire, NoBlock,
                                                   Len(c.writers))))
    /\ d.active[op.key] = Append(c.active[op.key], Len(c.writers))
    /\ \A k \in KeysOf(c.ops) : k # op.key => d.active[k] = c.active[k]
    /\ d.writers = Append(c.writers, c.next)
    /\ d.counts.added = c.counts.added + 1 /\ d.counts.removed = c.counts.removed

\* What TypedStep does, by kind.
LEMMA TypedStepAdds ==
    ASSUME NEW c, TypedShape(c), NEW op, op = c.ops[c.next], op.kind = "Add",
           op.key \in KeysOf(c.ops), NEW d, d = TypedStep(c)
    PROVE  KeyAdded(c, op, d)
<1>1. PICK e, w, x : /\ e = Append(c.edits, AddEntry(NewEntry(op.key, op.value, op.wire, NoBlock,
                                                           Len(c.writers))))
                     /\ w = Append(c.writers, c.next)
                     /\ x = Append(c.active[op.key], Len(c.writers))
  OBVIOUS
<1>2. PICK a : a = [c.active EXCEPT ![op.key] = x]
  OBVIOUS
<1>3. PICK k : k = Counted(c.counts.added + 1, c.counts.updated, c.counts.removed)
  OBVIOUS
<1>4. PICK b : b = TypedAdd(c, op)
  OBVIOUS
<1>5. b = [c EXCEPT !.edits = e, !.active = a, !.writers = w, !.counts = k]
  <2>1. c.counts = [added |-> c.counts.added, updated |-> c.counts.updated,
                    removed |-> c.counts.removed]
    BY DEF TypedShape
  <2>2. k = [c.counts EXCEPT !.added = c.counts.added + 1]
    BY <1>3, <2>1 DEF Counted
  <2> QED BY <1>1, <1>2, <1>4, <2>2 DEF TypedAdd
<1>6. d = [b EXCEPT !.next = b.next + 1]
  BY <1>4 DEF TypedStep, TypedDone
<1>7. /\ OnKeys(a, KeysOf(c.ops)) /\ a[op.key] = x
      /\ \A q \in KeysOf(c.ops) : q # op.key => a[q] = c.active[q]
  <2>1. OnKeys(c.active, KeysOf(c.ops))
    BY DEF TypedShape
  <2> QED BY <1>2, <2>1 DEF OnKeys
<1>8. /\ TypedKept(c, d) /\ d.active = a /\ d.writers = w
      /\ d.edits = e /\ d.counts.added = c.counts.added + 1 /\ d.counts.removed = c.counts.removed
  <2>1. TypedAdvances(c, d, e, a, w, k)
    BY <1>5, <1>6 DEF TypedAdvances
  <2>2. PICK u, y, z : k = Counted(u, y, z) /\ u = c.counts.added + 1 /\ z = c.counts.removed
    BY <1>3
  <2>3. OnKeys(a, KeysOf(c.ops))
    BY <1>7
  <2>4. /\ TypedKept(c, d) /\ d.active = a /\ d.writers = w
        /\ d.edits = e /\ d.counts.added = u /\ d.counts.removed = z
    BY <2>1, <2>2, <2>3, TypedAdvancesIs
  <2> QED BY <2>2, <2>4
<1> QED BY <1>1, <1>7, <1>8 DEF KeyAdded

\* What an operation that sets changes.
KeyWrote(c, op, d, id) ==
    /\ TypedKept(c, d)
    /\ d.edits = Append(c.edits, SetValueWithWire(id, op.value, op.wire))
    /\ d.active = c.active /\ d.writers = Put(c.writers, id + 1, c.next)
    /\ d.counts.added = c.counts.added /\ d.counts.removed = c.counts.removed

LEMMA TypedStepSets ==
    ASSUME NEW c, TypedShape(c), NEW op, op = c.ops[c.next], op.kind = "Set",
           NEW d, d = TypedStep(c), NEW id, id = c.active[op.key][Position(op)]
    PROVE  KeyWrote(c, op, d, id)
<1>1. PICK e, w, a : /\ e = Append(c.edits, SetValueWithWire(id, op.value, op.wire))
                     /\ w = Put(c.writers, id + 1, c.next)
                     /\ a = c.active
  OBVIOUS
<1>3. PICK k : k = Counted(c.counts.added, c.counts.updated + 1, c.counts.removed)
  OBVIOUS
<1>4. PICK b : b = TypedSet(c, op)
  OBVIOUS
<1>5. b = [c EXCEPT !.edits = e, !.writers = w, !.counts = k]
  <2>1. c.counts = [added |-> c.counts.added, updated |-> c.counts.updated,
                    removed |-> c.counts.removed]
    BY DEF TypedShape
  <2>2. k = [c.counts EXCEPT !.updated = c.counts.updated + 1]
    BY <1>3, <2>1 DEF Counted
  <2> QED BY <1>1, <1>4, <2>2 DEF TypedSet, Put
<1>6. d = [b EXCEPT !.next = b.next + 1]
  BY <1>4 DEF TypedStep, TypedDone
<1>7. OnKeys(a, KeysOf(c.ops))
  BY <1>1 DEF TypedShape
<1>8. /\ TypedKept(c, d) /\ d.active = a /\ d.writers = w
      /\ d.edits = e /\ d.counts.added = c.counts.added /\ d.counts.removed = c.counts.removed
  <2>1. TypedAdvances(c, d, e, a, w, k)
    BY <1>1, <1>5, <1>6 DEF TypedAdvances
  <2>2. PICK u, y, z : k = Counted(u, y, z) /\ u = c.counts.added /\ z = c.counts.removed
    BY <1>3
  <2>4. /\ TypedKept(c, d) /\ d.active = a /\ d.writers = w
        /\ d.edits = e /\ d.counts.added = u /\ d.counts.removed = z
    BY <1>7, <2>1, <2>2, TypedAdvancesIs
  <2> QED BY <2>2, <2>4
<1> QED BY <1>1, <1>8 DEF KeyWrote

\* The ids that a removal is about, and who is noted for them.
KeyGone(c, op) == IF op.occurrence = All THEN c.active[op.key]
                  ELSE <<c.active[op.key][Position(op)]>>
Noted(w, gone, i) ==
    [n \in DOMAIN w |-> IF n - 1 \in ToSet(gone) THEN i ELSE w[n]]

\* What an operation that removes changes.
KeyRemoved(c, op, d, gone) ==
    /\ TypedKept(c, d)
    /\ d.edits = c.edits \o Tombstones(gone)
    /\ d.active[op.key] = IF op.occurrence = All THEN <<>>
                          ELSE RemoveAt(c.active[op.key], Position(op))
    /\ \A k \in KeysOf(c.ops) : k # op.key => d.active[k] = c.active[k]
    /\ d.writers = Noted(c.writers, gone, c.next)
    /\ d.counts.added = c.counts.added
    /\ d.counts.removed = c.counts.removed + Len(gone)

LEMMA TypedStepRemoves ==
    ASSUME NEW c, TypedShape(c), NEW op, op = c.ops[c.next], op.kind = "Remove",
           op.key \in KeysOf(c.ops), NEW d, d = TypedStep(c), NEW gone, gone = KeyGone(c, op)
    PROVE  KeyRemoved(c, op, d, gone)
<1>1. PICK e, w, x : /\ e = c.edits \o Tombstones(gone)
                     /\ w = Noted(c.writers, gone, c.next)
                     /\ x = IF op.occurrence = All THEN <<>>
                            ELSE RemoveAt(c.active[op.key], Position(op))
  OBVIOUS
<1>2. PICK a : a = [c.active EXCEPT ![op.key] = x]
  OBVIOUS
<1>3. PICK k : k = Counted(c.counts.added, c.counts.updated, c.counts.removed + Len(gone))
  OBVIOUS
<1>4. PICK b : b = TypedRemove(c, op)
  OBVIOUS
<1>5. b = [c EXCEPT !.edits = e, !.active = a, !.writers = w, !.counts = k]
  <2>1. c.counts = [added |-> c.counts.added, updated |-> c.counts.updated,
                    removed |-> c.counts.removed]
    BY DEF TypedShape
  <2>2. k = [c.counts EXCEPT !.removed = c.counts.removed + Len(gone)]
    BY <1>3, <2>1 DEF Counted
  <2>3. b = [c EXCEPT !.edits = c.edits \o [i \in 1..Len(gone) |-> Tombstone(gone[i])],
                      !.active = [c.active EXCEPT ![op.key] = x],
                      !.writers = [n \in DOMAIN c.writers |->
                                      IF n - 1 \in ToSet(gone) THEN c.next ELSE c.writers[n]],
                      !.counts = [c.counts EXCEPT !.removed = c.counts.removed + Len(gone)]]
    BY <1>1, <1>4 DEF TypedRemove, KeyGone
  <2> QED BY <1>1, <1>2, <2>2, <2>3 DEF Tombstones, Noted
<1>6. d = [b EXCEPT !.next = b.next + 1]
  BY <1>4 DEF TypedStep, TypedDone
<1>7. /\ OnKeys(a, KeysOf(c.ops)) /\ a[op.key] = x
      /\ \A q \in KeysOf(c.ops) : q # op.key => a[q] = c.active[q]
  <2>1. OnKeys(c.active, KeysOf(c.ops))
    BY DEF TypedShape
  <2> QED BY <1>2, <2>1 DEF OnKeys
<1>8. /\ TypedKept(c, d) /\ d.active = a /\ d.writers = w
      /\ d.edits = e /\ d.counts.added = c.counts.added
      /\ d.counts.removed = c.counts.removed + Len(gone)
  <2>1. TypedAdvances(c, d, e, a, w, k)
    BY <1>5, <1>6 DEF TypedAdvances
  <2>2. PICK u, y, z : /\ k = Counted(u, y, z) /\ u = c.counts.added
                     /\ z = c.counts.removed + Len(gone)
    BY <1>3
  <2>3. OnKeys(a, KeysOf(c.ops))
    BY <1>7
  <2>4. /\ TypedKept(c, d) /\ d.active = a /\ d.writers = w
        /\ d.edits = e /\ d.counts.added = u /\ d.counts.removed = z
    BY <2>1, <2>2, <2>3, TypedAdvancesIs
  <2> QED BY <2>2, <2>4
<1> QED BY <1>1, <1>7, <1>8 DEF KeyRemoved

-----------------------------------------------------------------------------
(* What the call by exact key knows of the entries that its edits lead to.  *)

\* For every entry, the last operation that wrote it, or 0.
Answered(w, es, ops, next) ==
    /\ IsSequence(w) /\ Len(w) = Len(es)
    /\ \A n \in 1..Len(es) : w[n] \in 0..next - 1 /\ (w[n] > 0 => ops[w[n]].key = es[n].key)

LEMMA AnsweredAppend ==
    ASSUME NEW w, NEW es, IsSequence(es), NEW ops, NEW next \in Nat, Answered(w, es, ops, next),
           next > 0, NEW e, e.key = ops[next].key, NEW v, v = Append(w, next),
           NEW fs, fs = Append(es, e)
    PROVE  Answered(v, fs, ops, next + 1)
<1>1. PICK m \in Nat : m = Len(es)
  BY DEF IsSequence
<1>2. /\ IsSequence(w) /\ Len(w) = m
      /\ \A n \in 1..m : w[n] \in 0..next - 1 /\ (w[n] > 0 => ops[w[n]].key = es[n].key)
  BY <1>1 DEF Answered
<1>3. Len(fs) = m + 1 /\ fs[m + 1] = e /\ \A n \in 1..m : fs[n] = es[n]
  BY <1>1, SequenceAppend
<1>4. IsSequence(v) /\ Len(v) = m + 1 /\ v[m + 1] = next /\ \A n \in 1..m : v[n] = w[n]
  BY <1>2, SequenceAppend
<1>5. ASSUME NEW n \in 1..m + 1
      PROVE  v[n] \in 0..next + 1 - 1 /\ (v[n] > 0 => ops[v[n]].key = fs[n].key)
  <2>1. CASE n \in 1..m
    BY <1>2, <1>3, <1>4, <2>1
  <2>2. CASE n = m + 1
    BY <1>3, <1>4, <2>2
  <2>3. n \in 1..m \/ n = m + 1
    BY <1>1
  <2> QED BY <2>1, <2>2, <2>3
<1> QED BY <1>3, <1>4, <1>5 DEF Answered

LEMMA AnsweredPut ==
    ASSUME NEW w, NEW es, IsSequence(es), NEW ops, NEW next \in Nat, Answered(w, es, ops, next),
           next > 0, NEW fs, SameFrame(es, fs), NEW k \in 1..Len(es),
           ops[next].key = es[k].key, NEW v, v = Put(w, k, next)
    PROVE  Answered(v, fs, ops, next + 1)
<1>1. PICK m \in Nat : m = Len(es)
  BY DEF IsSequence
<1>2. /\ IsSequence(w) /\ Len(w) = m
      /\ \A n \in 1..m : w[n] \in 0..next - 1 /\ (w[n] > 0 => ops[w[n]].key = es[n].key)
  BY <1>1 DEF Answered
<1>3. Len(fs) = m /\ \A n \in 1..m : fs[n].key = es[n].key
  BY <1>1 DEF SameFrame
<1>4. k \in 1..Len(w)
  BY <1>1, <1>2
<1>5. IsSequence(v) /\ Len(v) = m /\ v[k] = next /\ \A n \in 1..m : n # k => v[n] = w[n]
  <2>1. IsSequence(w)
    BY <1>2
  <2>2. /\ IsSequence(v) /\ Len(v) = Len(w) /\ v[k] = next
        /\ \A n \in 1..Len(w) : n # k => v[n] = w[n]
    BY <1>4, <2>1, PutIs
  <2> QED BY <1>2, <2>2
<1>6. ASSUME NEW n \in 1..m
      PROVE  v[n] \in 0..next + 1 - 1 /\ (v[n] > 0 => ops[v[n]].key = fs[n].key)
  <2>1. CASE n # k
    BY <1>2, <1>3, <1>5, <2>1
  <2>2. CASE n = k
    BY <1>3, <1>5, <2>2
  <2> QED BY <2>1, <2>2
<1> QED BY <1>3, <1>5, <1>6 DEF Answered

LEMMA AnsweredMark ==
    ASSUME NEW w, NEW es, IsSequence(es), NEW ops, NEW next \in Nat, Answered(w, es, ops, next),
           next > 0, NEW fs, SameFrame(es, fs), NEW gone, NEW P, Names(gone, es, P),
           \A n \in P : es[n].key = ops[next].key, NEW v, v = Noted(w, gone, next)
    PROVE  Answered(v, fs, ops, next + 1)
<1>1. PICK m \in Nat : m = Len(es)
  BY DEF IsSequence
<1>2. /\ IsSequence(w) /\ Len(w) = m
      /\ \A n \in 1..m : w[n] \in 0..next - 1 /\ (w[n] > 0 => ops[w[n]].key = es[n].key)
  BY <1>1 DEF Answered
<1>3. Len(fs) = m /\ \A n \in 1..m : fs[n].key = es[n].key
  BY <1>1 DEF SameFrame
<1>4. /\ \A i \in 1..Len(gone) : gone[i] \in Nat
      /\ P = {gone[i] + 1 : i \in 1..Len(gone)}
      /\ Len(gone) \in Nat
  BY DEF Names, IsSequence
<1>5. ToSet(gone) = {gone[i] : i \in 1..Len(gone)}
  <2>1. DOMAIN gone = 1..Len(gone)
    BY DEF Names, IsSequence
  <2> QED BY <2>1 DEF ToSet
<1>6. \A n \in 1..m : n - 1 \in ToSet(gone) => n \in P
  BY <1>1, <1>4, <1>5
<1>7. DOMAIN w = 1..m
  BY <1>2 DEF IsSequence
<1>8. v = [n \in 1..m |-> IF n - 1 \in ToSet(gone) THEN next ELSE w[n]]
  BY <1>7 DEF Noted
<1>9. /\ IsSequence(v) /\ Len(v) = m
      /\ \A n \in 1..m : v[n] = IF n - 1 \in ToSet(gone) THEN next ELSE w[n]
  <2>1. v = [n \in 1..m |-> v[n]]
    BY <1>8
  <2>2. IsSequence(v) /\ Len(v) = m
    BY <2>1, SequenceMade
  <2> QED BY <1>8, <2>2
<1>10. ASSUME NEW n \in 1..m
       PROVE  v[n] \in 0..next + 1 - 1 /\ (v[n] > 0 => ops[v[n]].key = fs[n].key)
  <2>1. CASE n - 1 \notin ToSet(gone)
    BY <1>2, <1>3, <1>9, <2>1
  <2>2. CASE n - 1 \in ToSet(gone)
    <3>1. v[n] = next /\ n \in P
      BY <1>6, <1>9, <2>2
    <3> QED BY <1>3, <3>1
  <2> QED BY <2>1, <2>2
<1> QED BY <1>3, <1>9, <1>10 DEF Answered

\* The call's record, for a store and the entries that its edits lead to.
TypedIs(s, c, es) ==
    /\ TypedShape(c) /\ Edited(s, c.edits, es, c.counts.added, c.counts.removed)
    /\ \A k \in KeysOf(c.ops) : Tracks(c.active[k], KeyLive(es, k))
    /\ c.next \in Nat /\ c.next > 0 /\ Answered(c.writers, es, c.ops, c.next)

LEMMA FindAllIs ==
    ASSUME NEW s, IsStore(s), NEW k
    PROVE  Tracks(FindAll(s, k), KeyLive(s.entries, k))
<1>0. PICK es : es = s.entries
  OBVIOUS
<1>1. PICK n \in Nat : es = s.entries /\ n = Len(es)
  BY <1>0 DEF IsStore, IsSequence
<1>2. PICK P : P = KeyLive(es, k)
  OBVIOUS
<1>3. P \subseteq 1..n
  BY <1>1, <1>2, KeyLiveIn
<1>4. PICK S : S = Ids(s, LAMBDA e : e.key = k /\ ~Deleted(e))
  OBVIOUS
<1>5. S = {i \in 0..n - 1 : i + 1 \in P}
  <2>1. S = {i \in 0..n - 1 : es[i + 1].key = k /\ ~Deleted(es[i + 1])}
    BY <1>1, <1>4 DEF Ids
  <2>2. \A i \in 0..n - 1 : i + 1 \in P <=> es[i + 1].key = k /\ ~Deleted(es[i + 1])
    BY <1>1, <1>2 DEF KeyLive, LivePlaces, KeyAt
  <2> QED BY <2>1, <2>2
<1>6. Tracks(InIdOrder(S), P)
  BY <1>3, <1>5, TracksStart
<1>7. FindAll(s, k) = InIdOrder(S)
  BY <1>4 DEF FindAll
<1> QED BY <1>1, <1>2, <1>6, <1>7

LEMMA TypedStarts ==
    ASSUME NEW s, IsStore(s), NEW ops, NEW owner, NEW max, NEW policy, NEW c,
           c = TypedStart(s, ops, owner, max, policy)
    PROVE  /\ TypedIs(s, c, s.entries) /\ c.ops = ops /\ c.next = 1 /\ c.owner = owner
           /\ c.max = max /\ c.policy = policy
<1>1. PICK active, writers, counts :
          /\ active = [k \in {ops[i].key : i \in 1..Len(ops)} |-> FindAll(s, k)]
          /\ writers = [id \in 1..Len(s.entries) |-> 0]
          /\ counts = [added |-> 0, updated |-> 0, removed |-> 0]
  OBVIOUS
<1>2. counts = [added |-> counts.added, updated |-> counts.updated, removed |-> counts.removed]
      /\ counts.added = 0 /\ counts.removed = 0
  BY <1>1
<1>3. OnKeys(active, KeysOf(ops)) /\ \A k \in KeysOf(ops) : active[k] = FindAll(s, k)
  BY <1>1 DEF OnKeys, KeysOf
<1>4. c = [stage |-> "typed", ops |-> ops, owner |-> owner, max |-> max, policy |-> policy,
           next |-> 1, active |-> active, writers |-> writers, edits |-> <<>>,
           counts |-> counts]
  BY <1>1 DEF TypedStart
<1>5. /\ TypedShape(c) /\ c.ops = ops /\ c.owner = owner /\ c.max = max
      /\ c.policy = policy /\ c.next = 1 /\ c.active = active
      /\ c.writers = writers /\ c.edits = <<>> /\ c.counts = counts
  BY <1>2, <1>3, <1>4, TypedShapeFrom
<1>6. Edited(s, c.edits, s.entries, c.counts.added, c.counts.removed)
  BY <1>2, <1>5, EditedStart
<1>7. \A k \in KeysOf(c.ops) : Tracks(c.active[k], KeyLive(s.entries, k))
  BY <1>3, <1>5, FindAllIs
<1>8. Answered(c.writers, s.entries, c.ops, c.next)
  <2>1. PICK n \in Nat : n = Len(s.entries)
    BY DEF IsStore, IsSequence
  <2>2. writers = [i \in 1..n |-> 0]
    BY <1>1, <2>1
  <2>3. writers = [i \in 1..n |-> writers[i]]
    BY <2>2
  <2>4. IsSequence(writers) /\ Len(writers) = n
    BY <2>3, SequenceMade
  <2>5. \A i \in 1..n : writers[i] = 0
    BY <2>2
  <2> QED BY <1>5, <2>1, <2>4, <2>5 DEF Answered
<1> QED BY <1>5, <1>6, <1>7, <1>8 DEF TypedIs

\* What an operation by exact key may be asked with.
KeyOp(op) ==
    /\ op.kind \in {"Add", "Set", "Remove"} /\ op.occurrence \in Nat
    /\ op.kind = "Add" => IsKey(op.key)

\* The entries of the store behind a record.
LEMMA TypedEntries ==
    ASSUME NEW s, NEW c, NEW es, TypedIs(s, c, es)
    PROVE  /\ IsSequence(es) /\ Len(es) \in Nat /\ \A n \in 1..Len(es) : IsEntry(es[n])
           /\ IsSequence(c.edits) /\ es = Applied(s.entries, c.edits)
           /\ IsSequence(c.writers) /\ Len(c.writers) = Len(es)
BY DEF TypedIs, Edited, IsSequence, Answered

\* One operation done: the record goes with the list that the operation leads to.
TypedGoes(s, c, es, op, d) ==
    /\ TypedKept(c, d)
    /\ \E fs : TypedIs(s, d, fs) /\ Lists!ByKey(Listed(es), op, c.policy) = {Listed(fs)}

LEMMA TypedAddKeeps ==
    ASSUME NEW s, IsStore(s), NEW c, NEW es, TypedIs(s, c, es), c.next \in 1..Len(c.ops),
           NEW op, op = c.ops[c.next], KeyOp(op), op.kind = "Add",
           c.policy \in {"FailIfPresent", "Append"}, TypedError(c, op) = "Ok",
           NEW d, d = TypedStep(c)
    PROVE  TypedGoes(s, c, es, op, d)
<1>1. /\ op.occurrence = Unique /\ (c.active[op.key] = <<>> \/ c.policy = "Append")
      /\ ~(Len(c.writers) >= MaxEntries)
  BY DEF TypedError, AddError
<1>2. /\ TypedShape(c) /\ Edited(s, c.edits, es, c.counts.added, c.counts.removed)
      /\ c.next \in Nat /\ c.next > 0 /\ Answered(c.writers, es, c.ops, c.next)
  BY DEF TypedIs
<1>3. PICK m \in Nat : m = Len(es) /\ m = Len(c.writers)
  BY TypedEntries
<1>4. IsSequence(es) /\ IsSequence(s.entries)
  BY TypedEntries DEF IsStore
<1>5. PICK e, fs : e = NewEntry(op.key, op.value, op.wire, NoBlock, m) /\ fs = Append(es, e)
  OBVIOUS
<1>6. NoBlock \in Nat /\ m \in 0..OrderMax
  <2>1. NoBlock \in Nat /\ MaxEntries \in Nat /\ OrderMax \in Nat /\ MaxEntries <= OrderMax
    BY EditingAssumption, HostAssumption
  <2> QED BY <1>1, <1>3, <2>1
<1>7. /\ e.key = op.key /\ ~Deleted(e) /\ IsEntry(e)
      /\ View(e) = Lists!Entry(op.key, op.value, op.wire)
  <2>1. IsKey(op.key)
    BY DEF KeyOp
  <2> QED BY <1>5, <1>6, <2>1, NewIs
<1>8. op.key \in KeysOf(c.ops)
  BY DEF KeysOf
<1>9. KeyAdded(c, op, d)
  BY <1>2, <1>8, TypedStepAdds
<1>10. /\ TypedKept(c, d) /\ d.edits = Append(c.edits, AddEntry(e))
       /\ d.active[op.key] = Append(c.active[op.key], m)
       /\ \A k \in KeysOf(c.ops) : k # op.key => d.active[k] = c.active[k]
       /\ d.writers = Append(c.writers, c.next)
       /\ d.counts.added = c.counts.added + 1 /\ d.counts.removed = c.counts.removed
  BY <1>3, <1>5, <1>9 DEF KeyAdded
<1>11. Edited(s, d.edits, fs, d.counts.added, d.counts.removed)
  <2>1. Edited(s, c.edits, es, c.counts.added, c.counts.removed)
    BY <1>2
  <2>2. IsEntry(e) /\ ~Deleted(e)
    BY <1>7
  <2>3. Edited(s, Append(c.edits, AddEntry(e)), Append(es, e), c.counts.added + 1,
               c.counts.removed)
    BY <1>4, <2>1, <2>2, EditedAdd
  <2> QED BY <1>5, <1>10, <2>3
<1>12. ASSUME NEW k \in KeysOf(c.ops) PROVE Tracks(d.active[k], KeyLive(fs, k))
  <2>1. Tracks(c.active[k], KeyLive(es, k))
    BY DEF TypedIs
  <2>2. CASE k = op.key
    <3>1. KeyLive(fs, k) = KeyLive(es, k) \cup {m + 1}
      <4>1. e.key = k /\ ~Deleted(e)
        BY <1>7, <2>2
      <4>2. KeyLive(Append(es, e), k) = KeyLive(es, k) \cup {Len(es) + 1}
        BY <1>4, <4>1, KeyAppend
      <4> QED BY <1>3, <1>5, <4>2
    <3>2. \A p \in KeyLive(es, k) : p <= m
      BY <1>3 DEF KeyLive, LivePlaces
    <3>3. Tracks(Append(c.active[k], m), KeyLive(es, k) \cup {m + 1})
      BY <2>1, <3>2, TracksAppend
    <3> QED BY <1>10, <2>2, <3>1, <3>3
  <2>3. CASE k # op.key
    <3>1. KeyLive(fs, k) = KeyLive(es, k)
      <4>1. e.key # k /\ ~Deleted(e)
        BY <1>7, <2>3
      <4>2. KeyLive(Append(es, e), k) = KeyLive(es, k)
        BY <1>4, <4>1, KeyAppendOther
      <4> QED BY <1>5, <4>2
    <3> QED BY <1>10, <2>1, <2>3, <3>1
  <2> QED BY <2>2, <2>3
<1>13. Answered(d.writers, fs, c.ops, c.next + 1)
  <2>1. e.key = c.ops[c.next].key
    BY <1>7
  <2>2. PICK v : v = Append(c.writers, c.next)
    OBVIOUS
  <2>3. Answered(v, fs, c.ops, c.next + 1)
    BY <1>2, <1>4, <1>5, <2>1, <2>2, AnsweredAppend
  <2> QED BY <1>10, <2>2, <2>3
<1>14. TypedIs(s, d, fs)
  <2>1. TypedShape(d) /\ d.ops = c.ops /\ d.next = c.next + 1
    BY <1>10 DEF TypedKept
  <2>2. d.next \in Nat /\ d.next > 0
    BY <1>2, <2>1
  <2> QED BY <1>11, <1>12, <1>13, <2>1, <2>2 DEF TypedIs
<1>15. Lists!ByKey(Listed(es), op, c.policy) = {Listed(fs)}
  <2>1. KeyLive(Listed(es), op.key) = KeyLive(es, op.key)
    BY <1>4, KeyListed
  <2>2. Tracks(c.active[op.key], KeyLive(es, op.key))
    BY <1>8 DEF TypedIs
  <2>3. KeyAdds(Listed(es), op, c.policy)
    <3>1. CASE c.active[op.key] = <<>>
      <4>1. Cardinality(KeyLive(es, op.key)) = 0
        BY <2>2, <3>1, TracksIs
      <4> QED BY <1>1, <2>1, <4>1 DEF KeyAdds
    <3>2. CASE c.policy = "Append"
      BY <1>1, <3>2 DEF KeyAdds
    <3> QED BY <1>1, <3>1, <3>2
  <2>4. Lists!ByKey(Listed(es), op, c.policy) =
           {Append(Listed(es), Lists!Entry(op.key, op.value, op.wire))}
    BY <2>3, ByKeyAdds
  <2>5. Listed(fs) = Append(Listed(es), View(e))
    BY <1>4, <1>5, ListedAppend
  <2> QED BY <1>7, <2>4, <2>5
<1> QED BY <1>10, <1>14, <1>15 DEF TypedGoes

LEMMA TypedSetKeeps ==
    ASSUME NEW s, IsStore(s), NEW c, NEW es, TypedIs(s, c, es), c.next \in 1..Len(c.ops),
           NEW op, op = c.ops[c.next], KeyOp(op), op.kind = "Set",
           TypedError(c, op) = "Ok", NEW d, d = TypedStep(c)
    PROVE  TypedGoes(s, c, es, op, d)
<1>1. PICK q, P, l : q = c.active[op.key] /\ P = KeyLive(es, op.key) /\ l = Listed(es)
  OBVIOUS
<1>2. op.key \in KeysOf(c.ops)
  BY DEF KeysOf
<1>3. /\ TypedShape(c) /\ Edited(s, c.edits, es, c.counts.added, c.counts.removed)
      /\ c.next \in Nat /\ c.next > 0 /\ Answered(c.writers, es, c.ops, c.next)
      /\ Tracks(q, P)
  BY <1>1, <1>2 DEF TypedIs
<1>4. /\ IsSequence(es) /\ Len(es) \in Nat /\ (\A n \in 1..Len(es) : IsEntry(es[n]))
      /\ IsSequence(s.entries)
  BY TypedEntries DEF IsStore
<1>5. PICK m \in Nat : m = Len(q)
  BY <1>3, TracksIs
<1>6. /\ op.occurrence # All /\ m # 0
      /\ op.occurrence = Unique => m = 1
      /\ op.occurrence # Unique => op.occurrence < m
  <2>1. TargetError(c, op) = "Ok"
    BY DEF TypedError
  <2>2. /\ op.occurrence # All /\ m # 0 /\ ~(op.occurrence = Unique /\ m # 1)
        /\ ~(op.occurrence \notin {All, Unique} /\ op.occurrence >= m)
    BY <1>1, <1>5, <2>1 DEF TargetError
  <2>3. op.occurrence \in Nat
    BY DEF KeyOp
  <2> QED BY <2>2, <2>3
<1>7. PICK i \in Nat : i + 1 = Position(op) /\ i < m
  <2>1. CASE op.occurrence = Unique
    BY <1>6, <2>1 DEF Position
  <2>2. CASE op.occurrence # Unique
    BY <1>6, <2>2 DEF Position, KeyOp
  <2> QED BY <2>1, <2>2
<1>8. PICK id, k : id = q[i + 1] /\ k = id + 1
  OBVIOUS
<1>9. P \subseteq 1..Len(es) /\ \A n \in P : ~Deleted(es[n]) /\ es[n].key = op.key
  BY <1>1, KeyLiveIn
<1>10. /\ id \in Nat /\ id < Len(es) /\ k \in P /\ Nth(P, i + 1) = k
       /\ k \in 1..Len(es) /\ IsEntry(es[k])
  <2>1. /\ id \in Nat /\ id < Len(es) /\ k \in P /\ Nth(P, i + 1) = k
    BY <1>3, <1>4, <1>5, <1>7, <1>8, <1>9, Target
  <2> QED BY <1>4, <1>9, <2>1
<1>11. PICK e, fs : e = Stored(es[k], op.value, op.wire) /\ fs = Put(es, k, e)
  OBVIOUS
<1>12. /\ IsEntry(e) /\ e.key = es[k].key /\ e.block = es[k].block /\ e.order = es[k].order
       /\ e.flags = (es[k].flags \cup {"Dirty"}) \ {"BigEndian"}
       /\ View(e) = Lists!Rewritten(View(es[k]), op.value, op.wire)
  BY <1>10, <1>11, StoredIs
<1>13. Deleted(e) <=> Deleted(es[k])
  BY <1>12 DEF Deleted
<1>14. /\ TypedKept(c, d) /\ d.edits = Append(c.edits, SetValueWithWire(id, op.value, op.wire))
       /\ d.active = c.active /\ d.writers = Put(c.writers, k, c.next)
       /\ d.counts.added = c.counts.added /\ d.counts.removed = c.counts.removed
  <2>1. id = c.active[op.key][Position(op)]
    BY <1>1, <1>7, <1>8
  <2>2. KeyWrote(c, op, d, id)
    BY <1>3, <2>1, TypedStepSets
  <2> QED BY <1>8, <2>2 DEF KeyWrote
<1>15. Edited(s, d.edits, fs, d.counts.added, d.counts.removed)
  <2>1. PICK o : o = SetValueWithWire(id, op.value, op.wire)
    OBVIOUS
  <2>2. Do(es, o) = Put(es, k, e)
    <3>1. Do(es, SetValueWithWire(id, op.value, op.wire)) =
             Put(es, id + 1, Stored(es[id + 1], op.value, op.wire))
      BY <1>10, DoSetWithWire
    <3> QED BY <1>8, <1>11, <2>1, <3>1
  <2>4. Edited(s, Append(c.edits, o), Put(es, k, e), c.counts.added, c.counts.removed)
    <3>1. Edited(s, c.edits, es, c.counts.added, c.counts.removed)
      BY <1>3
    <3> QED BY <1>4, <1>10, <1>12, <1>13, <2>2, <3>1, EditedPut
  <2> QED BY <1>11, <1>14, <2>1, <2>4
<1>16. SameFrame(es, fs)
  BY <1>4, <1>10, <1>11, <1>12, FramePut
<1>17. ASSUME NEW x \in KeysOf(c.ops) PROVE Tracks(d.active[x], KeyLive(fs, x))
  <2>1. Tracks(c.active[x], KeyLive(es, x))
    BY DEF TypedIs
  <2>2. KeyAt(fs, x) = KeyAt(es, x)
    BY <1>16, FrameAt
  <2>3. PICK C : C = KeyAt(es, x)
    OBVIOUS
  <2>4. LivePlaces(fs, C) = LivePlaces(es, C)
    BY <1>4, <1>10, <1>11, <1>13, LivePut
  <2> QED BY <1>14, <2>1, <2>2, <2>3, <2>4 DEF KeyLive
<1>18. Answered(d.writers, fs, c.ops, c.next + 1)
  <2>1. c.ops[c.next].key = es[k].key
    BY <1>9, <1>10
  <2>2. PICK v : v = Put(c.writers, k, c.next)
    OBVIOUS
  <2>3. Answered(v, fs, c.ops, c.next + 1)
    BY <1>3, <1>4, <1>10, <1>16, <2>1, <2>2, AnsweredPut
  <2> QED BY <1>14, <2>2, <2>3
<1>19. TypedIs(s, d, fs)
  <2>1. TypedShape(d) /\ d.ops = c.ops /\ d.next = c.next + 1
    BY <1>14 DEF TypedKept
  <2>2. d.next \in Nat /\ d.next > 0
    BY <1>3, <2>1
  <2> QED BY <1>15, <1>17, <1>18, <2>1, <2>2 DEF TypedIs
<1>20. Lists!ByKey(l, op, c.policy) = {Listed(fs)}
  <2>1. KeyLive(l, op.key) = P
    BY <1>1, <1>4, KeyListed
  <2>2. Cardinality(P) = m
    BY <1>3, <1>5, TracksIs
  <2>3. KeySets(l, op)
    BY <1>6, <2>1, <2>2 DEF KeySets, KeyNamed
  <2>4. k = Nth(KeyLive(l, op.key), Position(op))
    BY <1>7, <1>10, <2>1
  <2>5. Lists!ByKey(l, op, c.policy) = {Put(l, k, Lists!Rewritten(l[k], op.value, op.wire))}
    BY <2>3, <2>4, ByKeySets
  <2>6. l[k] = View(es[k])
    BY <1>1, <1>4, <1>10, ListedIs
  <2>7. Listed(Put(es, k, e)) = Put(Listed(es), k, View(e))
    BY <1>4, <1>10, ListedPut
  <2>8. Listed(fs) = Put(l, k, Lists!Rewritten(l[k], op.value, op.wire))
    BY <1>1, <1>11, <1>12, <2>6, <2>7
  <2> QED BY <2>5, <2>8
<1> QED BY <1>1, <1>14, <1>19, <1>20 DEF TypedGoes

\* What removing some of the entries with one key does to a call's record.
LEMMA TypedDropKeeps ==
    ASSUME NEW s, IsStore(s), NEW c, NEW es, TypedIs(s, c, es), NEW g \in KeysOf(c.ops),
           c.ops[c.next].key = g,
           NEW P, P \subseteq KeyLive(es, g), IsFiniteSet(P), NEW q,
           Tracks(q, KeyLive(es, g) \ P), NEW d, TypedKept(c, d),
           Applied(s.entries, d.edits) = Lists!Mark(es, P), IsSequence(d.edits),
           d.active[g] = q, \A k \in KeysOf(c.ops) : k # g => d.active[k] = c.active[k],
           NEW gone, Names(gone, es, P), d.writers = Noted(c.writers, gone, c.next),
           d.counts.added = c.counts.added,
           d.counts.removed = c.counts.removed + Cardinality(P)
    PROVE  TypedIs(s, d, Lists!Mark(es, P))
<1>1. PICK fs : fs = Lists!Mark(es, P)
  OBVIOUS
<1>2. /\ Edited(s, c.edits, es, c.counts.added, c.counts.removed)
      /\ c.next \in Nat /\ c.next > 0 /\ Answered(c.writers, es, c.ops, c.next)
  BY DEF TypedIs
<1>3. IsSequence(es) /\ Len(es) \in Nat /\ \A n \in 1..Len(es) : IsEntry(es[n])
  BY TypedEntries
<1>4. P \subseteq 1..Len(es) /\ \A n \in P : ~Deleted(es[n]) /\ es[n].key = g
  BY KeyLiveIn
<1>5. IsSequence(s.entries) /\ Len(s.entries) \in Nat
  BY DEF IsStore, IsSequence
<1>6. Edited(s, d.edits, Lists!Mark(es, P), c.counts.added, c.counts.removed + Cardinality(P))
  BY <1>2, <1>4, <1>5, EditedMark
<1>7. SameFrame(es, fs)
  BY <1>1, <1>3, FrameMark
<1>8. ASSUME NEW k \in KeysOf(c.ops) PROVE KeyLive(fs, k) = KeyLive(es, k) \ P
  <2>1. KeyAt(fs, k) = KeyAt(es, k)
    BY <1>7, FrameAt
  <2>2. PICK C : C = KeyAt(es, k)
    OBVIOUS
  <2>3. \A n \in 1..Len(es) : Deleted(Lists!Marked(es[n]))
    BY <1>3, EntryDies
  <2>4. LivePlaces(fs, C) = LivePlaces(es, C) \ P
    BY <1>1, <1>3, <2>3, LiveMark
  <2> QED BY <2>1, <2>2, <2>4 DEF KeyLive
<1>9. ASSUME NEW k \in KeysOf(c.ops) PROVE Tracks(d.active[k], KeyLive(fs, k))
  <2>1. CASE k = g
    BY <1>8, <2>1
  <2>2. CASE k # g
    <3>1. KeyLive(es, k) \cap P = {}
      <4>1. ASSUME NEW n \in KeyLive(es, k), n \in P PROVE FALSE
        BY <1>4, <2>2, <4>1, KeyLiveIn
      <4> QED BY <4>1
    <3>2. KeyLive(fs, k) = KeyLive(es, k)
      BY <1>8, <3>1
    <3>3. Tracks(c.active[k], KeyLive(es, k))
      BY DEF TypedIs
    <3> QED BY <2>2, <3>2, <3>3
  <2> QED BY <2>1, <2>2
<1>10. Answered(d.writers, fs, c.ops, c.next + 1)
  <2>1. \A n \in P : es[n].key = c.ops[c.next].key
    BY <1>4
  <2>2. PICK v : v = Noted(c.writers, gone, c.next)
    OBVIOUS
  <2>3. Answered(v, fs, c.ops, c.next + 1)
    BY <1>2, <1>3, <1>7, <2>1, <2>2, AnsweredMark
  <2> QED BY <2>2, <2>3
<1>11. TypedIs(s, d, fs)
  <2>1. TypedShape(d) /\ d.ops = c.ops /\ d.next = c.next + 1
    BY DEF TypedKept
  <2>2. d.next \in Nat /\ d.next > 0
    BY <1>2, <2>1
  <2>3. Edited(s, d.edits, fs, d.counts.added, d.counts.removed)
    BY <1>1, <1>6
  <2> QED BY <1>9, <1>10, <2>1, <2>2, <2>3 DEF TypedIs
<1> QED BY <1>1, <1>11

LEMMA TypedRemoveKeeps ==
    ASSUME NEW s, IsStore(s), NEW c, NEW es, TypedIs(s, c, es), c.next \in 1..Len(c.ops),
           NEW op, op = c.ops[c.next], KeyOp(op), op.kind = "Remove",
           TypedError(c, op) = "Ok", NEW d, d = TypedStep(c)
    PROVE  TypedGoes(s, c, es, op, d)
<1>1. PICK q, R, l : q = c.active[op.key] /\ R = KeyLive(es, op.key) /\ l = Listed(es)
  OBVIOUS
<1>2. op.key \in KeysOf(c.ops)
  BY DEF KeysOf
<1>3. TypedShape(c) /\ Tracks(q, R)
  BY <1>1, <1>2 DEF TypedIs
<1>4. /\ IsSequence(es) /\ Len(es) \in Nat /\ (\A n \in 1..Len(es) : IsEntry(es[n]))
      /\ IsSequence(c.edits) /\ es = Applied(s.entries, c.edits)
  BY TypedEntries
<1>5. PICK m \in Nat : m = Len(q)
  BY <1>3, TracksIs
<1>6. /\ m # 0
      /\ op.occurrence = Unique => m = 1
      /\ op.occurrence \notin {All, Unique} => op.occurrence < m
  <2>1. TargetError(c, op) = "Ok"
    BY DEF TypedError
  <2>2. /\ m # 0 /\ ~(op.occurrence = Unique /\ m # 1)
        /\ ~(op.occurrence \notin {All, Unique} /\ op.occurrence >= m)
    BY <1>1, <1>5, <2>1 DEF TargetError
  <2>3. op.occurrence \in Nat
    BY DEF KeyOp
  <2> QED BY <2>2, <2>3
<1>7. R \subseteq 1..Len(es)
  BY <1>1, KeyLiveIn
<1>8. PICK gone : gone = KeyGone(c, op)
  OBVIOUS
<1>9. KeyRemoved(c, op, d, gone)
  BY <1>2, <1>3, <1>8, TypedStepRemoves
<1>10. /\ TypedKept(c, d) /\ d.edits = c.edits \o Tombstones(gone)
       /\ \A k \in KeysOf(c.ops) : k # op.key => d.active[k] = c.active[k]
       /\ d.writers = Noted(c.writers, gone, c.next) /\ d.counts.added = c.counts.added
       /\ d.counts.removed = c.counts.removed + Len(gone)
  BY <1>9 DEF KeyRemoved
<1>11. KeyLive(l, op.key) = R /\ Cardinality(R) = m /\ IsFiniteSet(R)
  <2>1. KeyLive(l, op.key) = R
    BY <1>1, <1>4, KeyListed
  <2>2. Cardinality(R) = Len(q) /\ IsFiniteSet(R)
    BY <1>3, TracksIs
  <2> QED BY <1>5, <2>1, <2>2
<1>12. CASE op.occurrence = All
  <2>1. gone = q /\ d.active[op.key] = <<>>
    BY <1>1, <1>8, <1>9, <1>12 DEF KeyGone, KeyRemoved
  <2>2. Names(q, es, R)
    <3>1. \A p \in R : p \in 1..Len(es)
      BY <1>7
    <3> QED BY <1>3, <1>4, <3>1, TracksNames
  <2>3. /\ IsSequence(c.edits \o Tombstones(q))
        /\ Applied(s.entries, c.edits \o Tombstones(q)) = Lists!Mark(es, R)
    BY <1>4, <2>2, AppliedTombstones
  <2>4. Tracks(<<>>, KeyLive(es, op.key) \ R)
    <3>1. KeyLive(es, op.key) \ R = {}
      BY <1>1
    <3> QED BY <3>1, TracksEmpty
  <2>5. TypedIs(s, d, Lists!Mark(es, R))
    <3>1. /\ R \subseteq KeyLive(es, op.key) /\ IsFiniteSet(R)
          /\ Applied(s.entries, d.edits) = Lists!Mark(es, R) /\ IsSequence(d.edits)
          /\ d.active[op.key] = <<>>
          /\ d.counts.removed = c.counts.removed + Cardinality(R)
      BY <1>1, <1>5, <1>10, <1>11, <2>1, <2>3
    <3>2. TypedKept(c, d) /\ d.counts.added = c.counts.added
      BY <1>10
    <3>3. \A k \in KeysOf(c.ops) : k # op.key => d.active[k] = c.active[k]
      BY <1>10
    <3>4. Names(q, es, R) /\ d.writers = Noted(c.writers, q, c.next)
      BY <1>10, <2>1, <2>2
    <3>5. c.ops[c.next].key = op.key
      OBVIOUS
    <3> QED BY <1>2, <2>4, <3>1, <3>2, <3>3, <3>4, <3>5, TypedDropKeeps
  <2>6. Lists!ByKey(l, op, c.policy) = {Listed(Lists!Mark(es, R))}
    <3>1. KeyClears(l, op)
      <4>1. R # {}
        BY <1>3, <1>5, <1>6, TracksNone
      <4> QED BY <1>11, <1>12, <4>1 DEF KeyClears
    <3>2. Lists!ByKey(l, op, c.policy) = {Lists!Mark(l, R)}
      BY <1>11, <3>1, ByKeyClears
    <3> QED BY <1>1, <1>4, <3>2, ListedMark
  <2> QED BY <1>1, <1>10, <2>5, <2>6 DEF TypedGoes
<1>13. CASE op.occurrence # All
  <2>1. PICK i \in Nat : i + 1 = Position(op) /\ i < m
    <3>1. CASE op.occurrence = Unique
      BY <1>6, <3>1 DEF Position
    <3>2. CASE op.occurrence # Unique
      BY <1>6, <1>13, <3>2 DEF Position, KeyOp
    <3> QED BY <3>1, <3>2
  <2>2. PICK id, k : id = q[i + 1] /\ k = id + 1
    OBVIOUS
  <2>3. /\ id \in Nat /\ id < Len(es) /\ k \in R /\ Nth(R, i + 1) = k
        /\ i + 1 \in 1..Len(q)
    <3>1. R \subseteq 1..Len(es) /\ Len(es) \in Nat /\ i < Len(q) /\ Tracks(q, R)
      BY <1>3, <1>4, <1>5, <1>7, <2>1
    <3>2. /\ q[i + 1] \in Nat /\ q[i + 1] < Len(es) /\ q[i + 1] + 1 \in R
          /\ Nth(R, i + 1) = q[i + 1] + 1 /\ i + 1 \in 1..Len(q)
      BY <3>1, Target
    <3> QED BY <2>2, <3>2
  <2>4. gone = <<id>>
    BY <1>1, <1>8, <1>13, <2>1, <2>2 DEF KeyGone
  <2>5. d.active[op.key] = RemoveAt(q, i + 1)
    BY <1>1, <1>9, <1>13, <2>1 DEF KeyRemoved
  <2>6. /\ IsSequence(c.edits \o Tombstones(<<id>>))
        /\ Applied(s.entries, c.edits \o Tombstones(<<id>>)) = Lists!Mark(es, {id + 1})
    BY <1>4, <2>3, AppliedTombstone
  <2>7. PICK P : P = {k}
    OBVIOUS
  <2>8. Tracks(RemoveAt(q, i + 1), R \ P)
    <3>1. PICK j \in 1..Len(q) : j = i + 1
      BY <2>3
    <3>2. Tracks(RemoveAt(q, j), R \ {q[j] + 1})
      BY <1>3, TracksRemoveAt
    <3> QED BY <2>2, <2>7, <3>1, <3>2
  <2>9. IsFiniteSet(P) /\ Cardinality(P) = 1 /\ Len(gone) = 1
    BY <2>4, <2>7, FS_Singleton
  <2>10. Names(gone, es, P)
    <3>1. IsSequence(gone) /\ \A j \in 1..Len(gone) : j = 1 /\ gone[j] = id
      BY <2>4, <2>9 DEF IsSequence
    <3>2. P = {gone[j] + 1 : j \in 1..Len(gone)}
      BY <2>2, <2>7, <2>9, <3>1
    <3> QED BY <2>3, <3>1, <3>2 DEF Names
  <2>11. TypedIs(s, d, Lists!Mark(es, P))
    <3>1. /\ P \subseteq KeyLive(es, op.key) /\ IsFiniteSet(P)
          /\ Applied(s.entries, d.edits) = Lists!Mark(es, P) /\ IsSequence(d.edits)
          /\ d.counts.removed = c.counts.removed + Cardinality(P)
      BY <1>1, <1>10, <2>2, <2>3, <2>4, <2>6, <2>7, <2>9
    <3>2. TypedKept(c, d) /\ d.counts.added = c.counts.added
      BY <1>10
    <3>3. \A x \in KeysOf(c.ops) : x # op.key => d.active[x] = c.active[x]
      BY <1>10
    <3>4. PICK x : x = RemoveAt(q, i + 1)
      OBVIOUS
    <3>5. d.active[op.key] = x /\ Tracks(x, KeyLive(es, op.key) \ P)
      BY <1>1, <2>5, <2>8, <3>4
    <3>6. Names(gone, es, P) /\ d.writers = Noted(c.writers, gone, c.next)
      BY <1>10, <2>10
    <3>7. c.ops[c.next].key = op.key
      OBVIOUS
    <3> QED BY <1>2, <3>1, <3>2, <3>3, <3>5, <3>6, <3>7, TypedDropKeeps
  <2>12. Lists!ByKey(l, op, c.policy) = {Listed(Lists!Mark(es, P))}
    <3>1. KeyDrops(l, op)
      BY <1>6, <1>11, <1>13 DEF KeyDrops, KeyNamed
    <3>2. k = Nth(KeyLive(l, op.key), Position(op))
      BY <1>11, <2>1, <2>3
    <3>3. Lists!ByKey(l, op, c.policy) = {Lists!Mark(l, {k})}
      BY <3>1, <3>2, ByKeyDrops
    <3>4. Listed(Lists!Mark(es, P)) = Lists!Mark(Listed(es), P)
      BY <1>4, ListedMark
    <3> QED BY <1>1, <2>7, <3>3, <3>4
  <2> QED BY <1>1, <1>10, <2>11, <2>12 DEF TypedGoes
<1> QED BY <1>12, <1>13

\* An operation by exact key that is not refused does what it promises.
LEMMA TypedDoes ==
    ASSUME NEW s, IsStore(s), NEW c, NEW es, TypedIs(s, c, es), c.next \in 1..Len(c.ops),
           NEW op, op = c.ops[c.next], KeyOp(op), c.policy \in {"FailIfPresent", "Append"},
           TypedError(c, op) = "Ok", NEW d, d = TypedStep(c)
    PROVE  TypedGoes(s, c, es, op, d)
<1>1. CASE op.kind = "Add"
  BY <1>1, TypedAddKeeps
<1>2. CASE op.kind = "Set"
  BY <1>2, TypedSetKeeps
<1>3. CASE op.kind = "Remove"
  BY <1>3, TypedRemoveKeeps
<1> QED BY <1>1, <1>2, <1>3 DEF KeyOp

\* An operation refused for anything but a limit has no target.
LEMMA TypedMisses ==
    ASSUME NEW s, IsStore(s), NEW c, NEW es, TypedIs(s, c, es), c.next \in 1..Len(c.ops),
           NEW op, op = c.ops[c.next], KeyOp(op), TypedError(c, op) \notin {"Ok", "LimitExceeded"}
    PROVE  Lists!ByKey(Listed(es), op, c.policy) = {}
<1>1. PICK q, P, l : q = c.active[op.key] /\ P = KeyLive(es, op.key) /\ l = Listed(es)
  OBVIOUS
<1>2. Tracks(q, P) /\ IsSequence(es)
  <2>1. op.key \in KeysOf(c.ops)
    BY DEF KeysOf
  <2> QED BY <1>1, <2>1, TypedEntries DEF TypedIs
<1>3. PICK m \in Nat : m = Len(q) /\ m = Cardinality(P)
  BY <1>2, TracksIs
<1>4. KeyLive(l, op.key) = P /\ (q = <<>> <=> P = {})
  BY <1>1, <1>2, KeyListed, TracksNone
<1>5. (q = <<>>) <=> m = 0
  <2>1. q = <<>> => m = 0
    BY <1>3
  <2>2. m = 0 => P = {}
    <3>1. IsFiniteSet(P)
      BY <1>2, TracksIs
    <3> QED BY <1>3, <3>1, FS_EmptySet
  <2> QED BY <1>4, <2>1, <2>2
<1>6. ~KeyAdds(l, op, c.policy)
  <2>1. CASE op.kind = "Add"
    <3>1. op.occurrence # Unique \/ (q # <<>> /\ c.policy = "FailIfPresent")
      BY <1>1, <2>1 DEF TypedError, AddError
    <3> QED BY <1>3, <1>4, <1>5, <3>1 DEF KeyAdds
  <2>2. CASE op.kind # "Add"
    BY <2>2 DEF KeyAdds
  <2> QED BY <2>1, <2>2
<1>7. ASSUME op.kind # "Add"
      PROVE  \/ op.occurrence = All /\ op.kind # "Remove"
             \/ m = 0
             \/ op.occurrence = Unique /\ m # 1
             \/ op.occurrence \notin {All, Unique} /\ op.occurrence >= m
  BY <1>1, <1>3, <1>7 DEF TypedError, TargetError
<1>8. op.occurrence \in Nat
  BY DEF KeyOp
<1>9. ~KeySets(l, op)
  BY <1>3, <1>4, <1>7, <1>8 DEF KeySets, KeyNamed
<1>10. ~KeyClears(l, op)
  BY <1>3, <1>4, <1>5, <1>7, <1>8, EditingAssumption DEF KeyClears
<1>11. ~KeyDrops(l, op)
  BY <1>3, <1>4, <1>7, <1>8 DEF KeyDrops, KeyNamed
<1> QED BY <1>1, <1>6, <1>9, <1>10, <1>11, ByKeyElse DEF KeyApplies
=============================================================================
