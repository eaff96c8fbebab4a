----------------------------- MODULE OrderProofs -----------------------------
(***************************************************************************)
(* Facts about lists, finite sets, recursive definitions and the values of *)
(* bit vectors that the proofs about the components share.                 *)
(***************************************************************************)
EXTENDS Orders, BitVectors, Functions, SequencesExt, FunctionTheorems, FiniteSetTheorems, SequenceTheorems,
        WellFoundedInduction, TLAPS

(* Every non-empty set of numbers has a least element: what stands in for  *)
(* induction over the natural numbers.                                     *)
LEMMA LeastElement ==
  ASSUME NEW S \in SUBSET Nat, S # {}
  PROVE  \E r \in S : \A q \in S : r <= q
<1> DEFINE Less == OpToRel(<, Nat)
<1>1. IsWellFoundedOn(Less, Nat)
  BY NatLessThanWellFounded
<1>2. \A x, y \in Nat : <<x, y>> \in Less <=> x < y
  BY DEF OpToRel
<1> HIDE DEF Less
<1>3. PICK r \in S : \A q \in S : ~ (<<q, r>> \in Less)
  BY <1>1, WFMin
<1>4. ASSUME NEW q \in S PROVE r <= q
  <2>1. q \in Nat /\ r \in Nat
    OBVIOUS
  <2>2. ~(q < r)
    BY <2>1, <1>2, <1>3
  <2> QED BY <2>1, <2>2
<1> QED BY <1>4

(* Ascending(S) lists every element of S once (the order in which          *)
(* free_dead returns registers, lowering.py:73-79).                        *)
LEMMA AscendingEnumerates ==
  ASSUME NEW S, IsFiniteSet(S), S \subseteq Nat
  PROVE  /\ Ascending(S) \in [1..Cardinality(S) -> S]
         /\ \A i, j \in 1..Cardinality(S) : Ascending(S)[i] = Ascending(S)[j] => i = j
         /\ \A r \in S : \E i \in 1..Cardinality(S) : Ascending(S)[i] = r
         /\ \A i \in 1..Cardinality(S) : Cardinality({q \in S : q < Ascending(S)[i]}) = i - 1
<1> DEFINE Below(r) == {q \in S : q < r}
           n == Cardinality(S)
           rank == [r \in S |-> Cardinality(Below(r)) + 1]
<1>1. n \in Nat /\ \A r \in S : IsFiniteSet(Below(r)) /\ Cardinality(Below(r)) \in Nat
  BY FS_CardinalityType, FS_Subset
<1>2. ASSUME NEW r \in S, NEW T, IsFiniteSet(T), Below(r) \cup {r} \subseteq T
      PROVE  Cardinality(Below(r)) + 1 <= Cardinality(T)
  <2>1. r \notin Below(r)
    BY <1>2
  <2>2. Cardinality(Below(r) \cup {r}) = Cardinality(Below(r)) + 1
    BY <2>1, <1>1, FS_AddElement
  <2>3. Cardinality(Below(r) \cup {r}) <= Cardinality(T)
    BY <1>2, FS_Subset
  <2> QED BY <2>2, <2>3
<1>3. \A r \in S : Cardinality(Below(r)) + 1 <= n
  <2> SUFFICES ASSUME NEW r \in S PROVE Cardinality(Below(r)) + 1 <= n
    OBVIOUS
  <2>1. Below(r) \cup {r} \subseteq S
    OBVIOUS
  <2> QED BY <2>1, <1>2
<1>4. \A r, s \in S : r < s => Cardinality(Below(r)) + 1 <= Cardinality(Below(s))
  <2> SUFFICES ASSUME NEW r \in S, NEW s \in S, r < s
               PROVE  Cardinality(Below(r)) + 1 <= Cardinality(Below(s))
    OBVIOUS
  <2>1. ASSUME NEW q \in Below(r) \cup {r} PROVE q \in Below(s)
    <3>1. q \in S /\ q <= r
      OBVIOUS
    <3>2. q \in Nat /\ r \in Nat /\ s \in Nat /\ r < s
      BY <3>1
    <3>3. q < s
      BY <3>1, <3>2
    <3> QED BY <3>1, <3>3
  <2> QED BY <2>1, <1>1, <1>2
<1>5. ASSUME NEW r \in S, NEW s \in S, Cardinality(Below(r)) = Cardinality(Below(s))
      PROVE  r = s
  <2>1. ~(r < s) /\ ~(s < r)
    <3> DEFINE c == Cardinality(Below(r))
    <3>1. c \in Nat /\ Cardinality(Below(s)) = c
      BY <1>1, <1>5
    <3>2. r < s => c + 1 <= c
      BY <3>1, <1>4
    <3>3. s < r => c + 1 <= c
      BY <3>1, <1>4
    <3> HIDE DEF c
    <3> QED BY <3>1, <3>2, <3>3
  <2>2. r \in Nat /\ s \in Nat
    OBVIOUS
  <2> QED BY <2>1, <2>2
<1>6. rank \in Injection(S, 1..n)
  <2>1. rank \in [S -> 1..n]
    BY <1>1, <1>3
  <2>2. ASSUME NEW r \in S, NEW s \in S, rank[r] = rank[s] PROVE r = s
    <3>1. Cardinality(Below(r)) = Cardinality(Below(s))
      BY <1>1, <2>2
    <3> QED BY <3>1, <1>5
  <2> HIDE DEF rank
  <2> QED BY <2>1, <2>2, Fun_IsInj
<1>7. \A i \in 1..n : \E r \in S : Cardinality(Below(r)) = i - 1
  <2>1. IsFiniteSet(1..n) /\ Cardinality(1..n) = n
    BY <1>1, FS_Interval
  <2>2. rank \in Surjection(S, 1..n)
    <3> HIDE DEF rank
    <3> QED BY <1>6, <2>1, FS_Injection
  <2>3. \A i \in 1..n : \E r \in S : rank[r] = i
    <3> HIDE DEF rank
    <3> QED BY <2>2 DEF Surjection
  <2>4. \A r \in S : Cardinality(Below(r)) \in Nat
    BY <1>1
  <2>5. \A r \in S : rank[r] = Cardinality(Below(r)) + 1
    OBVIOUS
  <2> HIDE DEF rank
  <2> QED BY <2>3, <2>4, <2>5
<1>8. ASSUME NEW i \in 1..n
      PROVE  Ascending(S)[i] \in S /\ Cardinality(Below(Ascending(S)[i])) = i - 1
  BY <1>7 DEF Ascending
<1>9. ASSUME NEW r \in S PROVE \E i \in 1..n : Ascending(S)[i] = r
  <2> DEFINE i == Cardinality(Below(r)) + 1
  <2>1. i \in 1..n /\ i - 1 = Cardinality(Below(r))
    BY <1>1, <1>3
  <2> HIDE DEF i
  <2>2. Ascending(S)[i] \in S /\ Cardinality(Below(Ascending(S)[i])) = Cardinality(Below(r))
    BY <2>1, <1>8
  <2>3. Ascending(S)[i] = r
    BY <2>2, <1>5
  <2> QED BY <2>1, <2>3
<1>10. Ascending(S) \in [1..n -> S]
  BY <1>8 DEF Ascending
<1>11. ASSUME NEW i \in 1..n, NEW j \in 1..n, Ascending(S)[i] = Ascending(S)[j] PROVE i = j
  <2>1. i - 1 = j - 1
    BY <1>8, <1>11
  <2> QED BY <2>1
<1> QED BY <1>8, <1>9, <1>10, <1>11

(* A function from 1..n is a sequence.                                     *)
LEMMA FunctionIsSeq ==
  ASSUME NEW S, NEW n \in Nat, NEW f \in [1..n -> S]
  PROVE  f \in Seq(S) /\ Len(f) = n
  BY SeqDef, LenProperties

(* Listing the images of a finite set of numbers in ascending order.       *)
ListsImages(L, S, m, T) == L \in Seq(T) /\ IsInjective(L) /\ Range(L) = {m[r] : r \in S}

LEMMA InOrderFacts ==
  ASSUME NEW S, IsFiniteSet(S), S \subseteq Nat,
         NEW T, NEW m, \A r \in S : m[r] \in T,
         \A q, r \in S : m[q] = m[r] => q = r
  PROVE  ListsImages(InOrder(S, m), S, m, T)
<1> DEFINE n == Cardinality(S)
           A == Ascending(S)
           L == InOrder(S, m)
<1>1. n \in Nat
  BY FS_CardinalityType
<1>2. /\ A \in [1..n -> S]
      /\ \A i, j \in 1..n : A[i] = A[j] => i = j
      /\ \A r \in S : \E i \in 1..n : A[i] = r
  BY AscendingEnumerates
<1>3. L = [i \in 1..n |-> m[A[i]]]
  BY DEF InOrder
<1> HIDE DEF n, A, L
<1>4. /\ DOMAIN L = 1..n
      /\ \A i \in 1..n : A[i] \in S /\ L[i] = m[A[i]] /\ L[i] \in T
  <2>1. DOMAIN L = 1..n
    BY <1>3
  <2>2. \A i \in 1..n : A[i] \in S
    BY <1>2
  <2>3. \A i \in 1..n : L[i] = m[A[i]]
    BY <1>3
  <2> QED BY <2>1, <2>2, <2>3
<1>5. L \in Seq(T)
  <2>1. L = [i \in 1..n |-> L[i]]
    BY <1>3, <1>4
  <2>2. L \in [1..n -> T]
    BY <2>1, <1>4
  <2> QED BY <1>1, <2>2, FunctionIsSeq
<1>6. IsInjective(L)
  <2> SUFFICES ASSUME NEW i \in 1..n, NEW j \in 1..n, L[i] = L[j] PROVE i = j
    BY <1>4 DEF IsInjective
  <2>1. A[i] \in S /\ A[j] \in S /\ m[A[i]] = m[A[j]]
    BY <1>4
  <2> QED BY <2>1, <1>2
<1>7. Range(L) = {m[r] : r \in S}
  <2>1. \A i \in 1..n : L[i] \in {m[r] : r \in S}
    BY <1>4
  <2>2. ASSUME NEW r \in S PROVE \E i \in 1..n : L[i] = m[r]
    <3>1. PICK i \in 1..n : A[i] = r
      BY <1>2
    <3> QED BY <3>1, <1>4
  <2>3. Range(L) \subseteq {m[r] : r \in S}
    BY <2>1, <1>4 DEF Range
  <2>4. ASSUME NEW r \in S PROVE m[r] \in Range(L)
    BY <2>2, <1>4 DEF Range
  <2> QED BY <2>3, <2>4
<1> QED BY <1>5, <1>6, <1>7 DEF L, ListsImages

(* A number above all others comes last.                                   *)
LEMMA AscendingLast ==
  ASSUME NEW S, IsFiniteSet(S), S \subseteq Nat, NEW m \in Nat, \A r \in S : r < m
  PROVE  /\ Cardinality(S \cup {m}) = Cardinality(S) + 1 /\ Cardinality(S) \in Nat
         /\ \A i \in 1..Cardinality(S) : Ascending(S \cup {m})[i] = Ascending(S)[i]
         /\ Ascending(S \cup {m})[Cardinality(S) + 1] = m
<1> DEFINE n == Cardinality(S)
           T == S \cup {m}
           A == Ascending(S)
           B == Ascending(T)
<1>1. n \in Nat
  BY FS_CardinalityType
<1>2. m \notin S
  BY <1>1
<1>3. IsFiniteSet(T) /\ T \subseteq Nat /\ Cardinality(T) = n + 1
  BY <1>2, FS_AddElement
<1>4. /\ A \in [1..n -> S]
      /\ \A i \in 1..n : Cardinality({q \in S : q < A[i]}) = i - 1
  BY AscendingEnumerates
<1>5. /\ \A r \in T : \E i \in 1..n+1 : B[i] = r
      /\ \A i \in 1..n+1 : Cardinality({q \in T : q < B[i]}) = i - 1
  <2> HIDE DEF T, B, n
  <2>1. Cardinality(T) = n + 1 BY <1>3
  <2> QED BY <1>3, <2>1, AscendingEnumerates DEF B
<1>6. ASSUME NEW i \in 1..n+1, NEW r \in T, Cardinality({q \in T : q < r}) = i - 1
      PROVE  B[i] = r
  <2>1. PICK j \in 1..n+1 : B[j] = r
    BY <1>5
  <2>2. Cardinality({q \in T : q < r}) = j - 1
    BY <1>5, <2>1
  <2>3. i = j
    BY <1>1, <1>6, <2>2
  <2> QED BY <2>1, <2>3
<1>7. ASSUME NEW i \in 1..n PROVE B[i] = A[i]
  <2>1. A[i] \in S /\ A[i] \in Nat /\ A[i] < m
    BY <1>4
  <2>2. {q \in T : q < A[i]} = {q \in S : q < A[i]}
    BY <2>1
  <2>3. i \in 1..n+1 /\ A[i] \in T
    BY <1>1, <2>1
  <2> QED BY <1>4, <1>6, <2>2, <2>3
<1>8. B[n + 1] = m
  <2>1. {q \in T : q < m} = S
    <3>1. ~(m < m) /\ \A q \in S : q < m
      OBVIOUS
    <3> HIDE DEF n, B
    <3> QED BY <3>1
  <2>2. n + 1 \in 1..n+1 /\ m \in T /\ (n + 1) - 1 = n
    BY <1>1
  <2> QED BY <1>6, <2>1, <2>2
<1> QED BY <1>1, <1>3, <1>7, <1>8

(* Of a list that grows, the elements in a set are listed in that order.   *)
LEMMA AmongAppend ==
  ASSUME NEW T, NEW s \in Seq(T), NEW x \in T, NEW S
  PROVE  /\ Among(s, S) \in Seq(T)
         /\ Among(Append(s, x), S) = IF x \in S THEN Append(Among(s, S), x) ELSE Among(s, S)
<1> DEFINE m == Len(s)
           u == Append(s, x)
           J == {i \in 1..m : s[i] \in S}
           K == {i \in 1..m+1 : u[i] \in S}
           n == Cardinality(J)
<1>1. m \in Nat /\ \A i \in 1..m : s[i] \in T
  BY LenProperties, ElementOfSeq
<1>2. u \in Seq(T) /\ Len(u) = m + 1 /\ u[m+1] = x /\ \A i \in 1..m : u[i] = s[i]
  BY AppendProperties
<1>3. IsFiniteSet(J) /\ J \subseteq Nat /\ \A r \in J : r \in 1..m /\ r < m + 1
  <2>1. IsFiniteSet(1..m)
    BY <1>1, FS_Interval
  <2>2. J \in SUBSET (1..m)
    OBVIOUS
  <2>3. IsFiniteSet(J)
    BY <2>1, <2>2, FS_Subset
  <2>4. \A r \in 1..m : r \in Nat /\ r < m + 1
    BY <1>1
  <2> HIDE DEF m
  <2> QED BY <2>2, <2>3, <2>4
<1>4. Among(s, S) = [i \in 1..n |-> s[Ascending(J)[i]]]
  BY DEF Among, InOrder
<1>5. Among(u, S) = [i \in 1..Cardinality(K) |-> u[Ascending(K)[i]]]
  BY <1>2 DEF Among, InOrder
<1>6. \A i \in 1..m+1 : i \in 1..m \/ i = m + 1
  BY <1>1
<1>7. 1..m \subseteq 1..m+1 /\ m + 1 \in 1..m+1 /\ m + 1 \in Nat
  BY <1>1
<1>8. K = IF x \in S THEN J \cup {m + 1} ELSE J
  <2> HIDE DEF m, u
  <2> QED BY <1>2, <1>6, <1>7
<1> HIDE DEF m, u, J, K, n
<1>9. n \in Nat /\ Ascending(J) \in [1..n -> J]
  BY <1>3, FS_CardinalityType, AscendingEnumerates DEF n
<1>10. \A i \in 1..n : Ascending(J)[i] \in 1..m /\ s[Ascending(J)[i]] \in T
  BY <1>1, <1>3, <1>9
<1>11. Among(s, S) \in Seq(T) /\ Len(Among(s, S)) = n
  <2>1. Among(s, S) \in [1..n -> T]
    BY <1>4, <1>10
  <2> QED BY <1>9, <2>1, FunctionIsSeq
<1>12. CASE x \notin S
  <2>1. K = J /\ Cardinality(K) = n
    BY <1>8, <1>12 DEF n
  <2>2. \A i \in 1..n : u[Ascending(J)[i]] = s[Ascending(J)[i]]
    BY <1>2, <1>10
  <2>3. Among(u, S) = Among(s, S)
    BY <1>4, <1>5, <2>1, <2>2
  <2> QED BY <1>11, <1>12, <2>3 DEF u
<1>13. CASE x \in S
  <2> DEFINE v == Append(Among(s, S), x)
  <2>1. K = J \cup {m + 1}
    BY <1>8, <1>13
  <2>2. /\ Cardinality(K) = n + 1
        /\ \A i \in 1..n : Ascending(K)[i] = Ascending(J)[i]
        /\ Ascending(K)[n + 1] = m + 1
    BY <1>3, <1>7, <2>1, AscendingLast DEF n
  <2>3. v \in Seq(T) /\ Len(v) = n + 1 /\ v[n + 1] = x /\ \A i \in 1..n : v[i] = Among(s, S)[i]
    BY <1>11, AppendProperties
  <2>4. \A i \in 1..n+1 : i \in 1..n \/ i = n + 1
    BY <1>9
  <2>5. ASSUME NEW i \in 1..n+1 PROVE u[Ascending(K)[i]] = v[i]
    <3>1. CASE i \in 1..n
      <4>1. Ascending(K)[i] = Ascending(J)[i] /\ Ascending(J)[i] \in 1..m BY <1>10, <2>2, <3>1
      <4>2. u[Ascending(K)[i]] = s[Ascending(J)[i]] BY <1>2, <4>1
      <4>3. v[i] = s[Ascending(J)[i]] BY <1>4, <2>3, <3>1
      <4> QED BY <4>2, <4>3
    <3>2. CASE i = n + 1
      <4>1. v[i] = x BY <2>3, <3>2
      <4>2. u[Ascending(K)[i]] = x BY <1>2, <2>2, <3>2
      <4> QED BY <4>1, <4>2
    <3> QED BY <2>4, <3>1, <3>2
  <2>6. n + 1 \in Nat
    BY <1>9
  <2>7. Among(u, S) = [i \in 1..n+1 |-> u[Ascending(K)[i]]]
    BY <1>5, <2>2
  <2>8. Among(u, S) = v
    <3> HIDE DEF v
    <3>1. v = [i \in 1..n+1 |-> v[i]]
      BY <2>3, LenProperties
    <3>2. [i \in 1..n+1 |-> u[Ascending(K)[i]]] = [i \in 1..n+1 |-> v[i]]
      BY <2>5
    <3> QED BY <2>7, <3>1, <3>2
  <2> QED BY <1>11, <1>13, <2>8 DEF u
<1> QED BY <1>12, <1>13

(* Nothing is listed of the empty list.                                    *)
LEMMA AmongEmpty == \A S : Among(<<>>, S) = <<>>
<1> TAKE S
<1> DEFINE J == {i \in 1..0 : <<>>[i] \in S}
<1>1. Len(<<>>) = 0
  BY EmptySeq
<1>2. J = {}
  OBVIOUS
<1>3. Cardinality(J) = 0
  BY <1>2, FS_EmptySet
<1>4. Among(<<>>, S) = [i \in 1..0 |-> <<>>[Ascending(J)[i]]]
  BY <1>1, <1>3 DEF Among, InOrder
<1> QED BY <1>4

(* Concatenating two lists without repetition that have nothing in common. *)
LEMMA ConcatFacts ==
  ASSUME NEW T, NEW s \in Seq(T), NEW t \in Seq(T), IsInjective(s), IsInjective(t),
         Range(s) \cap Range(t) = {}
  PROVE  /\ s \o t \in Seq(T) /\ IsInjective(s \o t)
         /\ Range(s \o t) = Range(s) \cup Range(t)
<1> DEFINE u == s \o t
           p == Len(s)
           q == Len(t)
<1>1. p \in Nat /\ q \in Nat /\ DOMAIN s = 1..p /\ DOMAIN t = 1..q
  BY LenProperties
<1>2. /\ u \in Seq(T) /\ Len(u) = p + q
      /\ \A i \in 1..p+q : u[i] = IF i <= p THEN s[i] ELSE t[i - p]
  BY ConcatProperties
<1>3. DOMAIN u = 1..p+q
  BY <1>2, LenProperties
<1> HIDE DEF u, p, q
<1>4. \A i \in 1..p+q : i > p => i - p \in 1..q
  BY <1>1
<1>5. \A i \in 1..p : i \in 1..p+q /\ u[i] = s[i]
  BY <1>1, <1>2
<1>6. \A i \in 1..q : i + p \in 1..p+q /\ u[i + p] = t[i]
  <2> SUFFICES ASSUME NEW i \in 1..q PROVE i + p \in 1..p+q /\ u[i + p] = t[i]
    OBVIOUS
  <2>1. i + p \in 1..p+q /\ ~(i + p <= p) /\ (i + p) - p = i
    BY <1>1
  <2> QED BY <2>1, <1>2
<1>7. ASSUME NEW i \in 1..p+q, NEW j \in 1..p+q, u[i] = u[j] PROVE i = j
  <2>1. CASE i <= p /\ j <= p
    <3>1. i \in 1..p /\ j \in 1..p /\ s[i] = s[j]
      BY <2>1, <1>1, <1>2, <1>7
    <3> QED BY <3>1, <1>1 DEF IsInjective
  <2>2. CASE i > p /\ j > p
    <3>1. i - p \in 1..q /\ j - p \in 1..q /\ t[i - p] = t[j - p]
      BY <2>2, <1>1, <1>2, <1>4, <1>7
    <3>2. i - p = j - p
      BY <3>1, <1>1 DEF IsInjective
    <3> QED BY <3>2, <1>1
  <2>3. CASE i <= p /\ j > p
    <3>1. i \in 1..p /\ j - p \in 1..q /\ s[i] = t[j - p]
      BY <2>3, <1>1, <1>2, <1>4, <1>7
    <3> QED BY <3>1, <1>1 DEF Range
  <2>4. CASE i > p /\ j <= p
    <3>1. j \in 1..p /\ i - p \in 1..q /\ s[j] = t[i - p]
      BY <2>4, <1>1, <1>2, <1>4, <1>7
    <3> QED BY <3>1, <1>1 DEF Range
  <2> QED BY <2>1, <2>2, <2>3, <2>4, <1>1
<1>8. IsInjective(u)
  BY <1>3, <1>7 DEF IsInjective
<1>9. Range(u) \subseteq Range(s) \cup Range(t)
  <2> SUFFICES ASSUME NEW i \in 1..p+q PROVE u[i] \in Range(s) \cup Range(t)
    BY <1>3 DEF Range
  <2>0. (\A k \in 1..p : s[k] \in Range(s)) /\ (\A k \in 1..q : t[k] \in Range(t))
    BY <1>1 DEF Range
  <2>1. CASE i <= p
    <3>1. i \in 1..p /\ u[i] = s[i]
      BY <2>1, <1>1, <1>2
    <3> QED BY <3>1, <2>0
  <2>2. CASE i > p
    <3>1. i - p \in 1..q /\ u[i] = t[i - p]
      BY <2>2, <1>1, <1>2, <1>4
    <3> QED BY <3>1, <2>0
  <2> QED BY <2>1, <2>2, <1>1
<1>10. Range(s) \cup Range(t) \subseteq Range(u)
  <2>1. ASSUME NEW i \in 1..p PROVE s[i] \in Range(u)
    BY <1>3, <1>5 DEF Range
  <2>2. ASSUME NEW i \in 1..q PROVE t[i] \in Range(u)
    BY <1>3, <1>6 DEF Range
  <2>3. Range(s) = {s[i] : i \in 1..p} /\ Range(t) = {t[i] : i \in 1..q}
    BY <1>1 DEF Range
  <2> QED BY <2>1, <2>2, <2>3
<1> QED BY <1>2, <1>8, <1>9, <1>10 DEF u

(* A list without repetition has as many elements as it is long.           *)
LEMMA InjectiveLength ==
  ASSUME NEW T, NEW s \in Seq(T), IsInjective(s)
  PROVE  IsFiniteSet(Range(s)) /\ Cardinality(Range(s)) = Len(s)
<1>1. Len(s) \in Nat /\ DOMAIN s = 1..Len(s)
  BY LenProperties
<1>2. IsFiniteSet(1..Len(s)) /\ Cardinality(1..Len(s)) = Len(s)
  BY <1>1, FS_Interval
<1>3. s \in Bijection(1..Len(s), Range(s))
  <2>1. s \in [1..Len(s) -> Range(s)]
    <3>1. \A i \in 1..Len(s) : s[i] \in Range(s)
      BY <1>1 DEF Range
    <3>2. s = [i \in 1..Len(s) |-> s[i]]
      BY SeqDef, <1>1
    <3> QED BY <3>1, <3>2
  <2>2. \A i, j \in 1..Len(s) : s[i] = s[j] => i = j
    BY <1>1 DEF IsInjective
  <2>3. \A x \in Range(s) : \E i \in 1..Len(s) : s[i] = x
    BY <1>1 DEF Range
  <2> QED BY <2>1, <2>2, <2>3, Fun_IsBij
<1> QED BY <1>2, <1>3, FS_Bijection DEF ExistsBijection

(* The elements of a list without repetition that are in a set: a list of  *)
(* those elements, without repetition.                                     *)
LEMMA AmongFacts ==
  ASSUME NEW T, NEW s \in Seq(T), IsInjective(s), NEW S
  PROVE  /\ Among(s, S) \in Seq(T) /\ IsInjective(Among(s, S))
         /\ Range(Among(s, S)) = Range(s) \cap S
<1> DEFINE J == {i \in 1..Len(s) : s[i] \in S}
<1>1. Len(s) \in Nat /\ DOMAIN s = 1..Len(s) /\ \A i \in 1..Len(s) : s[i] \in T
  BY LenProperties, ElementOfSeq
<1>2. IsFiniteSet(J) /\ J \subseteq Nat
  <2>1. IsFiniteSet(1..Len(s))
    BY <1>1, FS_Interval
  <2>2. J \in SUBSET (1..Len(s))
    OBVIOUS
  <2> QED BY <2>1, <2>2, FS_Subset, <1>1
<1>3. \A i, j \in J : s[i] = s[j] => i = j
  BY <1>1 DEF IsInjective
<1>4. \A i \in J : s[i] \in T
  BY <1>1
<1>5. Range(s) \cap S = {s[i] : i \in J}
  BY <1>1 DEF Range
<1> HIDE DEF J
<1>6. ListsImages(InOrder(J, s), J, s, T)
  BY <1>2, <1>3, <1>4, InOrderFacts
<1>7. Among(s, S) = InOrder(J, s)
  BY DEF Among, J
<1> QED BY <1>5, <1>6, <1>7 DEF ListsImages

(* Taking the first element off a list without repetition.                 *)
LEMMA TailFacts ==
  ASSUME NEW T, NEW s \in Seq(T), IsInjective(s), s # <<>>
  PROVE  /\ Head(s) \in Range(s) /\ Head(s) \in T
         /\ Tail(s) \in Seq(T) /\ IsInjective(Tail(s))
         /\ Range(Tail(s)) = Range(s) \ {Head(s)}
<1> DEFINE n == Len(s)
           t == Tail(s)
<1>1. n \in Nat \ {0} /\ DOMAIN s = 1..n /\ Head(s) = s[1]
  BY LenProperties, EmptySeq
<1>2. t \in Seq(T) /\ Len(t) = n - 1 /\ \A i \in 1..n-1 : t[i] = s[i+1]
  BY HeadTailProperties
<1>3. DOMAIN t = 1..n-1
  BY <1>2, LenProperties
<1> HIDE DEF n, t
<1>4. \A i, j \in 1..n : s[i] = s[j] => i = j
  BY <1>1 DEF IsInjective
<1>5. \A i \in 1..n-1 : i + 1 \in 1..n /\ i + 1 # 1
  BY <1>1
<1>6. IsInjective(t)
  <2> SUFFICES ASSUME NEW i \in 1..n-1, NEW j \in 1..n-1, t[i] = t[j] PROVE i = j
    BY <1>3 DEF IsInjective
  <2>1. s[i+1] = s[j+1]
    BY <1>2
  <2>2. i + 1 = j + 1
    BY <2>1, <1>4, <1>5
  <2> QED BY <2>2
<1>7. ASSUME NEW x \in Range(t) PROVE x \in Range(s) /\ x # Head(s)
  <2>1. PICK i \in 1..n-1 : x = t[i]
    BY <1>3 DEF Range
  <2>2. x = s[i+1] /\ i + 1 \in 1..n /\ i + 1 # 1 /\ 1 \in 1..n
    BY <2>1, <1>2, <1>5, <1>1
  <2> QED BY <2>2, <1>1, <1>4 DEF Range
<1>8. ASSUME NEW x \in Range(s), x # Head(s) PROVE x \in Range(t)
  <2>1. PICK i \in 1..n : x = s[i]
    BY <1>1 DEF Range
  <2>2. i - 1 \in 1..n-1 /\ (i - 1) + 1 = i
    BY <2>1, <1>8, <1>1
  <2>3. x = t[i-1]
    BY <2>1, <2>2, <1>2
  <2> QED BY <2>2, <2>3, <1>3 DEF Range
<1>9. Range(t) = Range(s) \ {Head(s)}
  BY <1>7, <1>8
<1>10. Head(s) \in Range(s) /\ Head(s) \in T
  BY <1>1, HeadTailProperties DEF Range
<1> QED BY <1>2, <1>6, <1>9, <1>10 DEF t

(* Appending a new element to a list without repetition.                   *)
LEMMA AppendFacts ==
  ASSUME NEW T, NEW s \in Seq(T), IsInjective(s), NEW x \in T, x \notin Range(s)
  PROVE  /\ Append(s, x) \in Seq(T) /\ IsInjective(Append(s, x))
         /\ Range(Append(s, x)) = Range(s) \cup {x}
<1> DEFINE n == Len(s)
           t == Append(s, x)
<1>1. n \in Nat /\ DOMAIN s = 1..n
  BY LenProperties
<1>2. t \in Seq(T) /\ Len(t) = n + 1 /\ t[n+1] = x /\ \A i \in 1..n : t[i] = s[i]
  BY AppendProperties
<1>3. DOMAIN t = 1..n+1
  BY <1>2, LenProperties
<1> HIDE DEF n, t
<1>4. \A i \in 1..n+1 : i \in 1..n \/ i = n + 1
  BY <1>1
<1>5. 1..n \subseteq 1..n+1 /\ n + 1 \in 1..n+1
  BY <1>1
<1>6. \A i \in 1..n : s[i] # x
  BY <1>1 DEF Range
<1>7. IsInjective(t)
  <2>1. \A i, j \in 1..n : s[i] = s[j] => i = j
    BY <1>1 DEF IsInjective
  <2>2. \A i, j \in 1..n+1 : t[i] = t[j] => i = j
    BY <2>1, <1>2, <1>4, <1>6
  <2> QED BY <2>2, <1>3 DEF IsInjective
<1>8. Range(t) = Range(s) \cup {x}
  BY <1>1, <1>2, <1>3, <1>4, <1>5 DEF Range
<1> QED BY <1>2, <1>7, <1>8 DEF t

(* Two sets with nothing in common have together as many elements as each  *)
(* has.                                                                    *)
LEMMA DisjointUnion ==
  ASSUME NEW A, NEW B, IsFiniteSet(A), IsFiniteSet(B), A \cap B = {}
  PROVE  IsFiniteSet(A \cup B) /\ Cardinality(A \cup B) = Cardinality(A) + Cardinality(B)
<1>1. Cardinality(A) \in Nat /\ Cardinality(B) \in Nat
  BY FS_CardinalityType
<1>2. Cardinality(A \cap B) = 0
  BY FS_EmptySet
<1>3. /\ IsFiniteSet(A \cup B)
      /\ Cardinality(A \cup B) = Cardinality(A) + Cardinality(B) - Cardinality(A \cap B)
  BY FS_Union
<1> QED BY <1>1, <1>2, <1>3

-----------------------------------------------------------------------------
(* Recursive definitions over a set whose elements have a rank.            *)

(* What holds of an element when it holds of all below it holds of all.    *)
LEMMA RankInduction ==
  ASSUME NEW D, NEW h \in [D -> Nat], NEW S,
         \A x \in D : (\A y \in D : h[y] < h[x] => y \in S) => x \in S
  PROVE  D \subseteq S
<1> DEFINE Ranks == {h[x] : x \in D \ S}
<1>1. ASSUME D \ S # {} PROVE FALSE
  <2>1. Ranks \in SUBSET Nat /\ Ranks # {}
    BY <1>1
  <2>2. PICK r \in Ranks : \A q \in Ranks : r <= q
    BY <2>1, LeastElement
  <2>3. PICK x \in D \ S : h[x] = r
    BY <2>2
  <2>4. ASSUME NEW y \in D, h[y] < h[x], y \notin S PROVE FALSE
    <3>1. h[y] \in Ranks
      BY <2>4
    <3>2. r <= h[y] /\ h[y] \in Nat /\ h[x] \in Nat
      BY <2>2, <2>3, <3>1
    <3> QED BY <2>3, <2>4, <3>2
  <2> QED BY <2>3, <2>4
<1> QED BY <1>1

(* A definition by recursion on the rank h has a solution.  G is its       *)
(* right-hand side, as a function of the element and the whole function;   *)
(* it looks at the latter below the element only.                          *)
Descends(D, R, h, G) ==
  /\ R # {} /\ h \in [D -> Nat] /\ G \in [D \X [D -> R] -> R]
  /\ \A x \in D : \A U, V \in [D -> R] :
       (\A y \in D : h[y] < h[x] => U[y] = V[y]) => G[<<x, U>>] = G[<<x, V>>]

Solves(V, D, R, G) == V \in [D -> R] /\ \A x \in D : V[x] = G[<<x, V>>]

LEMMA Recursion ==
  ASSUME NEW D, NEW R, NEW h, NEW G, Descends(D, R, h, G)
  PROVE  \E V : Solves(V, D, R, G)
<1>0. /\ h \in [D -> Nat] /\ G \in [D \X [D -> R] -> R]
      /\ \A x \in D : \A U, V \in [D -> R] :
           (\A y \in D : h[y] < h[x] => U[y] = V[y]) => G[<<x, U>>] = G[<<x, V>>]
  BY DEF Descends
<1> PICK base \in R : TRUE
  BY DEF Descends
<1> DEFINE Below(V, n) == \A x \in D : h[x] < n => V[x] = G[<<x, V>>]
           Solved == {n \in Nat : \E V \in [D -> R] : Below(V, n)}
(* Up to any rank there is one. *)
<1>1. ASSUME Nat \ Solved # {} PROVE FALSE
  <2>1. PICK r \in Nat \ Solved : \A q \in Nat \ Solved : r <= q
    BY <1>1, LeastElement
  <2>2. r # 0
    <3> DEFINE Z == [x \in D |-> base]
    <3>1. Z \in [D -> R] /\ \A x \in D : ~(h[x] < 0)
      BY <1>0
    <3> HIDE DEF Z
    <3>2. Below(Z, 0)
      BY <3>1
    <3>3. 0 \in Solved
      BY <3>1, <3>2
    <3> QED BY <2>1, <3>3
  <2>3. r - 1 \in Nat /\ r \in Nat /\ ~(r <= r - 1)
    BY <2>1, <2>2
  <2>4. r - 1 \in Solved
    BY <2>1, <2>3
  <2>5. PICK V \in [D -> R] : Below(V, r - 1)
    BY <2>4
  <2> DEFINE T == [x \in D |-> IF h[x] < r - 1 THEN V[x] ELSE G[<<x, V>>]]
  <2>6. T \in [D -> R]
    BY <1>0
  <2>7. ASSUME NEW x \in D, h[x] < r PROVE T[x] = G[<<x, T>>]
    <3>1. h[x] \in Nat /\ \A y \in D : h[y] \in Nat
      BY <1>0
    <3>2. \A y \in D : h[y] < h[x] => h[y] < r - 1
      BY <2>3, <2>7, <3>1
    <3>3. \A y \in D : h[y] < h[x] => V[y] = T[y]
      BY <3>2
    <3>4. G[<<x, V>>] = G[<<x, T>>]
      <4>1. V \in [D -> R] /\ T \in [D -> R] /\ \A y \in D : h[y] < h[x] => V[y] = T[y]
        BY <2>5, <2>6, <3>3
      <4> HIDE DEF T
      <4> QED BY <1>0, <4>1
    <3>5. T[x] = G[<<x, V>>]
      BY <2>5
    <3> QED BY <3>4, <3>5
  <2>8. Below(T, r)
    BY <2>7
  <2> QED BY <2>1, <2>3, <2>6, <2>8
<1>2. \A n \in Nat : \E V \in [D -> R] : Below(V, n)
  BY <1>1
<1> DEFINE A(n) == CHOOSE V : V \in [D -> R] /\ Below(V, n)
<1>3. \A n \in Nat : A(n) \in [D -> R] /\ Below(A(n), n)
  BY <1>2
<1> HIDE DEF A
(* Two of them agree where both are solutions. *)
<1>4. ASSUME NEW m \in Nat, NEW n \in Nat
      PROVE  \A x \in D : h[x] < m /\ h[x] < n => A(m)[x] = A(n)[x]
  <2> DEFINE S == {x \in D : h[x] < m /\ h[x] < n => A(m)[x] = A(n)[x]}
  <2>1. ASSUME NEW x \in D, \A y \in D : h[y] < h[x] => y \in S, h[x] < m, h[x] < n
        PROVE  A(m)[x] = A(n)[x]
    <3>1. h[x] \in Nat /\ \A y \in D : h[y] \in Nat
      BY <1>0
    <3>2. \A y \in D : h[y] < h[x] => h[y] < m /\ h[y] < n
      BY <2>1, <3>1
    <3>3. \A y \in D : h[y] < h[x] => A(m)[y] = A(n)[y]
      BY <2>1, <3>2
    <3>4. A(m) \in [D -> R] /\ A(n) \in [D -> R]
      BY <1>3
    <3>5. G[<<x, A(m)>>] = G[<<x, A(n)>>]
      BY <1>0, <3>3, <3>4
    <3>6. A(m)[x] = G[<<x, A(m)>>] /\ A(n)[x] = G[<<x, A(n)>>]
      BY <1>3, <2>1
    <3> QED BY <3>5, <3>6
  <2>2. \A x \in D : (\A y \in D : h[y] < h[x] => y \in S) => x \in S
    BY <2>1
  <2> HIDE DEF S
  <2>3. D \subseteq S
    BY <1>0, <2>2, RankInduction
  <2> QED BY <2>3 DEF S
<1> DEFINE W == [x \in D |-> A(h[x] + 1)[x]]
<1>5. \A x \in D : h[x] \in Nat /\ h[x] + 1 \in Nat /\ h[x] < h[x] + 1
  BY <1>0
<1>6. W \in [D -> R]
  BY <1>3, <1>5
<1>7. ASSUME NEW x \in D PROVE W[x] = G[<<x, W>>]
  <2>1. ASSUME NEW y \in D, h[y] < h[x] PROVE W[y] = A(h[x] + 1)[y]
    <3>1. h[y] < h[x] + 1
      BY <1>5, <2>1
    <3> QED BY <1>4, <1>5, <3>1
  <2>2. A(h[x] + 1) \in [D -> R] /\ A(h[x] + 1)[x] = G[<<x, A(h[x] + 1)>>]
    BY <1>3, <1>5
  <2>3. G[<<x, A(h[x] + 1)>>] = G[<<x, W>>]
    BY <1>0, <1>6, <2>1, <2>2
  <2> QED BY <2>2, <2>3
<1> QED BY <1>6, <1>7 DEF Solves

-----------------------------------------------------------------------------
(* Powers of two, by their definition.                                     *)
LEMMA Pow2Facts ==
  /\ Pow2[0] = 1 /\ \A n \in Nat : Pow2[n] \in Nat \ {0} /\ Pow2[n+1] = 2 * Pow2[n]
<1> DEFINE Right(n, P) == IF n = 0 THEN 1 ELSE 2 * P[n-1]
           Pos == Nat \ {0}
           G == [p \in Nat \X [Nat -> Pos] |-> Right(p[1], p[2])]
           h == [n \in Nat |-> n]
           IsTable(P) == P = [n \in Nat |-> Right(n, P)]
           T == CHOOSE P : IsTable(P)
<1>1. \A n \in Nat : \A P \in [Nat -> Pos] : Right(n, P) \in Pos
  <2> SUFFICES ASSUME NEW n \in Nat, NEW P \in [Nat -> Pos] PROVE Right(n, P) \in Pos
    OBVIOUS
  <2>1. CASE n = 0 BY <2>1
  <2>2. CASE n # 0
    <3>1. n - 1 \in Nat BY <2>2
    <3>2. P[n-1] \in Pos BY <3>1
    <3> QED BY <2>2, <3>2
  <2> QED BY <2>1, <2>2
<1>2. \A n \in Nat : \A U, V \in [Nat -> Pos] :
        (\A m \in Nat : h[m] < h[n] => U[m] = V[m]) => G[<<n, U>>] = G[<<n, V>>]
  <2> SUFFICES ASSUME NEW n \in Nat, NEW U \in [Nat -> Pos], NEW V \in [Nat -> Pos],
                      \A m \in Nat : h[m] < h[n] => U[m] = V[m]
               PROVE  G[<<n, U>>] = G[<<n, V>>]
    OBVIOUS
  <2>1. n # 0 => n - 1 \in Nat /\ h[n-1] < h[n]
    OBVIOUS
  <2>2. Right(n, U) = Right(n, V)
    BY <2>1
  <2> QED BY <2>2
<1>3. G \in [Nat \X [Nat -> Pos] -> Pos]
  BY <1>1
<1>4. \A n \in Nat : \A P \in [Nat -> Pos] : G[<<n, P>>] = Right(n, P)
  OBVIOUS
<1>5. h \in [Nat -> Nat] /\ Pos # {}
  OBVIOUS
<1> HIDE DEF G, h
<1>6. Descends(Nat, Pos, h, G)
  BY <1>2, <1>3, <1>5 DEF Descends
<1>7. PICK P : Solves(P, Nat, Pos, G)
  BY <1>6, Recursion
<1>8. IsTable(P)
  BY <1>4, <1>7 DEF Solves
<1>9. IsTable(T)
  BY <1>8
<1>10. Pow2 = T
  BY DEF Pow2
<1> HIDE DEF T
<1>11. \A n \in Nat : Pow2[n] = Right(n, Pow2)
  BY <1>9, <1>10
<1>12. Pow2[0] = 1 /\ \A n \in Nat : Pow2[n+1] = 2 * Pow2[n]
  <2>1. Pow2[0] = 1 BY <1>11
  <2>2. ASSUME NEW n \in Nat PROVE Pow2[n+1] = 2 * Pow2[n]
    <3>1. n + 1 \in Nat /\ n + 1 # 0 /\ (n + 1) - 1 = n OBVIOUS
    <3> QED BY <1>11, <3>1
  <2> QED BY <2>1, <2>2
<1> DEFINE S == {n \in Nat : Pow2[n] \in Pos}
<1>13. \A n \in Nat : (\A m \in Nat : h[m] < h[n] => m \in S) => n \in S
  <2> SUFFICES ASSUME NEW n \in Nat, \A m \in Nat : h[m] < h[n] => m \in S
               PROVE  Pow2[n] \in Pos
    OBVIOUS
  <2>1. CASE n = 0 BY <1>12, <2>1
  <2>2. CASE n # 0
    <3>1. n - 1 \in Nat /\ h[n-1] < h[n] /\ (n - 1) + 1 = n BY <2>2 DEF h
    <3>2. Pow2[n-1] \in Pos BY <2>2, <3>1
    <3>3. Pow2[n] = 2 * Pow2[n-1] BY <1>12, <3>1
    <3> QED BY <3>2, <3>3
  <2> QED BY <2>1, <2>2
<1>14. Nat \subseteq S
  <2> HIDE DEF S
  <2> QED BY <1>5, <1>13, RankInduction
<1> QED BY <1>12, <1>14

(* A wider type has more values.                                           *)
LEMMA Pow2Grows == \A m, n \in Nat : m <= n => Pow2[m] <= Pow2[n]
<1> SUFFICES ASSUME NEW m \in Nat PROVE \A n \in Nat : m <= n => Pow2[m] <= Pow2[n]
  OBVIOUS
<1> DEFINE S == {n \in Nat : m <= n => Pow2[m] <= Pow2[n]}
           h == [n \in Nat |-> n]
<1>1. h \in [Nat -> Nat]
  OBVIOUS
<1>2. \A n \in Nat : (\A k \in Nat : h[k] < h[n] => k \in S) => n \in S
  <2> SUFFICES ASSUME NEW n \in Nat, \A k \in Nat : h[k] < h[n] => k \in S, m <= n
               PROVE  Pow2[m] <= Pow2[n]
    OBVIOUS
  <2>1. Pow2[m] \in Nat BY Pow2Facts
  <2>2. CASE m = n BY <2>1, <2>2
  <2>3. CASE m # n
    <3>1. n - 1 \in Nat /\ m <= n - 1 /\ h[n-1] < h[n] /\ (n - 1) + 1 = n BY <2>3
    <3>2. Pow2[m] <= Pow2[n-1] BY <3>1
    <3>3. Pow2[n] = 2 * Pow2[n-1] /\ Pow2[n-1] \in Nat BY <3>1, Pow2Facts
    <3> QED BY <2>1, <3>2, <3>3
  <2> QED BY <2>2, <2>3
<1>3. Nat \subseteq S
  <2> HIDE DEF S, h
  <2> QED BY <1>1, <1>2, RankInduction
<1> QED BY <1>3

(* Powers of two multiply as their exponents add.                          *)
LEMMA Pow2Product == \A m, n \in Nat : Pow2[m+n] = Pow2[m] * Pow2[n]
<1> SUFFICES ASSUME NEW m \in Nat PROVE \A n \in Nat : Pow2[m+n] = Pow2[m] * Pow2[n]
  OBVIOUS
<1> DEFINE S == {n \in Nat : Pow2[m+n] = Pow2[m] * Pow2[n]}
           h == [n \in Nat |-> n]
<1>1. h \in [Nat -> Nat]
  OBVIOUS
<1>2. \A n \in Nat : (\A k \in Nat : h[k] < h[n] => k \in S) => n \in S
  <2> SUFFICES ASSUME NEW n \in Nat, \A k \in Nat : h[k] < h[n] => k \in S
               PROVE  Pow2[m+n] = Pow2[m] * Pow2[n]
    OBVIOUS
  <2>1. CASE n = 0
    <3>1. m + 0 = m /\ Pow2[m] \in Nat /\ Pow2[0] = 1
      BY Pow2Facts
    <3> QED BY <2>1, <3>1
  <2>2. CASE n # 0
    <3>1. n - 1 \in Nat /\ h[n-1] < h[n] /\ (n - 1) + 1 = n /\ m + (n - 1) \in Nat /\ (m + (n - 1)) + 1 = m + n
      BY <2>2
    <3>2. Pow2[m+(n-1)] = Pow2[m] * Pow2[n-1]
      BY <3>1
    <3>3. Pow2[n] = 2 * Pow2[n-1] /\ Pow2[m+n] = 2 * Pow2[m+(n-1)] /\ Pow2[n-1] \in Nat /\ Pow2[m] \in Nat
      BY <3>1, Pow2Facts
    <3> DEFINE p == Pow2[m]
               q == Pow2[n-1]
    <3>4. 2 * (p * q) = p * (2 * q)
      <4> HIDE DEF p, q
      <4>1. p \in Nat /\ q \in Nat
        BY <3>3 DEF p, q
      <4> QED BY <4>1
    <3> QED BY <3>2, <3>3, <3>4
  <2> QED BY <2>1, <2>2
<1>3. Nat \subseteq S
  <2> HIDE DEF S, h
  <2> QED BY <1>1, <1>2, RankInduction
<1> QED BY <1>3

(* Adding a multiple of the divisor adds to the quotient.                  *)
LEMMA DivideSum ==
  ASSUME NEW n \in Int, NEW p \in Nat \ {0}, NEW k \in Int
  PROVE  (n + p * k) \div p = (n \div p) + k
<1> DEFINE q == n \div p
           r == n % p
           m == n + p * k
           s == m \div p
           t == m % p
<1>0. p * k \in Int /\ m \in Int
  OBVIOUS
<1>1. q \in Int /\ r \in 0..p-1 /\ n = p * q + r
  OBVIOUS
<1>2. s \in Int /\ t \in 0..p-1 /\ m = p * s + t
  <2> HIDE DEF m
  <2> QED BY <1>0
<1>3. m = n + p * k
  OBVIOUS
<1> HIDE DEF q, r, s, t, m
<1>4. p * (s - (q + k)) = r - t
  <2>1. p * s + t = (p * q + r) + p * k
    BY <1>1, <1>2, <1>3
  <2>2. p * (s - (q + k)) = p * s - p * q - p * k
    BY <1>1, <1>2
  <2>3. p * s \in Int /\ p * q \in Int
    BY <1>1, <1>2
  <2> DEFINE a == p * s
             b == p * q
             c == p * k
  <2>4. a \in Int /\ b \in Int /\ c \in Int /\ a + t = (b + r) + c
    BY <2>1, <2>3, <1>0
  <2> HIDE DEF a, b, c
  <2>5. a - b - c = r - t
    BY <1>1, <1>2, <2>4
  <2> QED BY <2>2, <2>5 DEF a, b, c
<1>5. -p < r - t /\ r - t < p
  BY <1>1, <1>2
<1> DEFINE d == s - (q + k)
<1>6. d \in Int
  BY <1>1, <1>2
<1>7. p * d = r - t
  BY <1>4
<1> HIDE DEF d
<1>8. d = 0
  <2>1. d >= 1 => p * d >= p
    BY <1>6
  <2>2. d <= -1 => p * d <= -p
    BY <1>6
  <2> QED BY <1>1, <1>2, <1>5, <1>6, <1>7, <2>1, <2>2
<1> QED BY <1>1, <1>2, <1>8 DEF d, q, s, m

(* What mask_to returns is a value of the type, and a value is unchanged.  *)
LEMMA MaskFacts ==
  /\ \A w \in Nat : Values(w) \subseteq Nat /\ 0 \in Values(w)
  /\ \A w \in Nat : \A n \in Int : mask(n, w) \in Values(w)
  /\ \A w \in Nat : \A n \in Values(w) : mask(n, w) = n /\ signed(n, w) \in Int
  /\ \A w \in Nat \ {0} : 1 \in Values(w) /\ Pow2[w] - 1 \in Values(w)
  /\ \A v, w \in Nat : v <= w => Values(v) \subseteq Values(w)
<1>p. \A n \in Nat : Pow2[n] \in Nat \ {0}
  BY Pow2Facts
<1>1. \A w \in Nat : Values(w) \subseteq Nat /\ 0 \in Values(w)
  BY <1>p DEF Values
<1>2. ASSUME NEW w \in Nat, NEW n \in Int PROVE mask(n, w) \in Values(w)
  <2> DEFINE p == Pow2[w]
  <2>1. p \in Nat \ {0} BY <1>p
  <2>2. mask(n, w) = n % p /\ Values(w) = 0..p-1 BY DEF mask, Values
  <2> HIDE DEF p
  <2>3. n % p \in 0..p-1 BY <2>1
  <2> QED BY <2>2, <2>3
<1>3. ASSUME NEW w \in Nat, NEW n \in Values(w) PROVE mask(n, w) = n /\ signed(n, w) \in Int
  <2> DEFINE p == Pow2[w]
  <2>1. p \in Nat \ {0} BY <1>p
  <2>2. mask(n, w) = n % p /\ n \in 0..p-1 BY DEF mask, Values
  <2>3. signed(n, w) \in {n - p, n} BY DEF signed
  <2> HIDE DEF p
  <2>4. n % p = n BY <2>1, <2>2
  <2> QED BY <2>1, <2>2, <2>3, <2>4
<1>4. ASSUME NEW w \in Nat \ {0} PROVE 1 \in Values(w) /\ Pow2[w] - 1 \in Values(w)
  <2>1. w - 1 \in Nat /\ (w - 1) + 1 = w OBVIOUS
  <2>2. Pow2[w] = 2 * Pow2[w-1] /\ Pow2[w-1] \in Nat \ {0} BY <2>1, Pow2Facts
  <2> QED BY <2>2 DEF Values
<1>5. ASSUME NEW v \in Nat, NEW w \in Nat, v <= w PROVE Values(v) \subseteq Values(w)
  <2>1. Pow2[v] <= Pow2[w] /\ Pow2[v] \in Nat /\ Pow2[w] \in Nat BY <1>5, <1>p, Pow2Grows
  <2> QED BY <2>1 DEF Values
<1> QED BY <1>1, <1>2, <1>3, <1>4, <1>5

-----------------------------------------------------------------------------
(* Lists of lists, images of lists and selections.                         *)

(* What passes from each number to the next holds of all from the first on. *)
LEMMA OneByOne ==
  ASSUME NEW n \in Nat, NEW Good, \A i \in 1..n : (i # 1 => i - 1 \in Good) => i \in Good
  PROVE  1..n \subseteq Good
<1> DEFINE D == 1..n
           h == [i \in D |-> i]
<1>1. h \in [D -> Nat] /\ \A i \in D : h[i] = i
  OBVIOUS
<1>2. \A i \in D : i # 1 => i - 1 \in D /\ i - 1 < i
  OBVIOUS
<1> HIDE DEF h
<1>3. \A x \in D : (\A y \in D : h[y] < h[x] => y \in Good) => x \in Good
  BY <1>1, <1>2
<1> HIDE DEF D
<1>4. D \subseteq Good
  BY <1>1, <1>3, RankInduction, Zenon
<1> QED BY <1>4 DEF D

(* Lists joined one after the other: the recursive function of FlattenSeq. *)
JoinWith(ss, i, L) == IF i = 1 THEN ss[i] ELSE L[i-1] \o ss[i]
LEMMA FlattenMeans ==
  ASSUME NEW T, NEW ss \in Seq(Seq(T)), Len(ss) # 0
  PROVE  \E L \in [1..Len(ss) -> Seq(T)] :
           /\ \A i \in 1..Len(ss) : L[i] = JoinWith(ss, i, L)
           /\ FlattenSeq(ss) = L[Len(ss)]
<1> DEFINE n == Len(ss)
           D == 1..n
           R == Seq(T)
           F == [D -> R]
           h == [i \in D |-> i]
           G == [p \in D \X F |-> JoinWith(ss, p[1], p[2])]
           IsTable(V) == V = [i \in D |-> JoinWith(ss, i, V)]
           L == CHOOSE V : IsTable(V)
<1>1. n \in Nat \ {0} /\ \A i \in D : ss[i] \in R
  BY LenProperties, ElementOfSeq
<1>2. ASSUME NEW i \in D, NEW V, i # 1 => V[i-1] \in R
      PROVE  JoinWith(ss, i, V) \in R
  BY <1>1, <1>2, ConcatProperties DEF JoinWith
<1>3. \A i \in D : i # 1 => i - 1 \in D /\ i - 1 < i
  BY <1>1
<1>4. G \in [D \X F -> R]
  BY <1>2, <1>3
<1>5. \A i \in D : \A U, V \in F : (\A j \in D : h[j] < h[i] => U[j] = V[j]) => G[<<i, U>>] = G[<<i, V>>]
  BY <1>3 DEF JoinWith
<1>6. \A i \in D : \A V \in F : G[<<i, V>>] = JoinWith(ss, i, V)
  OBVIOUS
<1>7. h \in [D -> Nat] /\ R # {}
  BY <1>1, EmptySeq
<1>8. FlattenSeq(ss) = L[n]
  BY DEF FlattenSeq, JoinWith
<1> HIDE DEF G, h
<1>9. Descends(D, R, h, G)
  BY <1>4, <1>5, <1>7 DEF Descends
<1>10. PICK V : Solves(V, D, R, G)
  BY <1>9, Recursion
<1>11. IsTable(V)
  BY <1>6, <1>10 DEF Solves
<1>12. IsTable(L)
  BY <1>11
<1> HIDE DEF L
<1>13. \A i \in D : L[i] = JoinWith(ss, i, L)
  BY <1>12
<1>14. \A i \in D : L[i] \in R
  <2> DEFINE Good == {i \in D : L[i] \in R}
  <2>1. ASSUME NEW i \in D, i # 1 => i - 1 \in Good PROVE i \in Good
    <3>1. i # 1 => L[i-1] \in R
      BY <2>1
    <3>2. JoinWith(ss, i, L) \in R
      BY <1>2, <3>1
    <3> QED BY <1>13, <3>2
  <2> HIDE DEF Good
  <2>2. D \subseteq Good
    BY <1>1, <2>1, OneByOne
  <2> QED BY <2>2 DEF Good
<1>15. L \in [D -> R]
  BY <1>12, <1>14
<1> QED BY <1>8, <1>13, <1>15

(* One list more goes behind those joined before.                          *)
LEMMA FlattenAppend ==
  ASSUME NEW T, NEW ss \in Seq(Seq(T)), NEW s \in Seq(T)
  PROVE  /\ FlattenSeq(ss) \in Seq(T)
         /\ FlattenSeq(Append(ss, s)) = FlattenSeq(ss) \o s
<1> DEFINE n == Len(ss)
           u == Append(ss, s)
<1>1. /\ n \in Nat /\ u \in Seq(Seq(T)) /\ Len(u) = n + 1 /\ u[n+1] = s
      /\ \A i \in 1..n : u[i] = ss[i]
  BY LenProperties, AppendProperties
<1> HIDE DEF u
<1>2. Len(u) # 0
  BY <1>1
<1>3. PICK M \in [1..n+1 -> Seq(T)] :
        /\ \A i \in 1..n+1 : M[i] = JoinWith(u, i, M)
        /\ FlattenSeq(u) = M[n+1]
  <2>1. \E L \in [1..Len(u) -> Seq(T)] :
           /\ \A i \in 1..Len(u) : L[i] = JoinWith(u, i, L)
           /\ FlattenSeq(u) = L[Len(u)]
    BY <1>1, <1>2, FlattenMeans
  <2> QED BY <1>1, <2>1
<1>4. CASE n = 0
  <2>1. ss = <<>>
    BY <1>4, EmptySeq
  <2>2. FlattenSeq(ss) = <<>>
    BY <1>4, <2>1 DEF FlattenSeq
  <2>3. FlattenSeq(u) = s
    BY <1>1, <1>3, <1>4 DEF JoinWith
  <2> QED BY <2>2, <2>3, EmptySeq, ConcatEmptySeq DEF u
<1>5. CASE n # 0
  <2>1. PICK L \in [1..n -> Seq(T)] :
          /\ \A i \in 1..n : L[i] = JoinWith(ss, i, L)
          /\ FlattenSeq(ss) = L[n]
    BY <1>5, FlattenMeans
  <2>2. \A i \in 1..n : M[i] = L[i]
    <3> DEFINE Good == {i \in 1..n : M[i] = L[i]}
    <3>1. ASSUME NEW i \in 1..n, i # 1 => i - 1 \in Good PROVE i \in Good
      <4>1. i # 1 => M[i-1] = L[i-1]
        BY <3>1
      <4>2. i \in 1..n+1 /\ u[i] = ss[i]
        BY <1>1
      <4>3. M[i] = JoinWith(u, i, M) /\ L[i] = JoinWith(ss, i, L)
        BY <1>3, <2>1, <4>2
      <4> QED BY <4>1, <4>2, <4>3 DEF JoinWith
    <3> HIDE DEF Good
    <3>2. 1..n \subseteq Good
      BY <1>1, <3>1, OneByOne
    <3> QED BY <3>2 DEF Good
  <2>3. n \in 1..n /\ n + 1 \in 1..n+1 /\ n + 1 # 1 /\ (n + 1) - 1 = n
    BY <1>1, <1>5
  <2>4. M[n+1] = M[n] \o s
    <3>1. M[n+1] = JoinWith(u, n+1, M)
      BY <1>3, <2>3
    <3> QED BY <1>1, <2>3, <3>1 DEF JoinWith
  <2>5. FlattenSeq(ss) \in Seq(T)
    BY <2>1, <2>3
  <2>6. FlattenSeq(u) = FlattenSeq(ss) \o s
    BY <1>3, <2>1, <2>2, <2>3, <2>4
  <2> QED BY <2>5, <2>6 DEF u
<1> QED BY <1>4, <1>5

(* The image of a list that grows.                                         *)
Mapped(s, F) == [i \in DOMAIN s |-> F[s[i]]]
Grown(s, F, x) == Mapped(Append(s, x), F) = Append(Mapped(s, F), F[x])
LEMMA MappedAppend ==
  ASSUME NEW S, NEW T, NEW F \in [S -> T], NEW s \in Seq(S), NEW x \in S
  PROVE  Mapped(s, F) \in Seq(T) /\ Len(Mapped(s, F)) = Len(s) /\ Grown(s, F, x)
<1> DEFINE m == Len(s)
           u == Append(s, x)
           a == Mapped(s, F)
           b == Append(a, F[x])
<1>1. m \in Nat /\ DOMAIN s = 1..m /\ \A i \in 1..m : s[i] \in S
  BY LenProperties, ElementOfSeq
<1>2. /\ u \in Seq(S) /\ Len(u) = m + 1 /\ DOMAIN u = 1..m+1
      /\ u[m+1] = x /\ \A i \in 1..m : u[i] = s[i]
  BY AppendProperties, LenProperties
<1>3. a = [i \in 1..m |-> F[s[i]]] /\ a \in [1..m -> T]
  BY <1>1 DEF Mapped
<1>4. a \in Seq(T) /\ Len(a) = m
  BY <1>1, <1>3, FunctionIsSeq
<1>5. b \in Seq(T) /\ Len(b) = m + 1 /\ b[m+1] = F[x] /\ \A i \in 1..m : b[i] = a[i]
  BY <1>4, AppendProperties
<1>6. b = [i \in 1..m+1 |-> b[i]]
  BY <1>5, LenProperties
<1>7. Mapped(u, F) = [i \in 1..m+1 |-> F[u[i]]]
  BY <1>2 DEF Mapped
<1> HIDE DEF u, a, b
<1>8. ASSUME NEW i \in 1..m+1 PROVE F[u[i]] = b[i]
  <2>1. CASE i = m + 1
    BY <1>2, <1>5, <2>1
  <2>2. CASE i # m + 1
    <3>1. i \in 1..m
      BY <1>1, <2>2
    <3> QED BY <1>2, <1>3, <1>5, <3>1
  <2> QED BY <2>1, <2>2
<1>9. Mapped(u, F) = b
  BY <1>6, <1>7, <1>8
<1>10. Grown(s, F, x)
  BY <1>9 DEF Grown, u, a, b
<1> QED BY <1>4, <1>10 DEF a

(* The image of any list, and a selection of it, are lists.                *)
LEMMA MappedTypes ==
  ASSUME NEW S, NEW T, NEW F \in [S -> T], NEW s \in Seq(S)
  PROVE  Mapped(s, F) \in Seq(T)
<1>1. Len(s) \in Nat /\ DOMAIN s = 1..Len(s) /\ \A i \in 1..Len(s) : s[i] \in S
  BY LenProperties, ElementOfSeq
<1>2. [i \in 1..Len(s) |-> F[s[i]]] \in [1..Len(s) -> T]
  BY <1>1
<1>3. [i \in 1..Len(s) |-> F[s[i]]] \in Seq(T)
  BY <1>1, <1>2, FunctionIsSeq
<1> QED BY <1>1, <1>3 DEF Mapped

LEMMA AmongTypes ==
  ASSUME NEW T, NEW S, NEW U, NEW s \in Seq(T \ U)
  PROVE  Among(s, S) \in Seq(T)
<1>1. CASE T = {}
  <2>1. s = <<>>
    BY <1>1, EmptySeq, ElementOfSeq, LenProperties
  <2> QED BY <2>1, AmongEmpty, EmptySeq
<1>2. CASE T # {}
  <2>1. PICK x \in T : TRUE
    BY <1>2
  <2>2. s \in Seq(T)
    OBVIOUS
  <2> QED BY <2>1, <2>2, AmongAppend
<1> QED BY <1>1, <1>2

(* Appending to the second of two lists joined.                            *)
LEMMA ConcatAppend ==
  ASSUME NEW T, NEW u \in Seq(T), NEW v \in Seq(T), NEW x \in T
  PROVE  u \o Append(v, x) = Append(u \o v, x) /\ u \o <<x>> = Append(u, x) /\ u \o <<>> = u
OBVIOUS

(* The tokens up to a place.                                               *)
LEMMA UpToAppend ==
  ASSUME NEW T, NEW s \in Seq(T), NEW i \in 1..Len(s)
  PROVE  /\ SubSeq(s, 1, i - 1) \in Seq(T)
         /\ SubSeq(s, 1, i) = Append(SubSeq(s, 1, i - 1), s[i])
<1>1. Len(s) \in Nat /\ i \in Nat /\ i - 1 \in Nat /\ \A j \in 1..Len(s) : s[j] \in T
  BY LenProperties, ElementOfSeq
<1>2. SubSeq(s, 1, i - 1) = [j \in 1..i-1 |-> s[j]] /\ SubSeq(s, 1, i) = [j \in 1..i |-> s[j]]
  BY <1>1
<1>3. [j \in 1..i-1 |-> s[j]] \in [1..i-1 -> T] /\ [j \in 1..i |-> s[j]] \in [1..i -> T]
  BY <1>1
<1>4. [j \in 1..i-1 |-> s[j]] \in Seq(T) /\ Len([j \in 1..i-1 |-> s[j]]) = i - 1
  BY <1>1, <1>3, FunctionIsSeq
<1> DEFINE a == [j \in 1..i-1 |-> s[j]]
           b == Append(a, s[i])
<1>5. s[i] \in T
  BY <1>1
<1>6. b \in Seq(T) /\ Len(b) = (i - 1) + 1 /\ b[(i - 1) + 1] = s[i] /\ \A j \in 1..i-1 : b[j] = a[j]
  <2> HIDE DEF a
  <2> QED BY <1>4, <1>5, AppendProperties DEF a
<1>7. b = [j \in 1..i |-> b[j]]
  <2>1. DOMAIN b = 1..i
    BY <1>1, <1>6, LenProperties
  <2> QED BY <1>6, <2>1
<1>8. ASSUME NEW j \in 1..i PROVE b[j] = s[j]
  BY <1>1, <1>6
<1>9. b = [j \in 1..i |-> s[j]]
  BY <1>7, <1>8
<1> QED BY <1>2, <1>4, <1>9

(* The least of a set of places.                                           *)
LEMMA LeastFacts ==
  ASSUME NEW n \in Nat, NEW S \in SUBSET (1..n)
  PROVE  /\ Least(S, n + 1) \in 1..n+1
         /\ Least(S, n + 1) \in S \/ Least(S, n + 1) = n + 1
         /\ \A i \in 1..Least(S, n + 1) - 1 : i \in 1..n /\ i \notin S
<1>1. CASE S = {}
  BY <1>1 DEF Least
<1>2. CASE S # {}
  <2> DEFINE m == CHOOSE i \in S : \A j \in S : i <= j
  <2>1. S \in SUBSET Nat
    OBVIOUS
  <2>2. \E i \in S : \A j \in S : i <= j
    BY <1>2, <2>1, LeastElement
  <2>3. m \in S /\ \A j \in S : m <= j
    BY <2>2
  <2>4. Least(S, n + 1) = m
    BY <1>2 DEF Least
  <2> HIDE DEF m
  <2>5. m \in 1..n
    BY <2>3
  <2>6. \A i \in 1..m-1 : i \in 1..n /\ ~(m <= i)
    BY <2>5
  <2> QED BY <2>3, <2>4, <2>5, <2>6
<1> QED BY <1>1, <1>2

(* What holds of the empty list and goes on to the next holds of all.      *)
LEMMA ListInduction ==
  ASSUME NEW T, NEW Good, <<>> \in Good, \A s \in Seq(T) : \A x \in T : s \in Good => Append(s, x) \in Good
  PROVE  Seq(T) \subseteq Good
<1> DEFINE D == Seq(T)
           h == [s \in D |-> Len(s)]
<1>1. h \in [D -> Nat] /\ \A s \in D : h[s] = Len(s)
  BY LenProperties
<1> HIDE DEF h
<1>2. ASSUME NEW s \in Seq(T), \A t \in Seq(T) : h[t] < h[s] => t \in Good PROVE s \in Good
  <2>1. CASE s = <<>>
    BY <2>1
  <2>2. CASE s # <<>>
    <3> DEFINE n == Len(s)
               t == SubSeq(s, 1, n - 1)
    <3>1. n \in Nat \ {0} /\ n \in 1..n
      BY <2>2, EmptySeq
    <3>2. t \in Seq(T) /\ SubSeq(s, 1, n) = Append(t, s[n])
      BY <3>1, UpToAppend
    <3>3. SubSeq(s, 1, n) = s
      OBVIOUS
    <3>4. s[n] \in T
      BY <3>1, ElementOfSeq
    <3>5. Len(t) < n /\ Len(t) \in Nat
      BY <3>1
    <3> HIDE DEF t, n
    <3>6. h[t] < h[s]
      BY <1>1, <3>2, <3>5 DEF n
    <3>7. t \in Good
      BY <1>2, <3>2, <3>6
    <3> QED BY <3>2, <3>3, <3>4, <3>7
  <2> QED BY <2>1, <2>2
<1>3. \A x \in D : (\A y \in D : h[y] < h[x] => y \in Good) => x \in Good
  BY <1>2
<1> HIDE DEF D
<1>4. D \subseteq Good
  BY <1>1, <1>3, RankInduction, Zenon
<1> QED BY <1>4 DEF D

(* What lists joined, mapped and selected from contain.                    *)
LEMMA RangeGrows ==
  ASSUME NEW T, NEW s \in Seq(T)
  PROVE  /\ \A t \in Seq(T) : Range(s \o t) = Range(s) \cup Range(t)
         /\ \A x \in T : Range(Append(s, x)) = Range(s) \cup {x}
         /\ Range(s) \subseteq T
<1>1. Len(s) \in Nat /\ DOMAIN s = 1..Len(s) /\ \A i \in 1..Len(s) : s[i] \in T
  BY LenProperties, ElementOfSeq
<1>2. ASSUME NEW t \in Seq(T) PROVE Range(s \o t) = Range(s) \cup Range(t)
  <2> DEFINE u == s \o t
             m == Len(s)
             n == Len(t)
  <2>1. n \in Nat /\ DOMAIN t = 1..n
    BY LenProperties
  <2>2. /\ Len(u) = m + n /\ DOMAIN u = 1..m+n
        /\ \A i \in 1..m : u[i] = s[i]
        /\ \A i \in 1..n : u[m+i] = t[i]
    <3>1. u \in Seq(T) /\ Len(u) = m + n /\ \A i \in 1..m+n : u[i] = IF i <= m THEN s[i] ELSE t[i-m]
      BY ConcatProperties
    <3>2. DOMAIN u = 1..m+n
      BY <3>1, LenProperties
    <3> HIDE DEF u
    <3>3. \A i \in 1..m : i \in 1..m+n /\ i <= m
      BY <1>1, <2>1
    <3>4. \A i \in 1..n : m + i \in 1..m+n /\ ~(m + i <= m) /\ (m + i) - m = i
      BY <1>1, <2>1
    <3> QED BY <3>1, <3>2, <3>3, <3>4
  <2>3. \A i \in 1..m+n : i \in 1..m \/ (i - m \in 1..n /\ m + (i - m) = i)
    BY <1>1, <2>1
  <2>4. \A i \in 1..m : i \in 1..m+n
    BY <1>1, <2>1
  <2>5. \A i \in 1..n : m + i \in 1..m+n
    BY <1>1, <2>1
  <2> HIDE DEF u
  <2>6. ASSUME NEW z PROVE z \in Range(u) <=> z \in Range(s) \/ z \in Range(t)
    <3>1. ASSUME z \in Range(u) PROVE z \in Range(s) \/ z \in Range(t)
      <4>1. PICK i \in 1..m+n : u[i] = z
        BY <2>2, <3>1 DEF Range
      <4> QED BY <1>1, <2>1, <2>2, <2>3, <4>1 DEF Range
    <3>2. ASSUME z \in Range(s) PROVE z \in Range(u)
      BY <1>1, <2>2, <2>4, <3>2 DEF Range
    <3>3. ASSUME z \in Range(t) PROVE z \in Range(u)
      <4>1. PICK i \in 1..n : t[i] = z
        BY <2>1, <3>3 DEF Range
      <4> QED BY <2>2, <2>5, <4>1 DEF Range
    <3> QED BY <3>1, <3>2, <3>3
  <2> QED BY <2>6 DEF u
<1>3. ASSUME NEW x \in T PROVE Range(Append(s, x)) = Range(s) \cup {x}
  <2>1. <<x>> \in Seq(T) /\ Append(s, x) = s \o <<x>>
    OBVIOUS
  <2>2. Range(<<x>>) = {x}
    BY DEF Range
  <2> QED BY <1>2, <2>1, <2>2
<1>4. Range(s) \subseteq T
  BY <1>1 DEF Range
<1> QED BY <1>2, <1>3, <1>4

LEMMA FlattenHas ==
  ASSUME NEW T, NEW ss \in Seq(Seq(T))
  PROVE  Range(FlattenSeq(ss)) = UNION {Range(s) : s \in Range(ss)}
<1> DEFINE Good == {rs \in Seq(Seq(T)) : Range(FlattenSeq(rs)) = UNION {Range(s) : s \in Range(rs)}}
           L == Seq(T)
<1>1. <<>> \in Good
  <2>1. FlattenSeq(<<>>) = <<>> /\ Range(<<>>) = {} /\ <<>> \in Seq(Seq(T))
    BY EmptySeq DEF FlattenSeq, Range
  <2> QED BY <2>1
<1>2. ASSUME NEW rs \in Seq(L), NEW s \in L, rs \in Good PROVE Append(rs, s) \in Good
  <2>1. FlattenSeq(rs) \in Seq(T) /\ FlattenSeq(Append(rs, s)) = FlattenSeq(rs) \o s
    BY FlattenAppend
  <2>2. Range(Append(rs, s)) = Range(rs) \cup {s}
    BY RangeGrows
  <2>3. Range(FlattenSeq(rs) \o s) = Range(FlattenSeq(rs)) \cup Range(s)
    BY <2>1, RangeGrows
  <2>4. Append(rs, s) \in Seq(L)
    BY AppendProperties
  <2> QED BY <1>2, <2>1, <2>2, <2>3, <2>4
<1> HIDE DEF Good
<1>3. Seq(L) \subseteq Good
  <2> HIDE DEF L
  <2> QED BY <1>1, <1>2, ListInduction
<1> QED BY <1>3 DEF Good

(* A selection that leaves nothing out.                                    *)
LEMMA AmongAll ==
  ASSUME NEW T, NEW S, NEW s \in Seq(T), Range(s) \subseteq S
  PROVE  Among(s, S) = s
<1> DEFINE U == Range(s)
           Good == {r \in Seq(U) : Among(r, S) = r}
<1>1. <<>> \in Good
  BY AmongEmpty, EmptySeq
<1>2. ASSUME NEW r \in Seq(U), NEW x \in U, r \in Good PROVE Append(r, x) \in Good
  <2>1. Among(Append(r, x), S) = Append(Among(r, S), x)
    BY AmongAppend
  <2> QED BY <1>2, <2>1, AppendProperties
<1>3. s \in Seq(U)
  <2>1. Len(s) \in Nat /\ DOMAIN s = 1..Len(s) /\ s = [i \in 1..Len(s) |-> s[i]]
    BY LenProperties
  <2>2. s \in [1..Len(s) -> U]
    BY <2>1 DEF Range
  <2> QED BY <2>1, <2>2, FunctionIsSeq
<1> HIDE DEF Good, U
<1>4. Seq(U) \subseteq Good
  BY <1>1, <1>2, ListInduction
<1> QED BY <1>3, <1>4 DEF Good

(* The image of lists joined is their images joined.                       *)
JoinedImages(s, t, F) == Mapped(s \o t, F) = Mapped(s, F) \o Mapped(t, F)
LEMMA MappedConcat ==
  ASSUME NEW S, NEW T, NEW F \in [S -> T], NEW s \in Seq(S), NEW t \in Seq(S)
  PROVE  JoinedImages(s, t, F)
<1> DEFINE Good == {r \in Seq(S) : JoinedImages(s, r, F)}
<1>1. Mapped(s, F) \in Seq(T) /\ Mapped(<<>>, F) = <<>>
  BY MappedTypes DEF Mapped
<1>2. <<>> \in Good
  <2>1. s \o <<>> = s /\ Mapped(s, F) \o <<>> = Mapped(s, F)
    BY <1>1, ConcatEmptySeq
  <2> QED BY <1>1, <2>1, EmptySeq DEF JoinedImages
<1>3. ASSUME NEW r \in Seq(S), NEW x \in S, r \in Good PROVE Append(r, x) \in Good
  <2> DEFINE a == Mapped(s, F)
             b == Mapped(r, F)
             u == s \o r
  <2>1. s \o Append(r, x) = Append(u, x) /\ u \in Seq(S)
    BY ConcatAppend, ConcatProperties
  <2>2. Grown(r, F, x) /\ b \in Seq(T) /\ F[x] \in T
    BY MappedAppend
  <2>3. Grown(u, F, x)
    <3> HIDE DEF u
    <3> QED BY <2>1, MappedAppend
  <2>4. Mapped(u, F) = a \o b
    BY <1>3 DEF JoinedImages
  <2> HIDE DEF a, b, u
  <2>5. a \o Append(b, F[x]) = Append(a \o b, F[x])
    BY <1>1, <2>2, ConcatAppend DEF a
  <2>6. Mapped(Append(u, x), F) = Append(a \o b, F[x])
    BY <2>3, <2>4 DEF Grown
  <2>7. Mapped(Append(r, x), F) = Append(b, F[x])
    BY <2>2 DEF Grown, b
  <2>8. JoinedImages(s, Append(r, x), F)
    BY <2>1, <2>5, <2>6, <2>7 DEF JoinedImages, a
  <2> QED BY <2>8, AppendProperties
<1> HIDE DEF Good
<1>4. Seq(S) \subseteq Good
  BY <1>2, <1>3, ListInduction
<1> QED BY <1>4 DEF Good

(* The same of any number of lists.                                        *)
ImageJoined(ss, F) ==
  LET M == [i \in DOMAIN ss |-> Mapped(ss[i], F)] IN FlattenSeq(M) = Mapped(FlattenSeq(ss), F)
LEMMA FlattenMapped ==
  ASSUME NEW S, NEW T, NEW F \in [S -> T], NEW ss \in Seq(Seq(S))
  PROVE  ImageJoined(ss, F)
<1> DEFINE L == Seq(S)
           R == Seq(T)
           M == [s \in L |-> Mapped(s, F)]
           Good == {rs \in Seq(L) : FlattenSeq(Mapped(rs, M)) = Mapped(FlattenSeq(rs), F)}
<1>1. M \in [L -> R] /\ \A s \in L : M[s] = Mapped(s, F)
  BY MappedTypes
<1>2. <<>> \in Good
  <2>1. FlattenSeq(<<>>) = <<>> /\ <<>> \in Seq(L)
    BY EmptySeq DEF FlattenSeq
  <2>2. \A G : Mapped(<<>>, G) = <<>>
    BY DEF Mapped
  <2> QED BY <2>1, <2>2
<1>3. ASSUME NEW rs \in Seq(L), NEW s \in L, rs \in Good PROVE Append(rs, s) \in Good
  <2> DEFINE a == Mapped(rs, M)
             f == FlattenSeq(rs)
  <2>1. a \in Seq(R) /\ Grown(rs, M, s) /\ M[s] \in R
    <3> HIDE DEF M, L, R
    <3> QED BY <1>1, MappedAppend
  <2>2. FlattenSeq(Append(a, M[s])) = FlattenSeq(a) \o M[s]
    <3> HIDE DEF a, M
    <3> QED BY <2>1, FlattenAppend
  <2>3. f \in Seq(S) /\ FlattenSeq(Append(rs, s)) = f \o s
    BY FlattenAppend
  <2>4. JoinedImages(f, s, F)
    <3> HIDE DEF f
    <3> QED BY <2>3, MappedConcat
  <2>5. FlattenSeq(a) = Mapped(f, F)
    BY <1>3
  <2> HIDE DEF M, a, f
  <2>6. FlattenSeq(Mapped(Append(rs, s), M)) = Mapped(f, F) \o Mapped(s, F)
    BY <1>1, <2>1, <2>2, <2>5 DEF Grown, a
  <2>7. Mapped(FlattenSeq(Append(rs, s)), F) = Mapped(f, F) \o Mapped(s, F)
    BY <2>3, <2>4 DEF JoinedImages
  <2> QED BY <2>6, <2>7, AppendProperties
<1>4. Seq(L) \subseteq Good
  <2> HIDE DEF Good, L
  <2> QED BY <1>2, <1>3, ListInduction
<1>5. FlattenSeq(Mapped(ss, M)) = Mapped(FlattenSeq(ss), F)
  BY <1>4
<1>6. Mapped(ss, M) = [i \in DOMAIN ss |-> Mapped(ss[i], F)]
  <2>1. \A i \in DOMAIN ss : ss[i] \in L
    BY LenProperties, ElementOfSeq
  <2> HIDE DEF L, M
  <2> QED BY <1>1, <2>1 DEF Mapped
<1> QED BY <1>5, <1>6 DEF ImageJoined

(* The places before the first x, and what stands there.                   *)
Prior(x, list) == {i \in DOMAIN list : \A h \in 1..i : list[h] # x}
Earlier(x, list) == {list[j] : j \in Prior(x, list)}

(* What is earlier than x is in the list and is not x.                     *)
LEMMA EarlierFacts ==
  ASSUME NEW T, NEW list \in Seq(T), NEW x
  PROVE  /\ IsFiniteSet(Range(list)) /\ IsFiniteSet(Earlier(x, list))
         /\ Cardinality(Earlier(x, list)) \in Nat /\ Cardinality(Range(list)) \in Nat
         /\ Earlier(x, list) \subseteq Range(list) \ {x}
<1> DEFINE D == 1..Len(list)
           f == [j \in D |-> list[j]]
           R == Range(list)
           E == Earlier(x, list)
<1>1. Len(list) \in Nat /\ IsFiniteSet(D) /\ DOMAIN list = D
  BY LenProperties, FS_Interval
<1>2. f \in Surjection(D, R)
  BY <1>1 DEF Surjection, Range
<1>3. IsFiniteSet(R)
  <2> HIDE DEF f, R, D
  <2> QED BY <1>1, <1>2, FS_Surjection
<1>4. E \subseteq R \ {x}
  <2>1. \A j \in D : j \in 1..j
    BY <1>1
  <2> QED BY <1>1, <2>1 DEF Earlier, Prior, Range
<1>5. E \in SUBSET R
  BY <1>4
<1> HIDE DEF E, R
<1>6. IsFiniteSet(E)
  BY <1>3, <1>5, FS_Subset
<1> QED BY <1>3, <1>4, <1>6, FS_CardinalityType DEF E, R

(* Each element of a list has a rank of its own, and there are as many     *)
(* ranks as elements.                                                      *)
LEMMA RankDecides ==
  ASSUME NEW T, NEW list \in Seq(T), NEW x \in Range(list)
  PROVE  /\ Rank(x, list) \in Nat /\ Rank(x, list) < Cardinality(Range(list))
         /\ \A y \in Range(list) : Rank(x, list) = Rank(y, list) => x = y
<1> DEFINE R == Range(list)
           E(y) == Earlier(y, list)
           At(y) == {i \in DOMAIN list : list[i] = y}
<1>1. \A y : Rank(y, list) = Cardinality(E(y))
  BY DEF Rank, Earlier, Prior
<1>2. /\ IsFiniteSet(R) /\ Cardinality(R) \in Nat
      /\ \A y : IsFiniteSet(E(y)) /\ Cardinality(E(y)) \in Nat /\ E(y) \subseteq R \ {y}
  BY EarlierFacts
<1> HIDE DEF E
<1>3. Cardinality(E(x)) < Cardinality(R)
  <2>1. E(x) \cup {x} \in SUBSET R /\ x \notin E(x)
    BY <1>2
  <2>2. Cardinality(E(x) \cup {x}) = Cardinality(E(x)) + 1
    BY <1>2, <2>1, FS_AddElement
  <2>3. Cardinality(E(x) \cup {x}) <= Cardinality(R)
    BY <1>2, <2>1, FS_Subset
  <2> QED BY <1>2, <2>2, <2>3
<1>4. DOMAIN list = 1..Len(list) /\ Len(list) \in Nat
  BY LenProperties
<1>5. \A y \in R : \E i \in At(y) : \A j \in At(y) : i <= j
  <2> TAKE y \in R
  <2>1. At(y) # {} /\ At(y) \in SUBSET Nat
    BY <1>4 DEF Range
  <2> HIDE DEF At
  <2> QED BY <2>1, LeastElement
<1>6. ASSUME NEW y \in R, NEW z \in R, NEW i \in At(y), NEW j \in At(z), i < j, \A h \in At(z) : j <= h
      PROVE  Cardinality(E(y)) + 1 <= Cardinality(E(z))
  <2>1. i \in 1..Len(list) /\ j \in 1..Len(list) /\ list[i] = y /\ list[j] = z
    BY <1>4
  <2>2. \A h \in 1..j-1 : h \in 1..Len(list) /\ list[h] # z
    <3> TAKE h \in 1..j-1
    <3>1. h \in 1..Len(list) /\ ~(j <= h)
      BY <1>4, <2>1
    <3>2. h \notin At(z)
      BY <1>6, <3>1
    <3> QED BY <1>4, <3>1, <3>2
  <2>3. \A k \in 1..j-1 : k \in Prior(z, list)
    <3> TAKE k \in 1..j-1
    <3>1. \A h \in 1..k : h \in 1..j-1
      BY <2>1
    <3> QED BY <1>4, <2>2, <3>1 DEF Prior
  <2>4. \A k \in Prior(y, list) : k \in 1..j-1
    <3> TAKE k \in Prior(y, list)
    <3>1. k \in 1..Len(list) /\ i \notin 1..k
      BY <1>4, <2>1 DEF Prior
    <3> QED BY <1>6, <2>1, <3>1
  <2>5. E(y) \subseteq E(z)
    BY <2>3, <2>4 DEF E, Earlier
  <2>6. y \in E(z)
    <3>1. i \in 1..j-1
      BY <1>6, <2>1
    <3> QED BY <2>1, <2>3, <3>1 DEF E, Earlier
  <2>7. E(y) \cup {y} \in SUBSET E(z) /\ y \notin E(y)
    BY <1>2, <2>5, <2>6
  <2>8. Cardinality(E(y) \cup {y}) = Cardinality(E(y)) + 1
    BY <1>2, <2>7, FS_AddElement
  <2>9. Cardinality(E(y) \cup {y}) <= Cardinality(E(z))
    BY <1>2, <2>7, FS_Subset
  <2> QED BY <2>8, <2>9
<1>7. ASSUME NEW y \in R, Cardinality(E(x)) = Cardinality(E(y)) PROVE x = y
  <2>1. PICK i \in At(x) : \A h \in At(x) : i <= h
    BY <1>5
  <2>2. PICK j \in At(y) : \A h \in At(y) : j <= h
    BY <1>5
  <2>3. i \in Nat /\ j \in Nat /\ list[i] = x /\ list[j] = y
    BY <1>4
  <2> DEFINE c == Cardinality(E(x))
  <2>4. c \in Nat /\ Cardinality(E(y)) = c
    BY <1>2, <1>7
  <2>5. ~(i < j)
    <3>1. i < j => c + 1 <= c
      BY <1>6, <2>2, <2>4
    <3> HIDE DEF c
    <3> QED BY <2>4, <3>1
  <2>6. ~(j < i)
    <3>1. j < i => c + 1 <= c
      BY <1>6, <2>1, <2>4
    <3> HIDE DEF c
    <3> QED BY <2>4, <3>1
  <2>7. i = j
    BY <2>3, <2>5, <2>6
  <2> QED BY <2>3, <2>7
<1> QED BY <1>1, <1>2, <1>3, <1>7

(* Elements renamed one to one keep their ranks.                           *)
RankKept(x, list, F) == Rank(F[x], Mapped(list, F)) = Rank(x, list)
LEMMA RankMapped ==
  ASSUME NEW S, NEW T, NEW F \in [S -> T], NEW list \in Seq(S), NEW x \in S,
         \A a, b \in S : F[a] = F[b] => a = b
  PROVE  RankKept(x, list, F)
<1> DEFINE m == Mapped(list, F)
           E == Earlier(x, list)
           G == Earlier(F[x], m)
           g == [b \in E |-> F[b]]
<1>1. DOMAIN list = 1..Len(list) /\ Len(list) \in Nat /\ \A i \in 1..Len(list) : list[i] \in S
  BY LenProperties, ElementOfSeq
<1>2. DOMAIN m = 1..Len(list) /\ \A i \in 1..Len(list) : m[i] = F[list[i]]
  BY <1>1 DEF Mapped
<1> HIDE DEF m
<1>3. Prior(F[x], m) = Prior(x, list)
  <2>1. \A i \in 1..Len(list) : \A h \in 1..i : h \in 1..Len(list) /\ (m[h] = F[x] <=> list[h] = x)
    <3> TAKE i \in 1..Len(list)
    <3> TAKE h \in 1..i
    <3>1. h \in 1..Len(list)
      BY <1>1
    <3> QED BY <1>1, <1>2, <3>1
  <2> QED BY <1>1, <1>2, <2>1 DEF Prior
<1>4. G = {F[b] : b \in E}
  <2>1. \A j \in Prior(x, list) : m[j] = F[list[j]]
    BY <1>1, <1>2 DEF Prior
  <2> QED BY <1>3, <2>1 DEF Earlier
<1>5. E \subseteq S /\ IsFiniteSet(E)
  <2>1. E \subseteq S
    BY <1>1 DEF Earlier, Prior
  <2> QED BY <2>1, EarlierFacts
<1> HIDE DEF E, G
<1>6. g \in Surjection(E, G) /\ g \in Injection(E, G)
  <2>1. g \in [E -> G] /\ \A b \in E : g[b] = F[b]
    BY <1>4
  <2>2. \A a, b \in E : g[a] = g[b] => a = b
    BY <1>5, <2>1
  <2>3. \A y \in G : \E b \in E : g[b] = y
    BY <1>4, <2>1
  <2> HIDE DEF g
  <2> QED BY <2>1, <2>2, <2>3, Fun_IsInj, Fun_IsSurj
<1>7. Cardinality(G) = Cardinality(E)
  <2> HIDE DEF g
  <2> QED BY <1>5, <1>6, FS_Surjection
<1> QED BY <1>7 DEF RankKept, Rank, E, G, Earlier, Prior, m

(* What a list that grows contains.                                        *)
GrownRange(s, x) == Range(Append(s, x)) = Range(s) \cup {x}
LEMMA RangeAppend ==
  ASSUME NEW T, NEW s \in Seq(T), NEW x \in T
  PROVE  GrownRange(s, x)
BY RangeGrows DEF GrownRange

(* A selection has nothing else.                                           *)
LEMMA AmongOnly ==
  ASSUME NEW T, NEW S, NEW s \in Seq(T)
  PROVE  Among(s, S) \in Seq(T \cap S)
<1> DEFINE Good == {r \in Seq(T) : Among(r, S) \in Seq(T \cap S)}
<1>1. <<>> \in Good
  BY AmongEmpty, EmptySeq
<1>2. ASSUME NEW r \in Seq(T), NEW x \in T, r \in Good PROVE Append(r, x) \in Good
  <2>1. Among(Append(r, x), S) = IF x \in S THEN Append(Among(r, S), x) ELSE Among(r, S)
    BY AmongAppend
  <2>2. Among(r, S) \in Seq(T \cap S)
    BY <1>2
  <2>3. x \in S => Append(Among(r, S), x) \in Seq(T \cap S)
    BY <2>2, AppendProperties
  <2> QED BY <2>1, <2>2, <2>3, AppendProperties
<1> HIDE DEF Good
<1>3. Seq(T) \subseteq Good
  BY <1>1, <1>2, ListInduction
<1> QED BY <1>3 DEF Good
=============================================================================
