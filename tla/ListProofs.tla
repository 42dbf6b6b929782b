------------------------------ MODULE ListProofs ------------------------------
(***************************************************************************)
(* What the lists of the scheduler hold: after list.shift(), push(),       *)
(* unshift(), concatenation and filter (SeqFilter), for every list.        *)
(***************************************************************************)
EXTENDS SeqFilter, SequencesExt, SequenceTheorems, FiniteSetTheorems, TLAPS

\* What n shifts of a list leave, and what they took.
LEMMA ShiftProperties ==
  ASSUME NEW S, NEW q \in Seq(S), NEW n \in 0..Len(q)
  PROVE  /\ SubSeq(q, n + 1, Len(q)) \in Seq(S)
         /\ Len(SubSeq(q, n + 1, Len(q))) = Len(q) - n
         /\ \A i \in 1..(Len(q) - n) : SubSeq(q, n + 1, Len(q))[i] = q[n + i]
         /\ ToSet(q) = ToSet(SubSeq(q, n + 1, Len(q))) \cup {q[i] : i \in 1..n}
<1> DEFINE r == SubSeq(q, n + 1, Len(q))
<1>1. Len(q) \in Nat /\ DOMAIN q = 1..Len(q) /\ \A i \in 1..Len(q) : q[i] \in S
  BY LenProperties, ElementOfSeq
<1>2. /\ r \in Seq(S)
      /\ Len(r) = Len(q) - n
      /\ \A i \in 1..(Len(q) - n) : r[i] = q[n + i]
  <2>1. n + 1 \in Int /\ Len(q) \in Int /\ \A i \in (n + 1)..Len(q) : q[i] \in S
    BY <1>1
  <2>2. /\ r \in Seq(S)
        /\ Len(r) = IF n + 1 <= Len(q) THEN Len(q) - (n + 1) + 1 ELSE 0
        /\ \A i \in 1..(Len(q) - (n + 1) + 1) : r[i] = q[n + 1 + i - 1]
    BY <2>1, SubSeqProperties
  <2> HIDE DEF r
  <2>3. Len(q) - (n + 1) + 1 = Len(q) - n
    BY <1>1
  <2>4. \A i \in 1..(Len(q) - n) : n + 1 + i - 1 = n + i
    BY <1>1
  <2>5. Len(r) = Len(q) - n
    <3>1. CASE n + 1 <= Len(q)
      BY <2>2, <2>3, <3>1
    <3>2. CASE ~(n + 1 <= Len(q))
      <4>1. Len(r) = 0
        BY <2>2, <3>2
      <4>2. Len(q) \in Nat /\ n \in Nat /\ n <= Len(q)
        BY <1>1
      <4>3. n = Len(q)
        BY <3>2, <4>2
      <4> QED
        BY <4>1, <4>2, <4>3
    <3> QED
      BY <3>1, <3>2
  <2>6. \A i \in 1..(Len(q) - n) : r[i] = q[n + i]
    <3> TAKE i \in 1..(Len(q) - n)
    <3>1. r[i] = q[n + 1 + i - 1]
      BY <2>2, <2>3
    <3> QED
      BY <3>1, <2>4
  <2> QED
    BY <2>2, <2>5, <2>6
<1>3. DOMAIN r = 1..(Len(q) - n)
  BY <1>2, LenProperties
<1> HIDE DEF r
<1>4. ASSUME NEW x \in ToSet(q)
      PROVE  x \in ToSet(r) \cup {q[i] : i \in 1..n}
  <2>1. PICK i \in 1..Len(q) : x = q[i]
    BY <1>1 DEF ToSet
  <2>2. CASE i <= n
    BY <1>1, <2>1, <2>2
  <2>3. CASE i > n
    <3>1. i - n \in 1..(Len(q) - n) /\ q[n + (i - n)] = x
      BY <1>1, <2>1, <2>3
    <3>2. r[i - n] = x
      BY <1>2, <3>1
    <3> QED
      BY <1>3, <3>1, <3>2 DEF ToSet
  <2> QED
    BY <1>1, <2>1, <2>2, <2>3
<1>5. ToSet(r) \subseteq ToSet(q)
  <2>1. \A i \in 1..(Len(q) - n) : n + i \in 1..Len(q)
    BY <1>1
  <2> QED
    BY <1>1, <1>2, <1>3, <2>1 DEF ToSet
<1>6. {q[i] : i \in 1..n} \subseteq ToSet(q)
  BY <1>1 DEF ToSet
<1> QED
  BY <1>2, <1>4, <1>5, <1>6 DEF r

\* Appending and prepending.
LEMMA AppendToSet ==
  ASSUME NEW S, NEW q \in Seq(S), NEW x \in S
  PROVE  /\ Append(q, x) \in Seq(S)
         /\ Len(Append(q, x)) = Len(q) + 1
         /\ \A i \in 1..Len(q) : Append(q, x)[i] = q[i]
         /\ Append(q, x)[Len(q) + 1] = x
         /\ ToSet(Append(q, x)) = ToSet(q) \cup {x}
<1>1. Len(q) \in Nat /\ DOMAIN q = 1..Len(q)
  BY LenProperties
<1>2. /\ Append(q, x) \in Seq(S)
      /\ Len(Append(q, x)) = Len(q) + 1
      /\ \A i \in 1..Len(q) : Append(q, x)[i] = q[i]
      /\ Append(q, x)[Len(q) + 1] = x
  BY <1>1
<1>3. DOMAIN Append(q, x) = 1..(Len(q) + 1)
  BY <1>2, LenProperties
<1>4. ToSet(Append(q, x)) = ToSet(q) \cup {x}
  BY <1>1, <1>2, <1>3 DEF ToSet
<1> QED
  BY <1>2, <1>4

\* Concatenation.
LEMMA ConcatToSet ==
  ASSUME NEW S, NEW q \in Seq(S), NEW r \in Seq(S)
  PROVE  /\ q \o r \in Seq(S)
         /\ Len(q \o r) = Len(q) + Len(r)
         /\ \A i \in 1..Len(q) : (q \o r)[i] = q[i]
         /\ \A i \in 1..Len(r) : (q \o r)[Len(q) + i] = r[i]
         /\ ToSet(q \o r) = ToSet(q) \cup ToSet(r)
<1> DEFINE c == q \o r
<1>1. /\ Len(q) \in Nat /\ DOMAIN q = 1..Len(q)
      /\ Len(r) \in Nat /\ DOMAIN r = 1..Len(r)
  BY LenProperties
<1>2. /\ c \in Seq(S) /\ Len(c) = Len(q) + Len(r)
      /\ \A i \in 1..(Len(q) + Len(r)) :
           c[i] = IF i <= Len(q) THEN q[i] ELSE r[i - Len(q)]
  BY ConcatProperties
<1>3. DOMAIN c = 1..(Len(q) + Len(r))
  BY <1>2, LenProperties
<1> HIDE DEF c
<1>4. \A i \in 1..Len(q) : c[i] = q[i]
  BY <1>1, <1>2
<1>5. \A i \in 1..Len(r) : c[Len(q) + i] = r[i]
  <2> TAKE i \in 1..Len(r)
  <2>1. /\ Len(q) + i \in 1..(Len(q) + Len(r))
        /\ ~(Len(q) + i <= Len(q)) /\ Len(q) + i - Len(q) = i
    BY <1>1
  <2> QED
    BY <1>2, <2>1
<1>6. ToSet(q) \cup ToSet(r) \subseteq ToSet(c)
  <2>1. \A i \in 1..Len(q) : i \in DOMAIN c
    BY <1>1, <1>3
  <2>2. \A i \in 1..Len(r) : Len(q) + i \in DOMAIN c
    BY <1>1, <1>3
  <2> QED
    BY <1>1, <1>4, <1>5, <2>1, <2>2 DEF ToSet
<1>7. ASSUME NEW i \in DOMAIN c
      PROVE  c[i] \in ToSet(q) \cup ToSet(r)
  <2>1. CASE i <= Len(q)
    BY <1>1, <1>3, <1>4, <2>1 DEF ToSet
  <2>2. CASE i > Len(q)
    <3>1. i - Len(q) \in DOMAIN r /\ c[i] = r[i - Len(q)]
      BY <1>1, <1>2, <1>3, <2>2
    <3> QED
      BY <3>1 DEF ToSet
  <2> QED
    BY <1>1, <1>3, <2>1, <2>2
<1>8. ToSet(c) \subseteq ToSet(q) \cup ToSet(r)
  BY <1>7 DEF ToSet
<1> QED
  BY <1>2, <1>4, <1>5, <1>6, <1>8 DEF c

\* SetToSeqs(W) lists W.
LEMMA SetToSeqsProperties ==
  ASSUME NEW W, IsFiniteSet(W), NEW q \in SetToSeqs(W)
  PROVE  q \in Seq(W) /\ ToSet(q) = W
<1> DEFINE N == Cardinality(W)
<1>1. N \in Nat
  BY FS_CardinalityType
<1>2. q \in [1..N -> W] /\ \A i, j \in 1..N : i # j => q[i] # q[j]
  BY DEF SetToSeqs
<1>3. q \in Injection(1..N, W)
  BY <1>2 DEF Injection, IsInjective
<1>4. IsFiniteSet(1..N) /\ Cardinality(1..N) = N
  BY <1>1, FS_Interval
<1>5. q \in Surjection(1..N, W)
  BY <1>3, <1>4, FS_Injection
<1>6. q \in Seq(W)
  BY <1>1, <1>2
<1>7. \A x \in W : \E i \in 1..N : q[i] = x
  BY <1>5 DEF Surjection
<1> QED
  BY <1>2, <1>6, <1>7 DEF ToSet

-----------------------------------------------------------------------------
\* The ranks number the surviving indices 1, 2, ..., each number once.
LEMMA RankBijection ==
  ASSUME NEW S, NEW s \in Seq(S), NEW keep
  PROVE  /\ IsFiniteSet(Kept(s, keep))
         /\ Cardinality(Kept(s, keep)) \in Nat
         /\ \A i \in Kept(s, keep) :
              Rank(s, keep, i) \in 1..Cardinality(Kept(s, keep))
         /\ \A i, j \in Kept(s, keep) :
              Rank(s, keep, i) = Rank(s, keep, j) => i = j
         /\ \A n \in 1..Cardinality(Kept(s, keep)) :
              \E i \in Kept(s, keep) : Rank(s, keep, i) = n
<1> DEFINE K == Kept(s, keep)
           N == Cardinality(K)
           Upto(i) == {k \in K : k <= i}
           rank == [i \in K |-> Rank(s, keep, i)]
<1>1. Len(s) \in Nat /\ K \subseteq 1..Len(s)
  BY LenProperties DEF Kept
<1>2. IsFiniteSet(K) /\ N \in Nat
  <2>1. IsFiniteSet(1..Len(s))
    BY <1>1, FS_Interval
  <2> QED
    BY <1>1, <2>1, FS_Subset, FS_CardinalityType
<1>3. \A i \in K : /\ IsFiniteSet(Upto(i))
                   /\ Rank(s, keep, i) = Cardinality(Upto(i))
                   /\ Rank(s, keep, i) \in Nat
                   /\ Rank(s, keep, i) \in 1..N
  <2> TAKE i \in K
  <2>1. IsFiniteSet(Upto(i)) /\ Cardinality(Upto(i)) <= N
    BY <1>2, FS_Subset
  <2>2. Cardinality(Upto(i)) \in Nat
    BY <2>1, FS_CardinalityType
  <2>3. Cardinality(Upto(i)) # 0
    <3>1. i \in Upto(i)
      BY <1>1
    <3> QED
      BY <2>1, <3>1, FS_EmptySet
  <2> QED
    BY <1>2, <2>1, <2>2, <2>3 DEF Rank
<1>4. \A i, j \in K : i < j => Rank(s, keep, i) < Rank(s, keep, j)
  <2> SUFFICES ASSUME NEW i \in K, NEW j \in K, i < j
               PROVE  Cardinality(Upto(i)) < Cardinality(Upto(j))
    BY <1>3
  <2>1. Upto(i) \subseteq Upto(j) /\ j \in Upto(j) /\ j \notin Upto(i)
    BY <1>1
  <2>2. Cardinality(Upto(i)) <= Cardinality(Upto(j))
        /\ (Cardinality(Upto(j)) = Cardinality(Upto(i)) => Upto(j) = Upto(i))
    BY <1>3, <2>1, FS_Subset
  <2>3. Cardinality(Upto(i)) \in Nat /\ Cardinality(Upto(j)) \in Nat
    BY <1>3, FS_CardinalityType
  <2> QED
    BY <2>1, <2>2, <2>3
<1>5. \A i, j \in K : Rank(s, keep, i) = Rank(s, keep, j) => i = j
  <2> SUFFICES ASSUME NEW i \in K, NEW j \in K,
                      Rank(s, keep, i) = Rank(s, keep, j)
               PROVE  i = j
    OBVIOUS
  <2>1. i \in Nat /\ j \in Nat
    BY <1>1
  <2>2. Rank(s, keep, i) \in Nat
    BY <1>3, Zenon
  <2> QED
    BY <1>4, <2>1, <2>2
<1>6. rank \in Injection(K, 1..N)
  BY <1>3, <1>5 DEF Injection, IsInjective
<1>7. rank \in Surjection(K, 1..N)
  <2>1. IsFiniteSet(1..N) /\ Cardinality(1..N) = N
    BY <1>2, FS_Interval
  <2> QED
    BY <1>6, <2>1, FS_Injection
<1>8. \A n \in 1..N : \E i \in K : rank[i] = n
  BY <1>7 DEF Surjection
<1> QED
  BY <1>2, <1>3, <1>5, <1>8

\* The filtered list holds members of keep, and every one the list had.
LEMMA FilterProperties ==
  ASSUME NEW S, NEW s \in Seq(S), NEW keep
  PROVE  /\ Filter(s, keep) \in Seq(S)
         /\ ToSet(Filter(s, keep)) = ToSet(s) \cap keep
<1> DEFINE K == Kept(s, keep)
           N == Cardinality(K)
           At(n) == CHOOSE i \in K : Rank(s, keep, i) = n
<1>1. N \in Nat
  BY RankBijection
<1>2. \A n \in 1..N : \E i \in K : Rank(s, keep, i) = n
  BY RankBijection
<1>3. \A i, j \in K : Rank(s, keep, i) = Rank(s, keep, j) => i = j
  BY RankBijection
<1>4. \A i \in K : Rank(s, keep, i) \in 1..N
  BY RankBijection
<1>5. \A n \in 1..N : At(n) \in K /\ Rank(s, keep, At(n)) = n
  BY <1>2
<1>6. \A i \in K : i \in 1..Len(s) /\ s[i] \in S /\ s[i] \in keep
  BY ElementOfSeq DEF Kept
<1>7. Filter(s, keep) = [n \in 1..N |-> s[At(n)]]
  BY DEF Filter
<1> HIDE DEF K, N, At
<1>8. [n \in 1..N |-> s[At(n)]] \in Seq(S)
  <2>1. \A n \in 1..N : s[At(n)] \in S
    BY <1>5, <1>6
  <2> QED
    BY <1>1, <2>1, IsASeq
<1>9. ToSet(Filter(s, keep)) = {s[At(n)] : n \in 1..N}
  BY <1>7 DEF ToSet
<1>10. {s[At(n)] : n \in 1..N} \subseteq ToSet(s) \cap keep
  <2>1. DOMAIN s = 1..Len(s)
    BY LenProperties
  <2> QED
    BY <1>5, <1>6, <2>1 DEF ToSet
<1>11. ASSUME NEW x \in ToSet(s) \cap keep
       PROVE  x \in {s[At(n)] : n \in 1..N}
  <2>1. PICK i \in DOMAIN s : s[i] = x
    BY DEF ToSet
  <2>2. i \in K
    BY <2>1, LenProperties DEF K, Kept
  <2>3. At(Rank(s, keep, i)) = i
    BY <2>2, <1>3, <1>4, <1>5
  <2> QED
    BY <2>1, <2>2, <2>3, <1>4
<1> QED
  BY <1>7, <1>8, <1>9, <1>10, <1>11
=============================================================================
