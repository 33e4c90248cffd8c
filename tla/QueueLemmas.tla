---------------------------- MODULE QueueLemmas -----------------------------
(***************************************************************************)
(* Lemmas on queues without duplicates: what removing, splitting, joining  *)
(* and reversing do to their elements and their lengths.                   *)
(***************************************************************************)
EXTENDS Queues, FiniteSetTheorems, SequenceTheorems, TLAPS

-----------------------------------------------------------------------------
(* In a finite set of numbers, the number of elements up to i, i itself    *)
(* included, ranks the elements: it is a bijection with 1..Cardinality.    *)
LEMMA RankBijection ==
  ASSUME NEW q, NEW S, NEW n \in Nat, DOMAIN q = 1 .. n
  PROVE  /\ Kept(q, S) \subseteq 1 .. n
         /\ IsFiniteSet(Kept(q, S))
         /\ Cardinality(Kept(q, S)) \in Nat
         /\ \A i \in Kept(q, S) : Rank(q, S, i) \in 1 .. Cardinality(Kept(q, S))
         /\ \A i, j \in Kept(q, S) : Rank(q, S, i) = Rank(q, S, j) => i = j
         /\ \A k \in 1 .. Cardinality(Kept(q, S)) :
              \E i \in Kept(q, S) : Rank(q, S, i) = k
PROOF
  <1> DEFINE K == Kept(q, S)
             c == Cardinality(K)
             R(i) == Rank(q, S, i)
             below(i) == {j \in K : j <= i}
             f == [i \in K |-> R(i)]
  <1>1. K \subseteq 1 .. n /\ \A i \in K : i \in Nat
    BY DEF Kept
  <1>2. IsFiniteSet(1 .. n) /\ IsFiniteSet(1 .. c) /\ IsFiniteSet(K) /\ c \in Nat
        /\ Cardinality(1 .. c) = c
    <2>1. IsFiniteSet(1 .. n)
      BY FS_Interval
    <2>2. IsFiniteSet(K)
      BY <1>1, <2>1, FS_Subset
    <2>3. c \in Nat
      BY <2>2, FS_CardinalityType
    <2>4. IsFiniteSet(1 .. c) /\ Cardinality(1 .. c) = c
      BY <2>3, FS_Interval
    <2> QED BY <2>1, <2>2, <2>3, <2>4
  <1>3. \A i : R(i) = Cardinality(below(i))
    BY DEF Rank
  <1> HIDE DEF K, R
  <1>4. \A i : IsFiniteSet(below(i)) /\ R(i) \in Nat /\ R(i) <= c
    <2> SUFFICES ASSUME NEW i
                 PROVE  IsFiniteSet(below(i)) /\ R(i) \in Nat /\ R(i) <= c
      OBVIOUS
    <2>1. below(i) \in SUBSET K
      OBVIOUS
    <2>2. IsFiniteSet(below(i)) /\ Cardinality(below(i)) <= c
      BY <1>2, <2>1, FS_Subset
    <2>3. Cardinality(below(i)) \in Nat
      BY <2>2, FS_CardinalityType
    <2> QED BY <1>3, <2>2, <2>3
  <1>5. \A i \in K : R(i) \in 1 .. c
    <2> SUFFICES ASSUME NEW i \in K PROVE R(i) \in 1 .. c
      OBVIOUS
    <2>1. i \in below(i)
      BY <1>1
    <2>2. below(i) # {}
      BY <2>1
    <2>3. Cardinality(below(i)) # 0
      BY <1>4, <2>2, FS_EmptySet
    <2>4. R(i) \in Nat /\ R(i) <= c /\ R(i) # 0
      BY <1>3, <1>4, <2>3
    <2> QED BY <1>2, <2>4
  <1>6. \A i, j \in K : i < j => R(i) < R(j)
    <2> SUFFICES ASSUME NEW i \in K, NEW j \in K, i < j PROVE R(i) < R(j)
      OBVIOUS
    <2>1. i \in Nat /\ j \in Nat /\ R(i) \in Nat /\ R(j) \in Nat
      BY <1>1, <1>5, <1>2
    <2>2. \A k \in below(i) : k \in below(j) /\ k # j
      BY <1>1, <2>1
    <2>3. j \in below(j)
      BY <2>1
    <2>4. /\ IsFiniteSet(below(j) \ {j})
          /\ Cardinality(below(j) \ {j}) = Cardinality(below(j)) - 1
      <3> HIDE DEF below
      <3>1. IsFiniteSet(below(j))
        BY <1>4
      <3> QED BY <2>3, <3>1, FS_RemoveElement
    <2>5. Cardinality(below(i)) <= Cardinality(below(j) \ {j})
      <3>1. below(i) \in SUBSET (below(j) \ {j})
        BY <2>2
      <3> QED BY <2>4, <3>1, FS_Subset
    <2>6. R(i) <= R(j) - 1
      BY <1>3, <2>4, <2>5
    <2> QED BY <2>1, <2>6
  <1>7. \A i, j \in K : R(i) = R(j) => i = j
    <2> SUFFICES ASSUME NEW i \in K, NEW j \in K, i # j PROVE R(i) # R(j)
      OBVIOUS
    <2>1. i \in Nat /\ j \in Nat /\ R(i) \in Nat /\ R(j) \in Nat
      BY <1>1, <1>2, <1>5
    <2>2. CASE i < j
      BY <1>6, <2>1, <2>2
    <2>3. CASE j < i
      BY <1>6, <2>1, <2>3
    <2> QED BY <2>1, <2>2, <2>3
  <1>8. f \in Injection(K, 1 .. c)
    <2>1. f \in [K -> 1 .. c]
      BY <1>5
    <2>2. \A i, j \in DOMAIN f : f[i] = f[j] => i = j
      BY <1>7
    <2> HIDE DEF f
    <2> QED BY <2>1, <2>2 DEF Injection, IsInjective
  <1>9. f \in Surjection(K, 1 .. c)
    <2> HIDE DEF f, c
    <2>1. Cardinality(K) = c
      BY DEF c
    <2> QED BY <1>2, <1>8, <2>1, FS_Injection
  <1>10. \A k \in 1 .. c : \E i \in K : R(i) = k
    BY <1>9 DEF Surjection
  <1> QED BY <1>1, <1>2, <1>5, <1>7, <1>10 DEF K, R

(* Without(q, S) drops the elements of S, keeps every other one, and keeps *)
(* them apart.                                                             *)
LEMMA WithoutProperties ==
  ASSUME NEW T, NEW q \in Seq(T), NEW S
  PROVE  /\ Without(q, S) \in Seq(T)
         /\ Len(Without(q, S)) = Cardinality(Kept(q, S))
         /\ Range(Without(q, S)) = Range(q) \ S
         /\ IsInjective(q) => IsInjective(Without(q, S))
PROOF
  <1> DEFINE K == Kept(q, S)
             c == Cardinality(K)
             R(i) == Rank(q, S, i)
             g(k) == CHOOSE i \in K : R(i) = k
             w == Without(q, S)
  <1>1. /\ K \subseteq DOMAIN q
        /\ c \in Nat
        /\ \A i \in K : R(i) \in 1 .. c
        /\ \A i, j \in K : R(i) = R(j) => i = j
        /\ \A k \in 1 .. c : \E i \in K : R(i) = k
    <2>1. Len(q) \in Nat /\ DOMAIN q = 1 .. Len(q)
      BY LenProperties
    <2> QED BY <2>1, RankBijection
  <1>2. w = [k \in 1 .. c |-> q[g(k)]]
    BY DEF Without
  <1>3. \A i \in DOMAIN q : i \in K <=> q[i] \notin S
    BY DEF Kept
  <1>4. \A i \in DOMAIN q : q[i] \in T
    BY LenProperties
  <1> HIDE DEF K, R, c, w
  <1>5. \A k \in 1 .. c : g(k) \in K /\ R(g(k)) = k
    BY <1>1
  <1> HIDE DEF g
  <1>6. \A k \in 1 .. c : q[g(k)] \in T /\ q[g(k)] \notin S
    BY <1>1, <1>3, <1>4, <1>5
  <1>7. w \in Seq(T) /\ Len(w) = c /\ DOMAIN w = 1 .. c
    <2>1. w \in [1 .. c -> T]
      BY <1>2, <1>6
    <2> QED BY <1>1, <2>1, LenProperties, SeqDef
  <1>8. Range(w) = Range(q) \ S
    <2>1. ASSUME NEW x \in Range(w) PROVE x \in Range(q) \ S
      <3>1. PICK k \in 1 .. c : x = w[k]
        BY <1>7 DEF Range
      <3>2. g(k) \in DOMAIN q /\ x = q[g(k)] /\ x \notin S
        BY <1>1, <1>2, <1>5, <1>6, <3>1
      <3> QED BY <3>2 DEF Range
    <2>2. ASSUME NEW x \in Range(q) \ S PROVE x \in Range(w)
      <3>1. PICK i \in DOMAIN q : q[i] = x
        BY DEF Range
      <3>2. i \in K
        BY <1>3, <3>1
      <3>3. R(i) \in 1 .. c /\ g(R(i)) = i
        BY <1>1, <1>5, <3>2
      <3>4. w[R(i)] = x /\ R(i) \in DOMAIN w
        BY <1>2, <1>7, <3>1, <3>3
      <3> QED BY <3>4 DEF Range
    <2> QED BY <2>1, <2>2
  <1>9. ASSUME IsInjective(q) PROVE IsInjective(w)
    <2> SUFFICES ASSUME NEW k \in 1 .. c, NEW m \in 1 .. c, w[k] = w[m]
                 PROVE  k = m
      BY <1>7 DEF IsInjective
    <2>1. q[g(k)] = q[g(m)]
      BY <1>2
    <2>2. g(k) = g(m)
      BY <1>1, <1>5, <1>9, <2>1 DEF IsInjective
    <2> QED BY <1>5, <2>2
  <1> QED BY <1>7, <1>8, <1>9 DEF w, c, K

(* Without(q, S) is shorter than q by the number of positions of S in q.   *)
LEMMA KeptCount ==
  ASSUME NEW T, NEW q \in Seq(T), NEW S
  PROVE  /\ IsFiniteSet({i \in DOMAIN q : q[i] \in S})
         /\ Cardinality({i \in DOMAIN q : q[i] \in S}) \in Nat
         /\ Len(Without(q, S)) =
              Len(q) - Cardinality({i \in DOMAIN q : q[i] \in S})
PROOF
  <1> DEFINE D == 1 .. Len(q)
             dropped == {i \in D : q[i] \in S}
  <1>1. Len(q) \in Nat /\ DOMAIN q = D
    BY LenProperties
  <1>2. IsFiniteSet(D) /\ Cardinality(D) = Len(q)
    BY <1>1, FS_Interval, SMTT(30)
  <1>3. Kept(q, S) = D \ dropped /\ D \cap dropped = dropped
    BY <1>1 DEF Kept
  <1>4. IsFiniteSet(dropped) /\ Cardinality(dropped) \in Nat
    <2>1. dropped \in SUBSET D
      OBVIOUS
    <2>2. IsFiniteSet(dropped)
      BY <1>2, <2>1, FS_Subset
    <2> QED BY <2>2, FS_CardinalityType
  <1> HIDE DEF D, dropped
  <1>5. Cardinality(D \ dropped) = Cardinality(D) - Cardinality(dropped)
    BY <1>2, <1>3, FS_Difference, ZenonT(30)
  <1>6. Len(Without(q, S)) = Len(q) - Cardinality(dropped)
    <2>1. Len(Without(q, S)) = Cardinality(Kept(q, S))
      BY WithoutProperties
    <2> QED BY <1>2, <1>3, <1>5, <2>1
  <1>7. dropped = {i \in DOMAIN q : q[i] \in S}
    BY <1>1 DEF dropped
  <1> QED BY <1>4, <1>6, <1>7

(* Cutting a queue without duplicates in two.                              *)
LEMMA SplitInjective ==
  ASSUME NEW T, NEW q \in Seq(T), IsInjective(q), NEW k \in 0 .. Len(q)
  PROVE  LET a == SubSeq(q, 1, k)
             b == SubSeq(q, k + 1, Len(q))
         IN  /\ a \in Seq(T) /\ b \in Seq(T)
             /\ Len(a) = k
             /\ IsInjective(a) /\ IsInjective(b)
             /\ Range(a) \cup Range(b) = Range(q)
             /\ Range(a) \cap Range(b) = {}
PROOF
  <1> DEFINE a == SubSeq(q, 1, k)
             b == SubSeq(q, k + 1, Len(q))
             l == Len(q)
  <1>1. l \in Nat /\ k \in Nat /\ k <= l /\ DOMAIN q = 1 .. l /\ \A i \in 1 .. l : q[i] \in T
    BY LenProperties
  <1>2. a \in Seq(T) /\ Len(a) = k /\ \A i \in 1 .. k : a[i] = q[i]
    <2>1. \A i \in 1 .. k : q[i] \in T
      BY <1>1
    <2>2. k - 1 + 1 = k
      BY <1>1
    <2> HIDE DEF l
    <2> QED BY <1>1, <2>1, <2>2, SubSeqProperties
  <1>3. /\ b \in Seq(T) /\ Len(b) = l - k
        /\ \A i \in 1 .. l - k : b[i] = q[k + i]
    <2>1. \A i \in k + 1 .. l : q[i] \in T
      BY <1>1
    <2>2. k + 1 \in Int /\ l \in Int
      BY <1>1
    <2>3. /\ b \in Seq(T)
          /\ Len(b) = IF k + 1 <= l THEN l - (k + 1) + 1 ELSE 0
          /\ \A i \in 1 .. l - (k + 1) + 1 : b[i] = q[(k + 1) + i - 1]
      BY <2>1, <2>2, SubSeqProperties
    <2>4. Len(b) = l - k
      <3>1. l \in Nat /\ k \in Nat /\ k <= l
        BY <1>1
      <3> HIDE DEF l
      <3>2. (IF k + 1 <= l THEN l - (k + 1) + 1 ELSE 0) = l - k
        BY <3>1
      <3> QED BY <2>3, <3>2
    <2>5. ASSUME NEW i \in 1 .. l - k PROVE b[i] = q[k + i]
      <3>1. i \in 1 .. l - (k + 1) + 1 /\ (k + 1) + i - 1 = k + i
        BY <1>1
      <3> QED BY <2>3, <3>1
    <2> QED BY <2>3, <2>4, <2>5
  <1> HIDE DEF a, b, l
  <1>4. DOMAIN a = 1 .. k /\ DOMAIN b = 1 .. l - k
    BY <1>2, <1>3, LenProperties
  <1>5. IsInjective(a)
    BY <1>1, <1>2, <1>4 DEF IsInjective
  <1>6. IsInjective(b)
    <2> SUFFICES ASSUME NEW i \in 1 .. l - k, NEW j \in 1 .. l - k, b[i] = b[j]
                 PROVE  i = j
      BY <1>4 DEF IsInjective
    <2>1. k + i \in 1 .. l /\ k + j \in 1 .. l /\ q[k + i] = q[k + j]
      BY <1>1, <1>3
    <2>2. k + i = k + j
      BY <1>1, <2>1 DEF IsInjective
    <2> QED BY <1>1, <2>2
  <1>7. Range(a) \cup Range(b) = Range(q)
    <2>1. ASSUME NEW x \in Range(q) PROVE x \in Range(a) \cup Range(b)
      <3>1. PICK i \in 1 .. l : q[i] = x
        BY <1>1 DEF Range
      <3>2. CASE i <= k
        <4>1. i \in DOMAIN a /\ a[i] = x
          BY <1>1, <1>2, <1>4, <3>1, <3>2
        <4> QED BY <4>1 DEF Range
      <3>3. CASE k < i
        <4>1. i - k \in 1 .. l - k /\ k + (i - k) = i
          BY <1>1, <3>3
        <4>2. i - k \in DOMAIN b /\ b[i - k] = x
          BY <1>3, <1>4, <3>1, <4>1
        <4> QED BY <4>2 DEF Range
      <3> QED BY <1>1, <3>2, <3>3
    <2>2. ASSUME NEW x \in Range(a) PROVE x \in Range(q)
      <3>1. PICK i \in 1 .. k : a[i] = x
        BY <1>4 DEF Range
      <3>2. i \in DOMAIN q /\ q[i] = x
        BY <1>1, <1>2, <3>1
      <3> QED BY <3>2 DEF Range
    <2>3. ASSUME NEW x \in Range(b) PROVE x \in Range(q)
      <3>1. PICK i \in 1 .. l - k : b[i] = x
        BY <1>4 DEF Range
      <3>2. k + i \in DOMAIN q /\ q[k + i] = x
        BY <1>1, <1>3, <3>1
      <3> QED BY <3>2 DEF Range
    <2> QED BY <2>1, <2>2, <2>3
  <1>8. Range(a) \cap Range(b) = {}
    <2> SUFFICES ASSUME NEW i \in 1 .. k, NEW j \in 1 .. l - k, a[i] = b[j]
                 PROVE  FALSE
      BY <1>4 DEF Range
    <2>1. i \in DOMAIN q /\ k + j \in DOMAIN q /\ q[i] = q[k + j]
      BY <1>1, <1>2, <1>3
    <2>2. i = k + j
      BY <2>1 DEF IsInjective
    <2> QED BY <1>1, <2>2
  <1> QED BY <1>2, <1>3, <1>5, <1>6, <1>7, <1>8 DEF a, b, l

(* Joining two queues that share no element.                               *)
LEMMA JoinInjective ==
  ASSUME NEW T, NEW a \in Seq(T), NEW b \in Seq(T), IsInjective(a), IsInjective(b),
         Range(a) \cap Range(b) = {}
  PROVE  /\ a \o b \in Seq(T)
         /\ IsInjective(a \o b)
         /\ Range(a \o b) = Range(a) \cup Range(b)
PROOF
  <1> DEFINE c == a \o b
             m == Len(a)
             n == Len(b)
  <1>1. /\ m \in Nat /\ n \in Nat
        /\ DOMAIN a = 1 .. m /\ DOMAIN b = 1 .. n
    BY LenProperties
  <1>2. /\ c \in Seq(T) /\ Len(c) = m + n
        /\ \A i \in 1 .. m + n : c[i] = IF i <= m THEN a[i] ELSE b[i - m]
    BY ConcatProperties
  <1>3. DOMAIN c = 1 .. m + n
    BY <1>2, LenProperties
  <1>4. Range(c) = Range(a) \cup Range(b)
    BY RangeConcatenation
  <1> HIDE DEF c, m, n
  <1>5. ASSUME NEW i \in 1 .. m + n
        PROVE  \/ i \in DOMAIN a /\ c[i] = a[i] /\ i <= m
               \/ i - m \in DOMAIN b /\ c[i] = b[i - m] /\ i > m
    BY <1>1, <1>2
  <1>6. IsInjective(c)
    <2> SUFFICES ASSUME NEW i \in 1 .. m + n, NEW j \in 1 .. m + n, c[i] = c[j]
                 PROVE  i = j
      BY <1>3 DEF IsInjective
    <2>1. CASE i <= m /\ j <= m
      BY <1>1, <1>5, <2>1 DEF IsInjective
    <2>2. CASE i > m /\ j > m
      <3>1. i - m = j - m
        BY <1>1, <1>5, <2>2 DEF IsInjective
      <3> QED BY <1>1, <3>1
    <2>3. CASE i <= m /\ j > m
      <3>1. c[i] \in Range(a) /\ c[j] \in Range(b)
        BY <1>1, <1>5, <2>3 DEF Range
      <3> QED BY <3>1
    <2>4. CASE i > m /\ j <= m
      <3>1. c[j] \in Range(a) /\ c[i] \in Range(b)
        BY <1>1, <1>5, <2>4 DEF Range
      <3> QED BY <3>1
    <2> QED BY <1>1, <2>1, <2>2, <2>3, <2>4
  <1> QED BY <1>2, <1>4, <1>6 DEF c

(* Walking a queue backwards keeps its elements and keeps them apart.      *)
LEMMA ReverseInjective ==
  ASSUME NEW T, NEW q \in Seq(T)
  PROVE  /\ Reverse(q) \in Seq(T)
         /\ Range(Reverse(q)) = Range(q)
         /\ IsInjective(q) => IsInjective(Reverse(q))
PROOF
  <1> DEFINE l == Len(q)
             r == Reverse(q)
  <1>1. l \in Nat /\ DOMAIN q = 1 .. l /\ \A i \in 1 .. l : q[i] \in T
    BY LenProperties
  <1>2. r = [i \in 1 .. l |-> q[(l - i) + 1]]
    BY DEF Reverse
  <1> HIDE DEF l, r
  <1>3. \A i \in 1 .. l : (l - i) + 1 \in 1 .. l /\ (l - ((l - i) + 1)) + 1 = i
    BY <1>1
  <1>4. r \in Seq(T) /\ DOMAIN r = 1 .. l
    <2>1. r \in [1 .. l -> T]
      BY <1>1, <1>2, <1>3
    <2> QED BY <1>1, <2>1, SeqDef
  <1>5. Range(r) = Range(q)
    <2>1. ASSUME NEW x \in Range(r) PROVE x \in Range(q)
      <3>1. PICK i \in 1 .. l : r[i] = x
        BY <1>4 DEF Range
      <3>2. q[(l - i) + 1] = x /\ (l - i) + 1 \in DOMAIN q
        BY <1>1, <1>2, <1>3, <3>1
      <3> QED BY <3>2 DEF Range
    <2>2. ASSUME NEW x \in Range(q) PROVE x \in Range(r)
      <3>1. PICK i \in 1 .. l : q[i] = x
        BY <1>1 DEF Range
      <3>2. r[(l - i) + 1] = x /\ (l - i) + 1 \in DOMAIN r
        BY <1>2, <1>3, <1>4, <3>1
      <3> QED BY <3>2 DEF Range
    <2> QED BY <2>1, <2>2
  <1>6. ASSUME IsInjective(q) PROVE IsInjective(r)
    <2> SUFFICES ASSUME NEW i \in 1 .. l, NEW j \in 1 .. l, r[i] = r[j]
                 PROVE  i = j
      BY <1>4 DEF IsInjective
    <2>1. (l - i) + 1 = (l - j) + 1
      BY <1>1, <1>2, <1>3, <1>6 DEF IsInjective
    <2> QED BY <1>1, <2>1
  <1> QED BY <1>4, <1>5, <1>6 DEF r
-----------------------------------------------------------------------------
(* What a deque holds after it is changed at one of its ends.              *)
LEMMA Appended ==
  ASSUME NEW T, NEW q \in Seq(T), NEW x \in T
  PROVE  /\ Append(q, x) \in Seq(T)
         /\ Len(Append(q, x)) = Len(q) + 1
         /\ Range(Append(q, x)) = Range(q) \cup {x}
         /\ IsInjective(q) /\ x \notin Range(q) => IsInjective(Append(q, x))
         /\ Append(q, x) # <<>> /\ Last(Append(q, x)) = x
         /\ \A i \in DOMAIN q : Append(q, x)[i] = q[i]
         /\ DOMAIN Append(q, x) = DOMAIN q \cup {Len(q) + 1}
<1> DEFINE a == Append(q, x)
<1>1. /\ a \in Seq(T) /\ Len(a) = Len(q) + 1 /\ Len(q) \in Nat
      /\ DOMAIN a = 1 .. Len(q) + 1 /\ DOMAIN q = 1 .. Len(q)
      /\ \A i \in 1 .. Len(q) : a[i] = q[i]
      /\ a[Len(q) + 1] = x
  OBVIOUS
<1> HIDE DEF a
<1>2. Range(a) = Range(q) \cup {x}
  BY <1>1 DEF Range
<1>3. IsInjective(q) /\ x \notin Range(q) => IsInjective(a)
  BY <1>1 DEF IsInjective, Range
<1>4. a # <<>> /\ Last(a) = x
  BY <1>1 DEF Last
<1> QED BY <1>1, <1>2, <1>3, <1>4 DEF a

(* A queue of one.                                                         *)
LEMMA Singleton ==
  ASSUME NEW T, NEW x \in T
  PROVE  <<x>> \in Seq(T) /\ IsInjective(<<x>>) /\ Range(<<x>>) = {x} /\ Len(<<x>>) = 1
BY DEF IsInjective, Range

(* A queue with one more at its front.                                     *)
LEMMA Pushed ==
  ASSUME NEW T, NEW q \in Seq(T), NEW x \in T
  PROVE  /\ <<x>> \o q \in Seq(T)
         /\ Len(<<x>> \o q) = Len(q) + 1
         /\ Range(<<x>> \o q) = Range(q) \cup {x}
         /\ IsInjective(q) /\ x \notin Range(q) => IsInjective(<<x>> \o q)
<1> DEFINE a == <<x>>
<1>1. a \in Seq(T) /\ IsInjective(a) /\ Range(a) = {x} /\ Len(a) = 1
  BY Singleton
<1> HIDE DEF a
<1>2. a \o q \in Seq(T) /\ Len(a \o q) = Len(q) + 1
  <2>1. a \o q \in Seq(T) /\ Len(a \o q) = 1 + Len(q) /\ Len(q) \in Nat
    BY <1>1, ConcatProperties, LenProperties, ZenonT(30)
  <2> QED BY <2>1
<1>3. Range(a \o q) = Range(q) \cup {x}
  BY <1>1, RangeConcatenation
<1>4. IsInjective(q) /\ x \notin Range(q) => IsInjective(a \o q)
  BY <1>1, JoinInjective
<1> QED BY <1>2, <1>3, <1>4 DEF a

(* A queue and what is left of it without its head.                        *)
LEMMA Popped ==
  ASSUME NEW T, NEW q \in Seq(T), q # <<>>
  PROVE  /\ Head(q) \in T /\ Tail(q) \in Seq(T)
         /\ Len(q) = Len(Tail(q)) + 1
         /\ Range(q) = {Head(q)} \cup Range(Tail(q))
         /\ IsInjective(q) => IsInjective(Tail(q)) /\ Head(q) \notin Range(Tail(q))
<1>1. /\ Tail(q) \in Seq(T) /\ Len(q) \in Nat /\ Len(q) > 0 /\ Len(Tail(q)) = Len(q) - 1
      /\ DOMAIN q = 1 .. Len(q) /\ DOMAIN Tail(q) = 1 .. Len(q) - 1
      /\ Head(q) = q[1] /\ \A i \in 1 .. Len(q) - 1 : Tail(q)[i] = q[i + 1]
      /\ Head(q) \in T
  OBVIOUS
<1>2. ASSUME NEW i \in 1 .. Len(q) PROVE q[i] \in {Head(q)} \cup Range(Tail(q))
  <2>1. CASE i = 1
    BY <1>1, <2>1
  <2>2. CASE i # 1
    <3>1. i - 1 \in 1 .. Len(q) - 1 /\ (i - 1) + 1 = i
      BY <1>1, <2>2
    <3>2. q[i] = Tail(q)[i - 1]
      BY <1>1, <3>1
    <3> QED BY <1>1, <3>1, <3>2 DEF Range
  <2> QED BY <2>1, <2>2
<1>3. Range(q) = {Head(q)} \cup Range(Tail(q))
  BY <1>1, <1>2 DEF Range
<1>4. IsInjective(q) => IsInjective(Tail(q)) /\ Head(q) \notin Range(Tail(q))
  BY <1>1 DEF IsInjective, Range
<1> QED BY <1>1, <1>3, <1>4

(* A queue and what is left of it without its last.                        *)
LEMMA Shortened ==
  ASSUME NEW T, NEW q \in Seq(T), q # <<>>
  PROVE  /\ Last(q) \in T /\ Front(q) \in Seq(T)
         /\ Len(q) = Len(Front(q)) + 1
         /\ Range(q) = {Last(q)} \cup Range(Front(q))
         /\ IsInjective(q) => IsInjective(Front(q)) /\ Last(q) \notin Range(Front(q))
<1> DEFINE n == Len(q) - 1
<1>1. /\ Len(q) \in Nat /\ n \in Nat /\ Len(q) = n + 1
      /\ DOMAIN q = 1 .. n + 1 /\ \A i \in 1 .. n + 1 : q[i] \in T
  OBVIOUS
<1> HIDE DEF n
<1>2. /\ Front(q) = SubSeq(q, 1, n) /\ Last(q) = q[n + 1]
      /\ Front(q) \in Seq(T) /\ Len(Front(q)) = n /\ DOMAIN Front(q) = 1 .. n
      /\ \A i \in 1 .. n : Front(q)[i] = q[i]
  <2>1. Front(q) = SubSeq(q, 1, n) /\ Last(q) = q[n + 1]
    BY <1>1 DEF Front, Last, n
  <2>2. \A i \in 1 .. n : q[i] \in T
    BY <1>1
  <2>3. /\ SubSeq(q, 1, n) \in Seq(T) /\ Len(SubSeq(q, 1, n)) = n
        /\ \A i \in 1 .. n : SubSeq(q, 1, n)[i] = q[i]
    BY <1>1, <2>2, SubSeqProperties
  <2> QED BY <1>1, <2>1, <2>3, LenProperties
<1>3. Range(q) = {Last(q)} \cup Range(Front(q))
  BY <1>1, <1>2 DEF Range
<1>4. IsInjective(q) => IsInjective(Front(q)) /\ Last(q) \notin Range(Front(q))
  BY <1>1, <1>2 DEF IsInjective, Range
<1> QED BY <1>1, <1>2, <1>3, <1>4

-----------------------------------------------------------------------------
(* Queues of numbers in increasing order.                                  *)
Sorted(q)    == \A i, j \in DOMAIN q : i < j => q[i] < q[j]
Before(A, B) == \A x \in A, y \in B : x < y

(* Two sorted queues, one before the other, join into a sorted one.        *)
LEMMA SortedJoined ==
  ASSUME NEW T, NEW a \in Seq(T), NEW b \in Seq(T), Sorted(a), Sorted(b),
         Before(Range(a), Range(b))
  PROVE  Sorted(a \o b)
<1> DEFINE c == a \o b
           m == Len(a)
<1>1. /\ m \in Nat /\ Len(b) \in Nat /\ DOMAIN a = 1 .. m /\ DOMAIN b = 1 .. Len(b)
      /\ DOMAIN c = 1 .. m + Len(b)
      /\ \A i \in 1 .. m + Len(b) : c[i] = IF i <= m THEN a[i] ELSE b[i - m]
  OBVIOUS
<1> HIDE DEF c, m
<1> SUFFICES ASSUME NEW i \in 1 .. m + Len(b), NEW j \in 1 .. m + Len(b), i < j
             PROVE  c[i] < c[j]
  BY <1>1 DEF Sorted, c
<1>2. CASE j <= m
  BY <1>1, <1>2 DEF Sorted
<1>3. CASE i <= m /\ m < j
  <2>1. j - m \in DOMAIN b /\ i \in DOMAIN a
    BY <1>1, <1>3
  <2>2. c[i] = a[i] /\ c[j] = b[j - m]
    BY <1>1, <1>3
  <2>3. a[i] \in Range(a) /\ b[j - m] \in Range(b)
    BY <2>1 DEF Range
  <2> QED BY <2>2, <2>3 DEF Before
<1>4. CASE m < i
  <2>1. j - m \in DOMAIN b /\ i - m \in DOMAIN b /\ i - m < j - m
    BY <1>1, <1>4
  <2> QED BY <1>1, <1>4, <2>1, SMTT(30) DEF Sorted
<1> QED BY <1>1, <1>2, <1>3, <1>4

(* The latest joins at the back.                                           *)
LEMMA SortedAppended ==
  ASSUME NEW T, NEW q \in Seq(T), NEW x \in T, Sorted(q), Before(Range(q), {x})
  PROVE  Sorted(Append(q, x))
<1>1. /\ Len(q) \in Nat /\ DOMAIN q = 1 .. Len(q)
      /\ DOMAIN Append(q, x) = 1 .. Len(q) + 1
      /\ \A i \in 1 .. Len(q) : Append(q, x)[i] = q[i]
      /\ Append(q, x)[Len(q) + 1] = x
  OBVIOUS
<1> SUFFICES ASSUME NEW i \in 1 .. Len(q) + 1, NEW j \in 1 .. Len(q) + 1, i < j
             PROVE  Append(q, x)[i] < Append(q, x)[j]
  BY <1>1 DEF Sorted
<1>2. i \in DOMAIN q
  BY <1>1
<1> QED BY <1>1, <1>2 DEF Sorted, Before, Range

(* The earliest joins at the front.                                        *)
LEMMA SortedPushed ==
  ASSUME NEW T, NEW q \in Seq(T), NEW x \in T, Sorted(q), Before({x}, Range(q))
  PROVE  Sorted(<<x>> \o q)
<1>1. <<x>> \in Seq(T) /\ Range(<<x>>) = {x} /\ Sorted(<<x>>)
  BY Singleton DEF Sorted
<1> QED BY <1>1, SortedJoined

(* The head of a sorted queue is before all others.                        *)
LEMMA SortedPopped ==
  ASSUME NEW T, NEW q \in Seq(T), q # <<>>, Sorted(q)
  PROVE  Sorted(Tail(q)) /\ Before({Head(q)}, Range(Tail(q)))
<1>1. /\ Len(q) \in Nat /\ Len(q) > 0 /\ DOMAIN q = 1 .. Len(q)
      /\ DOMAIN Tail(q) = 1 .. Len(q) - 1
      /\ Head(q) = q[1] /\ \A i \in 1 .. Len(q) - 1 : Tail(q)[i] = q[i + 1]
  OBVIOUS
<1>2. \A i \in 1 .. Len(q) - 1 : i + 1 \in DOMAIN q /\ 1 \in DOMAIN q /\ 1 < i + 1
  BY <1>1
<1>3. Sorted(Tail(q))
  BY <1>1, <1>2 DEF Sorted
<1>4. Before({Head(q)}, Range(Tail(q)))
  BY <1>1, <1>2 DEF Sorted, Before, Range
<1> QED BY <1>3, <1>4

(* The last of a sorted queue is after all others.                         *)
LEMMA SortedShortened ==
  ASSUME NEW T, NEW q \in Seq(T), q # <<>>, Sorted(q)
  PROVE  Sorted(Front(q)) /\ Before(Range(Front(q)), {Last(q)})
<1> DEFINE n == Len(q) - 1
<1>1. /\ Len(q) \in Nat /\ n \in Nat /\ Len(q) = n + 1 /\ DOMAIN q = 1 .. n + 1
      /\ \A i \in 1 .. n + 1 : q[i] \in T
  OBVIOUS
<1> HIDE DEF n
<1>2. /\ Front(q) = SubSeq(q, 1, n) /\ Last(q) = q[n + 1]
      /\ DOMAIN Front(q) = 1 .. n /\ \A i \in 1 .. n : Front(q)[i] = q[i]
  <2>1. Front(q) = SubSeq(q, 1, n) /\ Last(q) = q[n + 1]
    BY <1>1 DEF Front, Last, n
  <2>2. \A i \in 1 .. n : q[i] \in T
    BY <1>1
  <2>3. /\ SubSeq(q, 1, n) \in Seq(T) /\ Len(SubSeq(q, 1, n)) = n
        /\ \A i \in 1 .. n : SubSeq(q, 1, n)[i] = q[i]
    BY <1>1, <2>2, SubSeqProperties
  <2> QED BY <1>1, <2>1, <2>3, LenProperties
<1>3. \A i \in 1 .. n : i \in DOMAIN q /\ n + 1 \in DOMAIN q /\ i < n + 1
  BY <1>1
<1>4. Sorted(Front(q))
  BY <1>2, <1>3 DEF Sorted
<1>5. Before(Range(Front(q)), {Last(q)})
  BY <1>2, <1>3 DEF Sorted, Before, Range
<1> QED BY <1>4, <1>5

(* Without(q, S) keeps the order of q.                                     *)
LEMMA SortedWithout ==
  ASSUME NEW T, NEW q \in Seq(T), NEW S, Sorted(q)
  PROVE  Sorted(Without(q, S))
<1> DEFINE K == Kept(q, S)
           c == Cardinality(K)
           R(i) == Rank(q, S, i)
           g(k) == CHOOSE i \in K : R(i) = k
           w == Without(q, S)
<1>1. Len(q) \in Nat /\ DOMAIN q = 1 .. Len(q)
  BY LenProperties
<1>2. /\ K \subseteq DOMAIN q /\ IsFiniteSet(K)
      /\ c \in Nat
      /\ \A i \in K : R(i) \in 1 .. c
      /\ \A k \in 1 .. c : \E i \in K : R(i) = k
  BY <1>1, RankBijection
<1>3. w = [k \in 1 .. c |-> q[g(k)]]
  BY DEF Without
<1>4. ASSUME NEW i \in K, NEW j \in K, i <= j PROVE R(i) <= R(j)
  <2>1. {k \in K : k <= i} \subseteq {k \in K : k <= j}
    BY <1>1, <1>2, <1>4
  <2>2. IsFiniteSet({k \in K : k <= j})
    BY <1>2, FS_Subset
  <2> QED BY <2>1, <2>2, FS_Subset DEF Rank
<1> HIDE DEF K, R, c, w
<1>5. \A k \in 1 .. c : g(k) \in K /\ R(g(k)) = k
  BY <1>2
<1> HIDE DEF g
<1> SUFFICES ASSUME NEW k \in 1 .. c, NEW m \in 1 .. c, k < m PROVE w[k] < w[m]
  BY <1>3 DEF Sorted, w
<1>6. g(k) \in K /\ g(m) \in K /\ R(g(k)) = k /\ R(g(m)) = m
  BY <1>5
<1>7. g(k) \in 1 .. Len(q) /\ g(m) \in 1 .. Len(q)
  BY <1>1, <1>2, <1>6
<1>8. ~ (g(m) <= g(k))
  <2>1. g(m) <= g(k) => m <= k
    BY <1>4, <1>6
  <2> QED BY <2>1
<1>9. g(k) < g(m)
  BY <1>1, <1>7, <1>8
<1> QED BY <1>1, <1>3, <1>7, <1>9 DEF Sorted
=============================================================================
