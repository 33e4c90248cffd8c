------------------------ MODULE BlockManagerProofs --------------------------
(***************************************************************************)
(* The allocator keeps its invariant, for every pool, block size,          *)
(* vocabulary and set of sequences.                                        *)
(***************************************************************************)
EXTENDS BlockManager, QueueLemmas, WellFoundedInduction

(* The accounting is inductive only together with the labels: allocate     *)
(* takes blocks out of the index, and two of them differ because their     *)
(* labels do; a label is never lost from the index's point of view because *)
(* hash_blocks only writes to blocks that carry none.                      *)
BMInv ==
  /\ BMTypeOK
  /\ BlockAccounting
  /\ TablesLabelled
  /\ IndexSound

(* TablesLabelled, for one sequence, whose table may be longer than its    *)
(* tokens need.                                                            *)
LabelledTable(s) ==
  /\ num_cached_tokens[s] <= Len(token_ids[s])
  /\ num_cached_tokens[s] <= Len(block_table[s]) * BlockSize
  /\ \A i \in DOMAIN block_table[s] :
       IF i <= full_blocks(s)
       THEN hash[block_table[s][i]] = Chain(s, i)
       ELSE /\ hash[block_table[s][i]] = NoHash
            /\ Holders(block_table[s][i]) = {s}

LabelledTables == \A s \in Seqs : LabelledTable(s)

(* What also callers keep that get out of step with their tables.          *)
PoolInv ==
  /\ BMTypeOK
  /\ BlockAccounting
  /\ LabelledTables
  /\ IndexSound

(* No table is longer than the tokens of its sequence need.                *)
NoSpareBlocks == \A s \in Seqs : Len(block_table[s]) <= num_blocks(s)

(* The invariant is the two together.                                      *)
LEMMA BMParts == BMInv <=> PoolInv /\ NoSpareBlocks
BY DEF BMInv, PoolInv, NoSpareBlocks, TablesLabelled, LabelledTables, LabelledTable

-----------------------------------------------------------------------------
(* The operators the allocator is built from: block arithmetic, and the    *)
(* prefix of a sequence that the index knows.                              *)

(* Multiplication by the block size is strictly monotonic.                 *)
LEMMA TimesBlockSize ==
  ASSUME NEW i \in Nat, NEW j \in Nat
  PROVE  /\ i * BlockSize \in Nat
         /\ i <= j => i * BlockSize <= j * BlockSize
         /\ i < j => i * BlockSize + BlockSize <= j * BlockSize
         /\ (i + 1) * BlockSize = i * BlockSize + BlockSize
         /\ 0 * BlockSize = 0
         /\ i > 0 => i * BlockSize > 0
PROOF
  <1>1. BlockSize \in Nat /\ BlockSize > 1
    BY BlockSizeAssumption
  <1>2. ASSUME i <= j PROVE i * BlockSize <= j * BlockSize
    BY <1>1, <1>2
  <1>3. ASSUME i < j PROVE i * BlockSize + BlockSize <= j * BlockSize
    <2>1. (i + 1) * BlockSize <= j * BlockSize
      BY <1>1, <1>3
    <2> QED BY <1>1, <2>1
  <1>4. ASSUME i > 0 PROVE i * BlockSize > 0
    BY <1>1, <1>4
  <1>5. /\ (i + 1) * BlockSize = i * BlockSize + BlockSize
        /\ 0 * BlockSize = 0
        /\ i * BlockSize \in Nat
    BY <1>1
  <1> QED BY <1>2, <1>3, <1>4, <1>5

(* Division by the block size.                                             *)
LEMMA DivBlockSize ==
  ASSUME NEW n \in Nat
  PROVE  /\ n \div BlockSize \in Nat
         /\ (n \div BlockSize) * BlockSize <= n
         /\ n < (n \div BlockSize) * BlockSize + BlockSize
PROOF
  BY BlockSizeAssumption

(* The quotient by the block size is the only number with its bounds.      *)
LEMMA DivUnique ==
  ASSUME NEW n \in Nat, NEW q \in Nat, q * BlockSize <= n, n < q * BlockSize + BlockSize
  PROVE  n \div BlockSize = q
PROOF
  <1> DEFINE d == n \div BlockSize
  <1>1. /\ d \in Nat
        /\ d * BlockSize <= n
        /\ n < d * BlockSize + BlockSize
    BY DivBlockSize
  <1> HIDE DEF d
  <1>2. ~ (d < q)
    <2> SUFFICES ASSUME d < q PROVE FALSE
      OBVIOUS
    <2>1. d * BlockSize + BlockSize <= q * BlockSize
      BY <1>1, TimesBlockSize
    <2>2. q * BlockSize \in Nat /\ d * BlockSize \in Nat /\ BlockSize \in Nat
      BY <1>1, TimesBlockSize, BlockSizeAssumption
    <2> QED BY <1>1, <2>1, <2>2
  <1>3. ~ (q < d)
    <2> SUFFICES ASSUME q < d PROVE FALSE
      OBVIOUS
    <2>1. q * BlockSize + BlockSize <= d * BlockSize
      BY <1>1, TimesBlockSize
    <2>2. q * BlockSize \in Nat /\ d * BlockSize \in Nat /\ BlockSize \in Nat
      BY <1>1, TimesBlockSize, BlockSizeAssumption
    <2> QED BY <1>1, <2>1, <2>2
  <1>4. d = q
    BY <1>1, <1>2, <1>3
  <1> QED BY <1>4 DEF d

(* As many blocks as n tokens need, the last one possibly partly filled.   *)
LEMMA BlocksForBounds ==
  ASSUME NEW n \in Nat
  PROVE  /\ BlocksFor(n) \in Nat
         /\ n <= BlocksFor(n) * BlockSize
         /\ BlocksFor(n) * BlockSize < n + BlockSize
         /\ n > 0 => BlocksFor(n) > 0
         /\ n > 0 => (BlocksFor(n) - 1) * BlockSize < n
PROOF
  <1> DEFINE m == n + BlockSize - 1
  <1>1. BlockSize \in Nat /\ BlockSize > 1 /\ m \in Nat
    BY BlockSizeAssumption
  <1>2. BlocksFor(n) = m \div BlockSize
    BY DEF BlocksFor
  <1>3. /\ BlocksFor(n) \in Nat
        /\ BlocksFor(n) * BlockSize <= m
        /\ m < BlocksFor(n) * BlockSize + BlockSize
    BY <1>1, <1>2, DivBlockSize
  <1>4. BlocksFor(n) * BlockSize \in Nat
    BY <1>3, TimesBlockSize
  <1>5. /\ n <= BlocksFor(n) * BlockSize
        /\ BlocksFor(n) * BlockSize < n + BlockSize
    BY <1>1, <1>3, <1>4
  <1>6. ASSUME n > 0 PROVE BlocksFor(n) > 0
    BY <1>3, <1>5, <1>6, TimesBlockSize
  <1>7. ASSUME n > 0 PROVE (BlocksFor(n) - 1) * BlockSize < n
    <2>1. BlocksFor(n) - 1 \in Nat /\ (BlocksFor(n) - 1) + 1 = BlocksFor(n)
      BY <1>3, <1>6, <1>7
    <2>2. BlocksFor(n) * BlockSize = (BlocksFor(n) - 1) * BlockSize + BlockSize
      BY <2>1, TimesBlockSize
    <2>3. (BlocksFor(n) - 1) * BlockSize \in Nat
      BY <2>1, TimesBlockSize
    <2> QED BY <1>1, <1>5, <2>2, <2>3
  <1> QED BY <1>3, <1>5, <1>6, <1>7

(* BlocksFor is the least number of blocks that holds n tokens, and grows  *)
(* with n.                                                                 *)
LEMMA BlocksForLeast ==
  ASSUME NEW n \in Nat, NEW k \in Nat, n <= k * BlockSize
  PROVE  BlocksFor(n) <= k
PROOF
  <1> SUFFICES ASSUME k < BlocksFor(n) PROVE FALSE
    BY BlocksForBounds
  <1>1. k * BlockSize + BlockSize <= BlocksFor(n) * BlockSize
    BY BlocksForBounds, TimesBlockSize
  <1>2. /\ k * BlockSize \in Nat
        /\ BlocksFor(n) * BlockSize \in Nat
        /\ BlockSize \in Nat
    BY BlocksForBounds, TimesBlockSize, BlockSizeAssumption
  <1> QED BY <1>1, <1>2, BlocksForBounds

(* More tokens never need fewer blocks.                                    *)
LEMMA BlocksForMonotonic ==
  ASSUME NEW n \in Nat, NEW m \in Nat, n <= m
  PROVE  BlocksFor(n) <= BlocksFor(m)
PROOF
  <1>1. BlocksFor(m) \in Nat /\ m <= BlocksFor(m) * BlockSize
    BY BlocksForBounds
  <1>2. BlocksFor(m) * BlockSize \in Nat
    BY <1>1, TimesBlockSize
  <1>3. n <= BlocksFor(m) * BlockSize
    BY <1>1, <1>2
  <1> QED BY <1>1, <1>3, BlocksForLeast

(* A table at least as long as n tokens need holds them.                   *)
LEMMA EnoughBlocks ==
  ASSUME NEW n \in Nat, NEW k \in Nat, k >= BlocksFor(n)
  PROVE  n <= k * BlockSize
PROOF
  <1>1. BlocksFor(n) \in Nat /\ n <= BlocksFor(n) * BlockSize
    BY BlocksForBounds
  <1>2. BlocksFor(n) * BlockSize <= k * BlockSize
    BY <1>1, TimesBlockSize
  <1>3. BlocksFor(n) * BlockSize \in Nat /\ k * BlockSize \in Nat
    BY <1>1, TimesBlockSize
  <1> QED BY <1>1, <1>2, <1>3

(* A sequence whose length leaves remainder 1 starts a new block with its  *)
(* last token; every block before it is full.                              *)
LEMMA NewBlockStarts ==
  ASSUME NEW n \in Nat, n > 0, n % BlockSize = 1
  PROVE  /\ (n - 1) \div BlockSize = BlocksFor(n - 1)
         /\ BlocksFor(n) = BlocksFor(n - 1) + 1
PROOF
  <1> DEFINE q == n \div BlockSize
  <1>1. BlockSize \in Nat /\ BlockSize > 1 /\ n - 1 \in Nat
    BY BlockSizeAssumption
  <1>2. q \in Nat /\ q * BlockSize \in Nat
    BY DivBlockSize, TimesBlockSize
  <1>3. n = q * BlockSize + (n % BlockSize)
    BY <1>1
  <1> HIDE DEF q
  <1>4. n - 1 = q * BlockSize
    BY <1>1, <1>2, <1>3
  <1>5. (n - 1) \div BlockSize = q
    BY <1>1, <1>2, <1>4, DivUnique
  <1>6. ((n - 1) + BlockSize - 1) \div BlockSize = q
    <2>1. (n - 1) + BlockSize - 1 \in Nat
      BY <1>1
    <2>2. /\ q * BlockSize <= (n - 1) + BlockSize - 1
          /\ (n - 1) + BlockSize - 1 < q * BlockSize + BlockSize
      BY <1>1, <1>2, <1>4
    <2> QED BY <1>2, <2>1, <2>2, DivUnique
  <1>7. (n + BlockSize - 1) \div BlockSize = q + 1
    <2>1. (q + 1) * BlockSize = q * BlockSize + BlockSize
      BY <1>2, TimesBlockSize
    <2>2. /\ n + BlockSize - 1 \in Nat
          /\ q + 1 \in Nat
          /\ (q + 1) * BlockSize <= n + BlockSize - 1
          /\ n + BlockSize - 1 < (q + 1) * BlockSize + BlockSize
      BY <1>1, <1>2, <1>4, <2>1
    <2> QED BY <2>2, DivUnique
  <1> QED BY <1>5, <1>6, <1>7 DEF BlocksFor

-----------------------------------------------------------------------------
(* The prefix of a created sequence that the index knows is well defined:  *)
(* all its blocks hit, and it never covers the last block.                 *)
LEMMA CachedBlocksHit ==
  ASSUME BMTypeOK, NEW s \in Seqs, token_ids[s] # <<>>
  PROVE  /\ num_blocks(s) \in Nat \ {0}
         /\ num_cached_blocks(s) \in 0 .. num_blocks(s) - 1
         /\ \A i \in 1 .. num_cached_blocks(s) : Hit(s, i)
PROOF
  <1> DEFINE N == num_blocks(s)
             H(i) == Hit(s, i)
             T == {n \in 0 .. N - 1 : n < N - 1 => ~ H(n + 1)}
             ok(n) == /\ \A i \in 1 .. n : H(i)
                      /\ n < N - 1 => ~ H(n + 1)
  <1>1. N \in Nat \ {0}
    <2>1. token_ids[s] \in Seq(Token)
      BY DEF BMTypeOK
    <2>2. Len(token_ids[s]) \in Nat \ {0}
      BY <2>1, EmptySeq
    <2>3. ASSUME NEW l \in Nat \ {0} PROVE BlocksFor(l) \in Nat \ {0}
      <3>1. l \in Nat /\ l > 0
        OBVIOUS
      <3>2. BlocksFor(l) \in Nat /\ BlocksFor(l) > 0
        BY <3>1, BlocksForBounds
      <3> QED BY <3>2
    <2> QED BY <2>2, <2>3 DEF num_blocks
  <1>2. num_cached_blocks(s) = CHOOSE n \in 0 .. N - 1 : ok(n)
    BY DEF num_cached_blocks
  <1> HIDE DEF N, H
  <1>3. PICK n \in T : \A m \in T : ~ (m < n)
    <2>1. T \subseteq Nat
      BY <1>1
    <2>2. N - 1 \in T
      BY <1>1
    <2>3. \E n \in T : \A m \in T : ~ (<<m, n>> \in OpToRel(<, Nat))
      <3> HIDE DEF T
      <3> QED BY <2>1, <2>2, WFMin, NatLessThanWellFounded
    <2>4. \A m, n \in Nat : <<m, n>> \in OpToRel(<, Nat) <=> m < n
      BY DEF OpToRel
    <2> HIDE DEF T
    <2> QED BY <2>1, <2>3, <2>4
  <1>4. ASSUME NEW i \in 1 .. n PROVE H(i)
    <2>1. n \in Nat /\ n <= N - 1
      BY <1>1, <1>3
    <2>2. i - 1 \in 0 .. N - 1 /\ i - 1 < n /\ (i - 1) + 1 = i
      BY <1>1, <2>1
    <2>3. i - 1 \notin T
      BY <1>3, <2>2
    <2> QED BY <2>2, <2>3
  <1>5. ok(n) /\ n \in 0 .. N - 1
    BY <1>3, <1>4
  <1> HIDE DEF ok
  <1>6. ok(CHOOSE n_1 \in 0 .. N - 1 : ok(n_1)) /\ (CHOOSE n_1 \in 0 .. N - 1 : ok(n_1)) \in 0 .. N - 1
    BY <1>5
  <1>7. ok(num_cached_blocks(s)) /\ num_cached_blocks(s) \in 0 .. N - 1
    BY <1>2, <1>6
  <1> QED BY <1>1, <1>7 DEF ok, N, H

-----------------------------------------------------------------------------
(* The first i blocks of a sequence, as a label.                           *)
LEMMA ChainProperties ==
  ASSUME BMTypeOK, NEW s \in Seqs, NEW i \in Nat,
         i * BlockSize <= Len(token_ids[s])
  PROVE  /\ Chain(s, i) \in Seq(Token)
         /\ Len(Chain(s, i)) = i * BlockSize
         /\ i > 0 => Chain(s, i) # NoHash
PROOF
  <1> DEFINE q == token_ids[s]
             n == i * BlockSize
  <1>1. q \in Seq(Token) /\ Len(q) \in Nat /\ \A j \in 1 .. Len(q) : q[j] \in Token
    <2>1. q \in Seq(Token)
      BY DEF BMTypeOK
    <2> HIDE DEF q
    <2> QED BY <2>1, LenProperties
  <1>2. n \in Nat /\ (i > 0 => n > 0)
    BY TimesBlockSize
  <1>3. Chain(s, i) = SubSeq(q, 1, n)
    BY DEF Chain
  <1>4. n <= Len(q)
    OBVIOUS
  <1> HIDE DEF q, n
  <1>5. SubSeq(q, 1, n) \in Seq(Token) /\ Len(SubSeq(q, 1, n)) = n
    <2>1. \A j \in 1 .. n : q[j] \in Token
      BY <1>1, <1>2, <1>4
    <2>2. /\ SubSeq(q, 1, n) \in Seq(Token)
          /\ Len(SubSeq(q, 1, n)) = IF 1 <= n THEN n - 1 + 1 ELSE 0
      BY <1>2, <2>1, SubSeqProperties
    <2> QED BY <1>2, <2>2
  <1>6. Len(NoHash) = 0
    BY EmptySeq DEF NoHash
  <1>7. ASSUME i > 0 PROVE Chain(s, i) # NoHash
    BY <1>2, <1>3, <1>5, <1>6, <1>7
  <1> QED BY <1>3, <1>5, <1>7 DEF n

(* The blocks before the last one are full.                                *)
LEMMA BlocksBeforeLast ==
  ASSUME BMTypeOK, NEW s \in Seqs, NEW i \in Nat, i < num_blocks(s)
  PROVE  i * BlockSize <= Len(token_ids[s])
PROOF
  <1> DEFINE l == Len(token_ids[s])
             N == BlocksFor(l)
  <1>1. l \in Nat
    <2>1. token_ids[s] \in Seq(Token)
      BY DEF BMTypeOK
    <2> QED BY <2>1, LenProperties
  <1>2. i < N
    BY DEF num_blocks
  <1> HIDE DEF l
  <1>3. N \in Nat /\ N * BlockSize < l + BlockSize
    BY <1>1, BlocksForBounds
  <1> HIDE DEF N
  <1>4. i * BlockSize + BlockSize <= N * BlockSize
    BY <1>2, <1>3, TimesBlockSize
  <1>5. /\ i * BlockSize \in Nat
        /\ N * BlockSize \in Nat
        /\ BlockSize \in Nat
    BY <1>3, TimesBlockSize, BlockSizeAssumption
  <1>6. i * BlockSize <= l
    BY <1>1, <1>3, <1>4, <1>5
  <1> QED BY <1>6 DEF l

(* The blocks the index offers to a sequence are labelled with its         *)
(* prefixes, hence distinct.                                               *)
LEMMA CachedIdsProperties ==
  ASSUME BMTypeOK, IndexSound, NEW s \in Seqs, token_ids[s] # <<>>
  PROVE  /\ CachedIds(s) \in Seq(Blocks)
         /\ Len(CachedIds(s)) = num_cached_blocks(s)
         /\ IsInjective(CachedIds(s))
         /\ \A i \in 1 .. num_cached_blocks(s) :
              /\ hash[CachedIds(s)[i]] = Chain(s, i)
              /\ Chain(s, i) # NoHash
PROOF
  <1> DEFINE k == num_cached_blocks(s)
             N == num_blocks(s)
             c == CachedIds(s)
             id(i) == hash_to_block_id[Chain(s, i)]
  <1>1. N \in Nat /\ k \in 0 .. N - 1 /\ \A i \in 1 .. k : Hit(s, i)
    BY CachedBlocksHit
  <1>2. c = [i \in 1 .. k |-> id(i)]
    BY DEF CachedIds
  <1> HIDE DEF k, N, c
  <1>3. k \in Nat /\ \A i \in 1 .. k : i \in Nat /\ i > 0 /\ i < N
    BY <1>1
  <1>4. ASSUME NEW i \in 1 .. k
        PROVE  /\ Chain(s, i) \in DOMAIN hash_to_block_id
               /\ id(i) \in Blocks
               /\ hash[id(i)] = Chain(s, i)
               /\ Len(Chain(s, i)) = i * BlockSize
               /\ Chain(s, i) # NoHash
    <2>1. Chain(s, i) \in DOMAIN hash_to_block_id
      BY <1>1 DEF Hit
    <2>2. id(i) \in Blocks /\ hash[id(i)] = Chain(s, i)
      BY <2>1 DEF IndexSound, BMTypeOK
    <2>3. i * BlockSize <= Len(token_ids[s])
      BY <1>3, BlocksBeforeLast DEF N
    <2> QED BY <1>3, <2>1, <2>2, <2>3, ChainProperties
  <1>5. c \in Seq(Blocks) /\ Len(c) = k /\ DOMAIN c = 1 .. k
    <2>1. c \in [1 .. k -> Blocks]
      BY <1>2, <1>4
    <2> QED BY <1>3, <2>1, SeqDef, LenProperties
  <1>6. IsInjective(c)
    <2> SUFFICES ASSUME NEW i \in 1 .. k, NEW j \in 1 .. k, c[i] = c[j], i < j
                 PROVE  FALSE
      BY <1>3, <1>5 DEF IsInjective
    <2>1. Chain(s, i) = Chain(s, j)
      BY <1>2, <1>4
    <2>2. i * BlockSize = j * BlockSize
      BY <1>4, <2>1
    <2>3. i * BlockSize + BlockSize <= j * BlockSize
      BY <1>3, TimesBlockSize
    <2>4. i * BlockSize \in Nat /\ BlockSize \in Nat /\ BlockSize > 1
      BY <1>3, TimesBlockSize, BlockSizeAssumption
    <2> QED BY <2>2, <2>3, <2>4
  <1>7. \A i \in 1 .. k : hash[c[i]] = Chain(s, i) /\ Chain(s, i) # NoHash
    BY <1>2, <1>4
  <1> QED BY <1>5, <1>6, <1>7 DEF k, c

(* The free blocks can_allocate counts on are really there: a cached block *)
(* that has to be taken out of the free deque was charged as a new one.    *)
LEMMA AllocationSufficient ==
  ASSUME BMTypeOK, BlockAccounting, IndexSound, NEW s \in Seqs, token_ids[s] # <<>>,
         can_allocate(s)
  PROVE  num_blocks(s) - num_cached_blocks(s) <=
           Len(Without(free_block_ids, Range(CachedIds(s))))
PROOF
  <1> DEFINE k == num_cached_blocks(s)
             N == num_blocks(s)
             c == CachedIds(s)
             q == free_block_ids
             K == 1 .. k
             shared == {i \in K : c[i] \in used_block_ids}
             taken == {i \in DOMAIN q : q[i] \in Range(c)}
             pos(i) == CHOOSE j \in K : c[j] = q[i]
             f == [i \in taken |-> pos(i)]
  <1>1. N \in Nat /\ k \in Nat /\ k <= N
    BY CachedBlocksHit
  <1>2. c \in Seq(Blocks) /\ DOMAIN c = K
    BY CachedIdsProperties, LenProperties
  <1>3. q \in Seq(Blocks) /\ IsInjective(q) /\ used_block_ids = Blocks \ Range(q)
    BY DEF BMTypeOK, BlockAccounting
  <1>4. Len(q) >= N - Cardinality(shared)
    BY DEF can_allocate, num_new_blocks
  <1>5. /\ IsFiniteSet(taken)
        /\ Cardinality(taken) \in Nat
        /\ Len(Without(q, Range(c))) = Len(q) - Cardinality(taken)
    <2> HIDE DEF q, c
    <2> QED BY <1>3, KeptCount
  <1>6. Len(q) \in Nat
    BY <1>3, LenProperties
  <1> HIDE DEF k, N, c, q
  <1>7. IsFiniteSet(K) /\ Cardinality(K) = k
    BY <1>1, FS_Interval
  <1>8. /\ IsFiniteSet(K \ shared)
        /\ Cardinality(K \ shared) = k - Cardinality(shared)
        /\ Cardinality(shared) \in Nat
    <2>1. K \cap shared = shared /\ shared \in SUBSET K
      OBVIOUS
    <2> HIDE DEF K, shared
    <2>2. IsFiniteSet(shared)
      BY <1>7, <2>1, FS_Subset
    <2>3. Cardinality(shared) \in Nat
      BY <2>2, FS_CardinalityType
    <2> QED BY <1>7, <2>1, <2>3, FS_Difference, ZenonT(30)
  <1>9. ASSUME NEW i \in taken
        PROVE  pos(i) \in K /\ c[pos(i)] = q[i] /\ pos(i) \notin shared
    <2>1. PICK j \in K : c[j] = q[i]
      BY <1>2 DEF Range
    <2>2. pos(i) \in K /\ c[pos(i)] = q[i]
      BY <2>1
    <2>3. q[i] \in Range(q)
      BY DEF Range
    <2> HIDE DEF pos
    <2> QED BY <1>3, <2>2, <2>3
  <1>10. f \in Injection(taken, K \ shared)
    <2>1. f \in [taken -> K \ shared]
      <3> HIDE DEF pos, taken, shared, K
      <3> QED BY <1>9
    <2>2. \A i, j \in taken : f[i] = f[j] => i = j
      <3> SUFFICES ASSUME NEW i \in taken, NEW j \in taken, pos(i) = pos(j)
                   PROVE  i = j
        OBVIOUS
      <3>1. q[i] = q[j] /\ i \in DOMAIN q /\ j \in DOMAIN q
        <4> HIDE DEF pos
        <4> QED BY <1>9
      <3> QED BY <1>3, <3>1 DEF IsInjective
    <2>3. DOMAIN f = taken
      OBVIOUS
    <2> HIDE DEF f, taken, shared, K
    <2> QED BY <2>1, <2>2, <2>3 DEF Injection, IsInjective
  <1>11. Cardinality(taken) <= k - Cardinality(shared)
    <2> HIDE DEF f, taken, shared, K
    <2> QED BY <1>8, <1>10, FS_Injection
  <1> HIDE DEF taken, shared
  <1>12. N - k <= Len(Without(q, Range(c)))
    BY <1>1, <1>4, <1>5, <1>6, <1>8, <1>11
  <1> QED BY <1>12 DEF N, k, q, c

-----------------------------------------------------------------------------
(* A sequence that a step leaves alone stays labelled when the step keeps  *)
(* the labels of its blocks and takes none of the blocks it is filling.    *)
LEMMA LabelledTableStable ==
  ASSUME NEW r \in Seqs, LabelledTable(r),
         token_ids'[r] = token_ids[r],
         num_cached_tokens'[r] = num_cached_tokens[r],
         block_table'[r] = block_table[r],
         \A b \in Range(block_table[r]) :
           /\ hash'[b] = hash[b]
           /\ hash[b] = NoHash /\ Holders(b) = {r} => Holders(b)' = {r}
  PROVE  LabelledTable(r)'
PROOF
  <1>1. /\ full_blocks(r)' = full_blocks(r)
        /\ \A i : Chain(r, i)' = Chain(r, i)
    BY DEF num_blocks, full_blocks, Chain
  <1>2. ASSUME NEW i \in DOMAIN block_table'[r]
        PROVE  IF i <= full_blocks(r)'
               THEN hash'[block_table'[r][i]] = Chain(r, i)'
               ELSE /\ hash'[block_table'[r][i]] = NoHash
                    /\ Holders(block_table[r][i])' = {r}
    <2> DEFINE b == block_table[r][i]
    <2>1. i \in DOMAIN block_table[r] /\ block_table'[r][i] = b
      OBVIOUS
    <2>2. b \in Range(block_table[r])
      BY <2>1 DEF Range
    <2>3. IF i <= full_blocks(r) THEN hash[b] = Chain(r, i)
          ELSE hash[b] = NoHash /\ Holders(b) = {r}
      BY <2>1 DEF LabelledTable
    <2>4. /\ hash'[b] = hash[b]
          /\ hash[b] = NoHash /\ Holders(b) = {r} => Holders(b)' = {r}
      BY <2>2
    <2>5. Holders(block_table[r][i])' = Holders(b)'
      BY <2>1 DEF Holders
    <2> HIDE DEF b
    <2> QED BY <1>1, <2>1, <2>3, <2>4, <2>5
  <1>3. /\ num_cached_tokens'[r] <= Len(token_ids'[r])
        /\ num_cached_tokens'[r] <= Len(block_table'[r]) * BlockSize
    BY <1>1 DEF LabelledTable
  <1> QED BY <1>2, <1>3 DEF LabelledTable

(* What the primed predicate amounts to, one block at a time.              *)
LEMMA LabelledTableIntro ==
  ASSUME NEW s \in Seqs,
         num_cached_tokens'[s] <= Len(token_ids'[s]),
         num_cached_tokens'[s] <= Len(block_table'[s]) * BlockSize,
         ASSUME NEW i \in DOMAIN block_table'[s], NEW b, b = block_table'[s][i]
         PROVE  IF i <= full_blocks(s)' THEN hash'[b] = Chain(s, i)'
                ELSE hash'[b] = NoHash /\ Holders(b)' = {s}
  PROVE  LabelledTable(s)'
PROOF
  BY DEF LabelledTable, Holders

(* Giving s the table t changes the holders of its blocks by s alone.      *)
LEMMA HoldersAfter ==
  ASSUME NEW s \in Seqs, BMTypeOK, NEW t,
         block_table' = [block_table EXCEPT ![s] = t], NEW b
  PROVE  /\ Holders(b)' = IF b \in Range(t) THEN Holders(b) \cup {s}
                          ELSE Holders(b) \ {s}
         /\ s \in Holders(b) <=> b \in Range(block_table[s])
PROOF
  <1>1. /\ block_table'[s] = t
        /\ \A r \in Seqs : r # s => block_table'[r] = block_table[r]
    BY DEF BMTypeOK
  <1>2. Holders(b)' = {r \in Seqs : b \in Range(block_table'[r])}
    BY DEF Holders
  <1> QED BY <1>1, <1>2 DEF Holders

(* There are finitely many sequences, so the holders can be counted.       *)
LEMMA FiniteHolders ==
  ASSUME NEW b
  PROVE  /\ IsFiniteSet(Holders(b))
         /\ Cardinality(Holders(b)) \in Nat
         /\ Cardinality(Holders(b)) = 0 <=> Holders(b) = {}
PROOF
  <1>1. Holders(b) \in SUBSET Seqs
    BY DEF Holders
  <1>2. IsFiniteSet(Holders(b))
    BY <1>1, SeqsAssumption, FS_Subset
  <1> QED BY <1>2, FS_CardinalityType, FS_EmptySet

(* Relabelling the blocks of F keeps the index sound.                      *)
LEMMA TakeFreshSound ==
  ASSUME BMTypeOK, IndexSound, NEW F \in SUBSET Blocks, TakeFresh(F)
  PROVE  /\ hash' \in [Blocks -> Seq(Token)]
         /\ DOMAIN hash_to_block_id' \subseteq Seq(Token)
         /\ hash_to_block_id' \in [DOMAIN hash_to_block_id' -> Blocks]
         /\ IndexSound'
         /\ \A b \in Blocks : hash'[b] = IF b \in F THEN NoHash ELSE hash[b]
PROOF
  <1> DEFINE idx == hash_to_block_id
             D == {h \in DOMAIN idx : ~ (idx[h] \in F /\ hash[idx[h]] = h)}
  <1>1. hash' = [b \in Blocks |-> IF b \in F THEN NoHash ELSE hash[b]]
    BY DEF TakeFresh
  <1>2. NoHash \in Seq(Token)
    BY EmptySeq DEF NoHash
  <1>3. hash' \in [Blocks -> Seq(Token)]
    BY <1>1, <1>2 DEF BMTypeOK
  <1>4. hash_to_block_id' = [h \in D |-> idx[h]]
    BY DEF TakeFresh, Restrict
  <1>5. ASSUME NEW h \in D
        PROVE  h # NoHash /\ idx[h] \in Blocks /\ idx[h] \notin F /\ hash[idx[h]] = h
    <2>1. h \in DOMAIN idx /\ hash[idx[h]] = h /\ h # NoHash
      BY DEF IndexSound
    <2>2. idx[h] \in Blocks
      BY <2>1 DEF BMTypeOK
    <2> QED BY <2>1, <2>2
  <1>6. D \subseteq Seq(Token)
    BY DEF BMTypeOK
  <1>7. ASSUME NEW h \in DOMAIN hash_to_block_id'
        PROVE  h # NoHash /\ hash'[hash_to_block_id'[h]] = h
    BY <1>1, <1>4, <1>5
  <1>8. IndexSound'
    BY <1>7 DEF IndexSound
  <1>9. /\ DOMAIN hash_to_block_id' \subseteq Seq(Token)
        /\ hash_to_block_id' \in [DOMAIN hash_to_block_id' -> Blocks]
    <2> HIDE DEF D
    <2> QED BY <1>4, <1>5, <1>6
  <1> QED BY <1>1, <1>3, <1>8, <1>9

-----------------------------------------------------------------------------
(* The table allocate builds: first the blocks the index offers, labelled  *)
(* with the prefixes of s, then fresh blocks from the front of the deque.  *)
LEMMA AllocatedTable ==
  ASSUME PoolInv, NEW s \in Seqs, token_ids[s] # <<>>, can_allocate(s)
  PROVE  LET cached == CachedIds(s)
             fresh == FreshIds(s)
             kept == Without(free_block_ids, Range(cached))
             rest == SubSeq(kept, Len(fresh) + 1, Len(kept))
             table == cached \o fresh
         IN  /\ table \in Seq(Blocks) /\ IsInjective(table) /\ Len(table) = num_blocks(s)
             /\ rest \in Seq(Blocks) /\ IsInjective(rest)
             /\ Range(rest) = Range(free_block_ids) \ Range(table)
             /\ Range(table) = Range(cached) \cup Range(fresh)
             /\ Range(fresh) \cap Range(cached) = {}
             /\ Range(fresh) \subseteq Range(free_block_ids)
             /\ \A b \in Range(cached) : b \in Blocks /\ hash[b] # NoHash
             /\ \A i \in 1 .. num_blocks(s) :
                  IF i <= num_cached_blocks(s)
                  THEN table[i] \in Range(cached) /\ hash[table[i]] = Chain(s, i)
                  ELSE table[i] \in Range(fresh)
PROOF
  <1> DEFINE k == num_cached_blocks(s)
             N == num_blocks(s)
             q == free_block_ids
             cached == CachedIds(s)
             fresh == FreshIds(s)
             kept == Without(q, Range(cached))
             rest == SubSeq(kept, Len(fresh) + 1, Len(kept))
             table == cached \o fresh
  <1>1. /\ BMTypeOK /\ IndexSound /\ BlockAccounting
        /\ q \in Seq(Blocks) /\ IsInjective(q)
    BY DEF PoolInv, BMTypeOK, BlockAccounting
  <1>2. N \in Nat /\ k \in Nat /\ k <= N
    BY <1>1, CachedBlocksHit
  <1>3. /\ cached \in Seq(Blocks) /\ Len(cached) = k /\ IsInjective(cached)
        /\ \A i \in 1 .. k : hash[cached[i]] = Chain(s, i) /\ Chain(s, i) # NoHash
    BY <1>1, CachedIdsProperties
  <1>4. /\ kept \in Seq(Blocks) /\ IsInjective(kept)
        /\ Range(kept) = Range(q) \ Range(cached)
    BY <1>1, WithoutProperties
  <1>5. N - k <= Len(kept) /\ Len(kept) \in Nat
    BY <1>1, <1>4, AllocationSufficient, LenProperties
  <1>6. fresh = SubSeq(kept, 1, N - k)
    BY DEF FreshIds
  <1>0. kept = Without(q, Range(cached)) /\ rest = SubSeq(kept, Len(fresh) + 1, Len(kept))
        /\ table = cached \o fresh
    OBVIOUS
  <1> HIDE DEF k, N, q, cached, fresh, kept, rest, table
  <1>7. DOMAIN cached = 1 .. k
    BY <1>3, LenProperties
  <1>8. N - k \in 0 .. Len(kept)
    BY <1>2, <1>5
  <1>9. /\ fresh \in Seq(Blocks) /\ Len(fresh) = N - k /\ IsInjective(fresh)
        /\ rest \in Seq(Blocks) /\ IsInjective(rest)
        /\ Range(fresh) \cup Range(rest) = Range(kept)
        /\ Range(fresh) \cap Range(rest) = {}
    <2>1. /\ fresh \in Seq(Blocks) /\ Len(fresh) = N - k /\ IsInjective(fresh)
      BY <1>4, <1>6, <1>8, SplitInjective
    <2>2. rest = SubSeq(kept, (N - k) + 1, Len(kept))
      BY <1>0, <2>1
    <2> QED BY <1>4, <1>6, <1>8, <2>1, <2>2, SplitInjective
  <1>10. Range(fresh) \cap Range(cached) = {}
    BY <1>4, <1>9
  <1>11. /\ table \in Seq(Blocks) /\ IsInjective(table)
         /\ Range(table) = Range(cached) \cup Range(fresh)
    BY <1>3, <1>9, <1>10, <1>0, JoinInjective
  <1>12. /\ Len(table) = N
         /\ \A i \in 1 .. N : table[i] = IF i <= k THEN cached[i] ELSE fresh[i - k]
    <2>1. k + (N - k) = N
      BY <1>2
    <2>2. /\ Len(table) = Len(cached) + Len(fresh)
          /\ \A i \in 1 .. Len(cached) + Len(fresh) :
               table[i] = IF i <= Len(cached) THEN cached[i] ELSE fresh[i - Len(cached)]
      BY <1>3, <1>9, <1>0, ConcatProperties, SMTT(30)
    <2> QED BY <1>3, <1>9, <2>1, <2>2
  <1>13. ASSUME NEW i \in 1 .. N
         PROVE  IF i <= k
                THEN table[i] \in Range(cached) /\ hash[table[i]] = Chain(s, i)
                ELSE table[i] \in Range(fresh)
    <2>1. CASE i <= k
      <3>1. i \in DOMAIN cached /\ table[i] = cached[i] /\ hash[cached[i]] = Chain(s, i)
        BY <1>2, <1>3, <1>7, <1>12, <2>1
      <3> QED BY <2>1, <3>1 DEF Range
    <2>2. CASE ~ (i <= k)
      <3>1. DOMAIN fresh = 1 .. N - k
        BY <1>9, LenProperties
      <3>2. i - k \in DOMAIN fresh /\ table[i] = fresh[i - k]
        BY <1>2, <1>12, <2>2, <3>1
      <3> QED BY <2>2, <3>2 DEF Range
    <2> QED BY <2>1, <2>2
  <1>14. \A b \in Range(cached) : b \in Blocks /\ hash[b] # NoHash
    <2>1. Range(cached) \in SUBSET Blocks
      BY <1>3, RangeOfSeq
    <2>2. \A b \in Range(cached) : hash[b] # NoHash
      BY <1>3, <1>7 DEF Range
    <2> QED BY <2>1, <2>2
  <1>15. Range(rest) = Range(q) \ Range(table) /\ Range(fresh) \subseteq Range(q)
    BY <1>4, <1>9, <1>10, <1>11
  <1> QED BY <1>9, <1>10, <1>11, <1>12, <1>13, <1>14, <1>15
       DEF k, N, q, cached, fresh, kept, rest, table

(* allocate keeps the invariant.                                           *)
LEMMA AllocateKeeps ==
  ASSUME PoolInv, NEW s \in Seqs, BMAllocate(s)
  PROVE  PoolInv'
PROOF
  <1> DEFINE cached == CachedIds(s)
             fresh == FreshIds(s)
             kept == Without(free_block_ids, Range(cached))
             rest == SubSeq(kept, Len(fresh) + 1, Len(kept))
             table == cached \o fresh
             k == num_cached_blocks(s)
             N == num_blocks(s)
  <1>1. BMTypeOK /\ BlockAccounting /\ IndexSound /\ \A r \in Seqs : LabelledTable(r)
    BY DEF PoolInv, LabelledTables
  <1>2. /\ token_ids[s] # <<>> /\ block_table[s] = <<>> /\ can_allocate(s)
        /\ token_ids' = token_ids
    BY DEF BMAllocate
  <1>3. /\ block_table' = [block_table EXCEPT ![s] = table]
        /\ num_cached_tokens' = [num_cached_tokens EXCEPT ![s] = k * BlockSize]
        /\ free_block_ids' = rest
        /\ used_block_ids' = used_block_ids \cup Range(table)
        /\ ref_count' = RefsWith(table)
        /\ TakeFresh(Range(fresh))
    BY DEF BMAllocate, allocate
  <1>4. k \in Nat /\ N \in Nat /\ k < N
    BY <1>1, <1>2, CachedBlocksHit
  <1>5. /\ table \in Seq(Blocks) /\ IsInjective(table) /\ Len(table) = N
        /\ rest \in Seq(Blocks) /\ IsInjective(rest)
        /\ Range(rest) = Range(free_block_ids) \ Range(table)
        /\ Range(table) = Range(cached) \cup Range(fresh)
        /\ Range(fresh) \cap Range(cached) = {}
        /\ Range(fresh) \subseteq Range(free_block_ids)
        /\ \A b \in Range(cached) : b \in Blocks /\ hash[b] # NoHash
        /\ \A i \in 1 .. N :
             IF i <= k
             THEN table[i] \in Range(cached) /\ hash[table[i]] = Chain(s, i)
             ELSE table[i] \in Range(fresh)
    BY <1>2, AllocatedTable
  <1> HIDE DEF cached, fresh, kept, rest, table
  <1>6. Range(table) \subseteq Blocks /\ Range(fresh) \subseteq Blocks
    BY <1>5, RangeOfSeq
  <1>7. /\ hash' \in [Blocks -> Seq(Token)]
        /\ DOMAIN hash_to_block_id' \subseteq Seq(Token)
        /\ hash_to_block_id' \in [DOMAIN hash_to_block_id' -> Blocks]
        /\ IndexSound'
        /\ \A b \in Blocks : hash'[b] = IF b \in Range(fresh) THEN NoHash ELSE hash[b]
    BY <1>1, <1>3, <1>6, TakeFreshSound
  <1>8. \A b : /\ Holders(b)' = IF b \in Range(table) THEN Holders(b) \cup {s} ELSE Holders(b)
               /\ s \notin Holders(b)
    <2> TAKE b
    <2>1. b \notin Range(block_table[s])
      BY <1>2 DEF Range
    <2>2. s \notin Holders(b)
      BY <2>1 DEF Holders
    <2>3. Holders(b) \ {s} = Holders(b)
      BY <2>2
    <2>4. Holders(b)' = IF b \in Range(table) THEN Holders(b) \cup {s}
                        ELSE Holders(b) \ {s}
      BY <1>1, <1>3, HoldersAfter
    <2> QED BY <2>2, <2>3, <2>4
  <1>9. BMTypeOK'
    <2>1. k * BlockSize \in Nat
      BY <1>4, TimesBlockSize
    <2>2. ref_count' \in [Blocks -> Nat]
      BY <1>1, <1>3 DEF RefsWith, BMTypeOK
    <2> QED BY <1>1, <1>2, <1>3, <1>5, <1>6, <1>7, <2>1, <2>2 DEF BMTypeOK
  <1>10. BlockAccounting'
    <2>1. IsInjective(free_block_ids') /\ used_block_ids' = Blocks \ Range(free_block_ids')
      BY <1>1, <1>3, <1>5, <1>6 DEF BlockAccounting
    <2>2. \A r \in Seqs : IsInjective(block_table'[r])
      BY <1>1, <1>3, <1>5 DEF BlockAccounting, BMTypeOK
    <2>3. ASSUME NEW b \in Blocks
          PROVE  ref_count'[b] = Cardinality(Holders(b)')
      <3>1. ref_count[b] = Cardinality(Holders(b)) /\ (b \in used_block_ids <=> Holders(b) # {})
        BY <1>1 DEF BlockAccounting
      <3>2. ref_count'[b] = IF b \notin Range(table) THEN ref_count[b]
                            ELSE IF b \in used_block_ids THEN ref_count[b] + 1 ELSE 1
        BY <1>3 DEF RefsWith
      <3>3. Cardinality(Holders(b) \cup {s}) = Cardinality(Holders(b)) + 1
        BY <1>8, FiniteHolders, FS_AddElement
      <3>4. Holders(b) = {} => Cardinality(Holders(b)) = 0
        BY FiniteHolders
      <3> QED BY <1>8, <3>1, <3>2, <3>3, <3>4
    <2>4. ASSUME NEW b \in Blocks
          PROVE  b \in used_block_ids' <=> Holders(b)' # {}
      <3>1. b \in used_block_ids <=> Holders(b) # {}
        BY <1>1 DEF BlockAccounting
      <3> QED BY <1>3, <1>8, <3>1
    <2> QED BY <2>1, <2>2, <2>3, <2>4 DEF BlockAccounting
  <1>11. ASSUME NEW r \in Seqs, r # s PROVE LabelledTable(r)'
    <2>1. ASSUME NEW b \in Range(block_table[r])
          PROVE  /\ hash'[b] = hash[b]
                 /\ hash[b] = NoHash /\ Holders(b) = {r} => Holders(b)' = {r}
      <3>1. b \in Blocks
        BY <1>1, RangeOfSeq DEF BMTypeOK
      <3>2. r \in Holders(b)
        BY DEF Holders
      <3>3. b \notin Range(fresh)
        BY <1>1, <1>5, <3>1, <3>2 DEF BlockAccounting
      <3>4. hash'[b] = hash[b]
        BY <1>7, <3>1, <3>3
      <3>5. hash[b] = NoHash => b \notin Range(table)
        BY <1>5, <3>3
      <3> QED BY <1>8, <3>4, <3>5
    <2>2. /\ token_ids'[r] = token_ids[r]
          /\ num_cached_tokens'[r] = num_cached_tokens[r]
          /\ block_table'[r] = block_table[r]
      BY <1>1, <1>2, <1>3, <1>11 DEF BMTypeOK
    <2> QED BY <1>1, <2>1, <2>2, LabelledTableStable
  <1>12. LabelledTable(s)'
    <2>1. /\ block_table'[s] = table
          /\ num_cached_tokens'[s] = k * BlockSize
          /\ token_ids'[s] = token_ids[s]
      BY <1>1, <1>2, <1>3 DEF BMTypeOK
    <2>2. num_blocks(s)' = N /\ \A i : Chain(s, i)' = Chain(s, i)
      BY <2>1 DEF num_blocks, Chain
    <2>3. k * BlockSize <= Len(token_ids[s])
      BY <1>1, <1>4, BlocksBeforeLast
    <2>4. full_blocks(s)' = k
      <3>1. /\ k * BlockSize \in Nat
            /\ BlockSize \in Nat /\ BlockSize > 1
        BY <1>4, TimesBlockSize, BlockSizeAssumption
      <3>2. k * BlockSize < k * BlockSize + BlockSize
        BY <3>1
      <3>3. (k * BlockSize) \div BlockSize = k
        BY <1>4, <3>1, <3>2, DivUnique
      <3> QED BY <2>1, <3>3 DEF full_blocks
    <2>5. DOMAIN table = 1 .. N
      BY <1>5, LenProperties
    <2>6. ASSUME NEW i \in 1 .. N, NEW b, b = table[i]
          PROVE  IF i <= k THEN hash'[b] = Chain(s, i)
                 ELSE hash'[b] = NoHash /\ Holders(b)' = {s}
      <3>1. CASE i <= k
        <4>1. b \in Range(cached) /\ hash[b] = Chain(s, i)
          BY <1>5, <2>6, <3>1
        <4>2. b \in Blocks /\ b \notin Range(fresh)
          BY <1>5, <4>1
        <4> QED BY <1>7, <3>1, <4>1, <4>2
      <3>2. CASE ~ (i <= k)
        <4>1. b \in Range(fresh)
          BY <1>5, <2>6, <3>2
        <4>2. b \in Range(table) /\ b \in Blocks /\ b \notin used_block_ids
          BY <1>1, <1>5, <1>6, <4>1 DEF BlockAccounting
        <4>3. Holders(b) = {}
          BY <1>1, <4>2 DEF BlockAccounting
        <4>4. hash'[b] = NoHash
          BY <1>7, <4>1, <4>2
        <4>5. Holders(b)' = {s}
          BY <1>8, <4>2, <4>3
        <4> QED BY <3>2, <4>4, <4>5
      <3> QED BY <3>1, <3>2
    <2>7. /\ num_cached_tokens'[s] <= Len(token_ids'[s])
          /\ num_cached_tokens'[s] <= Len(block_table'[s]) * BlockSize
      <3>1. k * BlockSize <= N * BlockSize
        BY <1>4, TimesBlockSize
      <3> QED BY <1>4, <1>5, <2>1, <2>2, <2>3, <3>1
    <2>8. ASSUME NEW i \in DOMAIN block_table'[s], NEW b, b = block_table'[s][i]
          PROVE  IF i <= full_blocks(s)' THEN hash'[b] = Chain(s, i)'
                 ELSE hash'[b] = NoHash /\ Holders(b)' = {s}
      BY <2>1, <2>2, <2>4, <2>5, <2>6, <2>8
    <2> QED BY <2>7, <2>8, LabelledTableIntro
  <1>13. LabelledTables'
    BY <1>11, <1>12 DEF LabelledTables, LabelledTable
  <1> QED BY <1>7, <1>9, <1>10, <1>13 DEF PoolInv

-----------------------------------------------------------------------------
(* What hash_blocks needs of s: its table covers its tokens, n of which    *)
(* have just been computed.                                                *)
CanHash(s, n) ==
  /\ n \in Nat
  /\ num_cached_tokens[s] + n <= Len(token_ids[s])
  /\ Len(block_table[s]) >= num_blocks(s)

(* The calls of BMNext, by callers that may have lost count: a sequence may*)
(* be longer than what is computed of it when its next token comes, and    *)
(* its table longer than it is.  An engine that goes on after a failed step*)
(* calls the allocator like this.                                          *)
LaxAppend(s) ==
  /\ can_append(s)
  /\ may_append(s)
  /\ UNCHANGED <<token_ids, num_cached_tokens>>

LaxChunk(s, n) ==
  /\ CanHash(s, n)
  /\ hash_blocks(s, n)
  /\ num_cached_tokens' = [num_cached_tokens EXCEPT ![s] = @ + n]
  /\ UNCHANGED <<token_ids, block_table, ref_count, free_block_ids, used_block_ids>>

LaxToken(s, n, t) ==
  /\ CanHash(s, n)
  /\ hash_blocks(s, n)
  /\ token_ids' = [token_ids EXCEPT ![s] = Append(@, t)]
  /\ num_cached_tokens' = [num_cached_tokens EXCEPT ![s] = @ + n]
  /\ UNCHANGED <<block_table, ref_count, free_block_ids, used_block_ids>>

LaxLastToken(s, n, t) ==
  /\ CanHash(s, n)
  /\ hash_blocks(s, n)
  /\ token_ids' = [token_ids EXCEPT ![s] = Append(@, t)]
  /\ deallocate(s)

LaxNext ==
  \E s \in Seqs :
    \/ \E prompt \in Prompts : BMCreate(s, prompt)
    \/ BMAllocate(s)
    \/ LaxAppend(s)
    \/ \E n \in Nat : LaxChunk(s, n)
    \/ \E n \in Nat, t \in Token : LaxToken(s, n, t)
    \/ \E n \in Nat, t \in Token : LaxLastToken(s, n, t)
    \/ BMRelease(s)

(* The blocks that get full lie in the table, carry no label yet, belong   *)
(* to s only, and get the prefix of s as their label.                      *)
LEMMA NewlyFullBlocks ==
  ASSUME PoolInv, NEW s \in Seqs, NEW n, CanHash(s, n)
  PROVE  LET m == (num_cached_tokens[s] + n) \div BlockSize
         IN  /\ m \in Nat /\ full_blocks(s) \in Nat /\ full_blocks(s) <= m
             /\ NewlyFull(s, n) = full_blocks(s) + 1 .. m
             /\ \A i \in 1 .. m : i \in DOMAIN block_table[s] /\ i * BlockSize <= Len(token_ids[s])
             /\ \A i \in NewlyFull(s, n) :
                  /\ NewLabel(s, i) = Chain(s, i)
                  /\ block_table[s][i] \in Blocks
                  /\ hash[block_table[s][i]] = NoHash
                  /\ Holders(block_table[s][i]) = {s}
PROOF
  <1> DEFINE c == num_cached_tokens[s]
             q == token_ids[s]
             t == block_table[s]
             l == Len(q)
             f == full_blocks(s)
             m == (c + n) \div BlockSize
  <1>1. /\ BMTypeOK /\ LabelledTable(s)
        /\ c \in Nat /\ q \in Seq(Token) /\ t \in Seq(Blocks) /\ n \in Nat
        /\ c + n <= l /\ Len(t) >= BlocksFor(l)
    BY DEF PoolInv, LabelledTables, BMTypeOK, CanHash, num_blocks
  <1>2. \A i \in DOMAIN t : IF i <= f THEN hash[t[i]] = Chain(s, i)
                            ELSE hash[t[i]] = NoHash /\ Holders(t[i]) = {s}
    BY <1>1 DEF LabelledTable
  <1>3. f = c \div BlockSize /\ NewlyFull(s, n) = f + 1 .. m
    BY DEF NewlyFull, full_blocks
  <1>4. l \in Nat /\ DOMAIN t = 1 .. Len(t)
    BY <1>1, LenProperties
  <1>5. \A i : Chain(s, i) = SubSeq(q, 1, i * BlockSize)
    BY DEF Chain
  <1>6. \A i : NewLabel(s, i) = (IF f > 0 THEN hash[t[f]] ELSE NoHash)
                                   \o SubSeq(q, f * BlockSize + 1, i * BlockSize)
    BY DEF NewLabel, full_blocks
  <1>7. \A i \in DOMAIN t : t[i] \in Blocks
    BY <1>1, <1>4, ElementOfSeq
  <1> HIDE DEF c, q, t, l, f, m
  <1>8. /\ f \in Nat /\ f * BlockSize <= c /\ c < f * BlockSize + BlockSize
        /\ m \in Nat /\ m * BlockSize <= c + n /\ c + n < m * BlockSize + BlockSize
        /\ f * BlockSize \in Nat /\ m * BlockSize \in Nat /\ BlockSize \in Nat
    <2>1. c + n \in Nat
      BY <1>1
    <2>2. m = (c + n) \div BlockSize
      BY DEF m
    <2>3. f \in Nat /\ m \in Nat
      BY <1>1, <1>3, <2>1, <2>2, DivBlockSize
    <2> QED BY <1>1, <1>3, <2>1, <2>2, <2>3, DivBlockSize, TimesBlockSize, BlockSizeAssumption
  <1>9. f <= m
    <2> SUFFICES ASSUME m < f PROVE FALSE
      BY <1>8
    <2>1. m * BlockSize + BlockSize <= f * BlockSize
      BY <1>8, TimesBlockSize
    <2> QED BY <1>1, <1>8, <2>1
  <1>10. ASSUME NEW i \in 0 .. m PROVE i * BlockSize \in Nat /\ i * BlockSize <= l
    <2>1. i * BlockSize <= m * BlockSize /\ i * BlockSize \in Nat
      BY <1>8, TimesBlockSize
    <2> QED BY <1>1, <1>4, <1>8, <2>1
  <1>11. m <= Len(t) /\ Len(t) \in Nat
    <2>1. Len(t) \in Nat /\ l <= Len(t) * BlockSize
      BY <1>1, <1>4, EnoughBlocks, LenProperties
    <2>2. ASSUME Len(t) < m PROVE FALSE
      <3>1. Len(t) * BlockSize + BlockSize <= m * BlockSize /\ Len(t) * BlockSize \in Nat
        BY <1>8, <2>1, <2>2, TimesBlockSize
      <3>2. BlockSize > 1
        BY BlockSizeAssumption
      <3> QED BY <1>1, <1>4, <1>8, <2>1, <3>1, <3>2
    <2> QED BY <1>8, <2>1, <2>2
  <1>12. ASSUME NEW i \in 1 .. m PROVE i \in DOMAIN t /\ i * BlockSize <= l
    BY <1>4, <1>8, <1>10, <1>11
  <1>13. (IF f > 0 THEN hash[t[f]] ELSE NoHash) = SubSeq(q, 1, f * BlockSize)
    <2>1. CASE f > 0
      <3>1. f \in DOMAIN t /\ f <= f
        BY <1>8, <1>9, <1>12, <2>1
      <3> QED BY <1>2, <1>5, <2>1, <3>1
    <2>2. CASE f = 0
      <3>1. f * BlockSize = 0
        BY <2>2, TimesBlockSize
      <3>2. SubSeq(q, 1, 0) = <<>>
        BY SubSeqEmpty
      <3> QED BY <2>2, <3>1, <3>2 DEF NoHash
    <2> QED BY <1>8, <2>1, <2>2
  <1>14. ASSUME NEW i \in f + 1 .. m PROVE NewLabel(s, i) = Chain(s, i)
    <2>1. i \in 0 .. m /\ f \in 0 .. m /\ i \in Nat /\ f <= i
      BY <1>8, <1>9
    <2>2. f * BlockSize <= i * BlockSize
      BY <1>8, <2>1, TimesBlockSize
    <2>3. /\ f * BlockSize \in Nat /\ f * BlockSize <= l
          /\ i * BlockSize \in Nat /\ i * BlockSize <= l
      BY <1>10, <2>1
    <2>4. 1 \in 1 .. l + 1
      BY <1>4
    <2> DEFINE a == f * BlockSize
               b == i * BlockSize
    <2>5. a \in 1 - 1 .. Len(q) /\ b \in a .. Len(q) /\ 1 \in 1 .. Len(q) + 1
      BY <1>4, <2>2, <2>3, <2>4 DEF l
    <2> HIDE DEF a, b
    <2>6. SubSeq(q, 1, a) \o SubSeq(q, a + 1, b) = SubSeq(q, 1, b)
      BY <1>1, <2>5, ConcatAdjacentSubSeq
    <2> QED BY <1>5, <1>6, <1>13, <2>6 DEF a, b
  <1>15. ASSUME NEW i \in f + 1 .. m
         PROVE  t[i] \in Blocks /\ hash[t[i]] = NoHash /\ Holders(t[i]) = {s}
    <2>1. i \in DOMAIN t /\ ~ (i <= f)
      BY <1>8, <1>12
    <2> QED BY <1>2, <1>7, <2>1
  <1> QED BY <1>3, <1>8, <1>9, <1>12, <1>14, <1>15 DEF c, q, t, l, f, m

(* hash_blocks labels the blocks that got full, and only those; every      *)
(* label the index had for them is its own.                                *)
LEMMA HashBlocksEffect ==
  ASSUME PoolInv, NEW s \in Seqs, NEW n, CanHash(s, n), hash_blocks(s, n)
  PROVE  LET m == (num_cached_tokens[s] + n) \div BlockSize
         IN  /\ hash' \in [Blocks -> Seq(Token)]
             /\ DOMAIN hash_to_block_id' \subseteq Seq(Token)
             /\ hash_to_block_id' \in [DOMAIN hash_to_block_id' -> Blocks]
             /\ IndexSound'
             /\ \A b \in Blocks : hash[b] # NoHash => hash'[b] = hash[b]
             /\ \A b \in Blocks : Holders(b) # {s} => hash'[b] = hash[b]
             /\ \A i \in DOMAIN block_table[s] :
                  IF i <= m THEN hash'[block_table[s][i]] = Chain(s, i)
                  ELSE /\ hash'[block_table[s][i]] = NoHash
                       /\ Holders(block_table[s][i]) = {s}
PROOF
  <1> DEFINE t == block_table[s]
             m == (num_cached_tokens[s] + n) \div BlockSize
             f == full_blocks(s)
             W == NewlyFull(s, n)
             L(i) == NewLabel(s, i)
             idx == hash_to_block_id
             labels == {L(i) : i \in W}
             at(b) == CHOOSE i \in W : t[i] = b
             of(h) == CHOOSE i \in W : L(i) = h
  <1>1. /\ BMTypeOK /\ IndexSound /\ LabelledTable(s) /\ IsInjective(t)
        /\ t \in Seq(Blocks)
    BY DEF PoolInv, LabelledTables, BMTypeOK, BlockAccounting
  <1>2. /\ m \in Nat /\ f \in Nat /\ f <= m /\ W = f + 1 .. m
        /\ \A i \in 1 .. m : i \in DOMAIN t /\ i * BlockSize <= Len(token_ids[s])
        /\ \A i \in W : /\ L(i) = Chain(s, i) /\ t[i] \in Blocks
                        /\ hash[t[i]] = NoHash /\ Holders(t[i]) = {s}
    BY NewlyFullBlocks
  <1>3. hash' = [b \in Blocks |-> IF \E i \in W : t[i] = b THEN L(at(b)) ELSE hash[b]]
    BY DEF hash_blocks
  <1>4. idx' = [h \in DOMAIN idx \cup labels |->
                  IF h \in labels THEN t[of(h)] ELSE idx[h]]
    BY DEF hash_blocks
  <1>5. \A i \in DOMAIN t : IF i <= f THEN hash[t[i]] = Chain(s, i)
                            ELSE hash[t[i]] = NoHash /\ Holders(t[i]) = {s}
    BY <1>1 DEF LabelledTable
  <1>6. DOMAIN t = 1 .. Len(t) /\ Len(t) \in Nat /\ \A i \in DOMAIN t : t[i] \in Blocks
    BY <1>1, LenProperties
  <1> HIDE DEF t, m, f, W, L
  <1>7. \A i \in W : i \in 1 .. m /\ i \in DOMAIN t /\ i \in Nat /\ i > 0
    BY <1>2
  <1>8. ASSUME NEW i \in W
        PROVE  L(i) \in Seq(Token) /\ L(i) # NoHash
    BY <1>1, <1>2, <1>7, ChainProperties
  <1>9. ASSUME NEW i \in W PROVE at(t[i]) = i
    <2>1. \A j \in W : t[j] = t[i] => j = i
      BY <1>1, <1>7 DEF IsInjective
    <2> QED BY <2>1
  <1>10. ASSUME NEW i \in W PROVE hash'[t[i]] = L(i)
    BY <1>2, <1>3, <1>9
  <1>11. ASSUME NEW b \in Blocks, b \notin {t[i] : i \in W} PROVE hash'[b] = hash[b]
    BY <1>3, <1>11
  <1>12. ASSUME NEW h \in labels PROVE of(h) \in W /\ L(of(h)) = h
    OBVIOUS
  <1> HIDE DEF at, of
  <1>13. hash' \in [Blocks -> Seq(Token)]
    <2>1. ASSUME NEW b \in Blocks PROVE hash'[b] \in Seq(Token)
      <3>1. CASE b \in {t[i] : i \in W}
        BY <1>8, <1>10, <3>1
      <3>2. CASE b \notin {t[i] : i \in W}
        BY <1>1, <1>11, <3>2 DEF BMTypeOK
      <3> QED BY <3>1, <3>2
    <2>2. hash' = [b \in Blocks |-> hash'[b]]
      BY <1>3
    <2> QED BY <2>1, <2>2
  <1>14. labels \subseteq Seq(Token)
    BY <1>8
  <1>15. DOMAIN idx' = DOMAIN idx \cup labels
    BY <1>4
  <1>16. ASSUME NEW h \in DOMAIN idx'
         PROVE  idx'[h] \in Blocks /\ h # NoHash /\ hash'[idx'[h]] = h
    <2>1. CASE h \in labels
      <3>1. idx'[h] = t[of(h)] /\ of(h) \in W /\ L(of(h)) = h
        BY <1>4, <1>12, <1>15, <2>1
      <3> QED BY <1>2, <1>8, <1>10, <3>1
    <2>2. CASE h \notin labels
      <3>1. h \in DOMAIN idx /\ idx'[h] = idx[h]
        BY <1>4, <1>15, <2>2
      <3>2. idx[h] \in Blocks /\ h # NoHash /\ hash[idx[h]] = h
        BY <1>1, <3>1 DEF IndexSound, BMTypeOK
      <3>3. idx[h] \notin {t[i] : i \in W}
        BY <1>2, <3>2
      <3> QED BY <1>11, <3>1, <3>2, <3>3
    <2> QED BY <2>1, <2>2
  <1>17. /\ DOMAIN idx' \subseteq Seq(Token)
         /\ idx' \in [DOMAIN idx' -> Blocks]
    <2>1. DOMAIN idx \subseteq Seq(Token)
      BY <1>1 DEF BMTypeOK
    <2>2. idx' = [h \in DOMAIN idx' |-> idx'[h]]
      BY <1>4
    <2> QED BY <1>14, <1>15, <1>16, <2>1, <2>2
  <1>18. IndexSound'
    BY <1>16 DEF IndexSound
  <1>19. ASSUME NEW b \in Blocks, hash[b] # NoHash \/ Holders(b) # {s}
         PROVE  hash'[b] = hash[b]
    <2>1. ASSUME NEW i \in W, b = t[i] PROVE FALSE
      <3>1. hash[t[i]] = NoHash /\ Holders(t[i]) = {s}
        BY <1>2
      <3> QED BY <1>19, <2>1, <3>1
    <2> QED BY <1>11, <2>1
  <1>20. ASSUME NEW i \in DOMAIN t
         PROVE  IF i <= m THEN hash'[t[i]] = Chain(s, i)
                ELSE hash'[t[i]] = NoHash /\ Holders(t[i]) = {s}
    <2>1. i \in Nat /\ i > 0 /\ t[i] \in Blocks
      BY <1>6
    <2>2. CASE i \in W
      BY <1>2, <1>10, <2>1, <2>2
    <2>3. CASE i \notin W
      <3>1. t[i] \notin {t[j] : j \in W}
        BY <1>1, <1>7, <2>3 DEF IsInjective
      <3>2. hash'[t[i]] = hash[t[i]]
        BY <1>11, <2>1, <3>1
      <3>3. i <= f \/ i > m
        BY <1>2, <2>1, <2>3
      <3>4. i <= m <=> i <= f
        BY <1>2, <2>1, <3>3
      <3> QED BY <1>5, <3>2, <3>4
    <2> QED BY <2>2, <2>3
  <1> QED BY <1>13, <1>17, <1>18, <1>19, <1>20 DEF t, m

-----------------------------------------------------------------------------
(* deallocate gives back exactly the blocks nobody else holds.             *)
LEMMA DeallocateEffect ==
  ASSUME PoolInv, NEW s \in Seqs, deallocate(s)
  PROVE  /\ num_cached_tokens' \in [Seqs -> Nat] /\ num_cached_tokens'[s] = 0
         /\ block_table' \in [Seqs -> Seq(Blocks)] /\ block_table'[s] = <<>>
         /\ \A r \in Seqs : r # s => /\ num_cached_tokens'[r] = num_cached_tokens[r]
                                     /\ block_table'[r] = block_table[r]
         /\ ref_count' \in [Blocks -> Nat]
         /\ free_block_ids' \in Seq(Blocks)
         /\ used_block_ids' \subseteq Blocks
         /\ BlockAccounting'
         /\ \A b : Holders(b)' = Holders(b) \ {s}
PROOF
  <1> DEFINE t == block_table[s]
             shared == {b \in Blocks : ref_count[b] # 1}
             back == Without(Reverse(t), shared)
             q == free_block_ids
  <1>1. BMTypeOK /\ BlockAccounting /\ t \in Seq(Blocks) /\ IsInjective(t)
        /\ q \in Seq(Blocks) /\ IsInjective(q)
    BY DEF PoolInv, BMTypeOK, BlockAccounting
  <1>2. /\ num_cached_tokens' = [num_cached_tokens EXCEPT ![s] = 0]
        /\ block_table' = [block_table EXCEPT ![s] = <<>>]
        /\ free_block_ids' = q \o back
        /\ used_block_ids' = used_block_ids \ Range(back)
        /\ ref_count' = [b \in Blocks |-> ref_count[b] - IF b \in Range(t) THEN 1 ELSE 0]
    BY DEF deallocate, Freed
  <1>3. /\ Reverse(t) \in Seq(Blocks) /\ IsInjective(Reverse(t))
        /\ Range(Reverse(t)) = Range(t)
    BY <1>1, ReverseInjective
  <1>4. /\ back \in Seq(Blocks) /\ IsInjective(back)
        /\ Range(back) = Range(t) \ shared
    BY <1>3, WithoutProperties
  <1>5. Range(t) \subseteq Blocks
    BY <1>1, RangeOfSeq
  <1>6. ASSUME NEW b \in Blocks
        PROVE  /\ ref_count[b] = Cardinality(Holders(b))
               /\ b \in used_block_ids <=> Holders(b) # {}
               /\ b \in used_block_ids <=> b \notin Range(q)
               /\ s \in Holders(b) <=> b \in Range(t)
    BY <1>1 DEF BlockAccounting, Holders
  <1> HIDE DEF t, back, q
  <1>7. \A b : Holders(b)' = Holders(b) \ {s}
    <2>1. \A b : b \notin Range(<<>>)
      BY DEF Range
    <2> QED BY <1>1, <1>2, <2>1, HoldersAfter
  <1>8. ASSUME NEW b \in Range(t)
        PROVE  /\ Cardinality(Holders(b)) \in Nat /\ Cardinality(Holders(b)) > 0
               /\ Cardinality(Holders(b) \ {s}) = Cardinality(Holders(b)) - 1
    <2>1. s \in Holders(b)
      BY <1>5, <1>6
    <2>2. IsFiniteSet(Holders(b)) /\ Cardinality(Holders(b)) \in Nat /\ Cardinality(Holders(b)) # 0
      BY <2>1, FiniteHolders
    <2>3. Cardinality(Holders(b) \ {s}) = Cardinality(Holders(b)) - 1
      BY <2>1, <2>2, FS_RemoveElement
    <2> QED BY <2>2, <2>3
  <1>9. ASSUME NEW b \in Blocks, b \notin Range(t) PROVE Holders(b) \ {s} = Holders(b)
    BY <1>6, <1>9
  <1>10. ref_count' \in [Blocks -> Nat]
    <2>1. ASSUME NEW b \in Blocks
          PROVE  ref_count[b] - (IF b \in Range(t) THEN 1 ELSE 0) \in Nat
      <3>1. ref_count[b] \in Nat
        BY <1>1 DEF BMTypeOK
      <3>2. b \in Range(t) => ref_count[b] > 0
        BY <1>6, <1>8
      <3> QED BY <3>1, <3>2
    <2> QED BY <1>2, <2>1
  <1>11. ASSUME NEW b \in Blocks PROVE ref_count'[b] = Cardinality(Holders(b)')
    <2>1. CASE b \in Range(t)
      <3>1. ref_count'[b] = ref_count[b] - 1
        BY <1>2, <2>1
      <3>2. Cardinality(Holders(b)') = Cardinality(Holders(b)) - 1
        BY <1>7, <1>8, <2>1
      <3> QED BY <1>6, <3>1, <3>2
    <2>2. CASE b \notin Range(t)
      <3>1. ref_count'[b] = ref_count[b] - 0 /\ ref_count[b] \in Nat
        BY <1>1, <1>2, <2>2 DEF BMTypeOK
      <3>2. Holders(b)' = Holders(b)
        BY <1>7, <1>9, <2>2
      <3>3. ref_count'[b] = ref_count[b]
        BY <3>1
      <3> QED BY <1>6, <3>2, <3>3
    <2> QED BY <2>1, <2>2
  <1>12. ASSUME NEW b \in Blocks PROVE b \in used_block_ids' <=> Holders(b)' # {}
    <2>1. CASE b \in Range(t)
      <3>1. b \in Range(back) <=> ref_count[b] = 1
        BY <1>4, <2>1
      <3>2. Holders(b) \ {s} = {} <=> Cardinality(Holders(b) \ {s}) = 0
        <4>1. IsFiniteSet(Holders(b) \ {s})
          BY FiniteHolders, FS_RemoveElement
        <4> QED BY <4>1, FS_EmptySet
      <3>3. Holders(b) \ {s} = {} <=> ref_count[b] = 1
        BY <1>6, <1>8, <2>1, <3>2
      <3>4. b \in used_block_ids
        BY <1>6, <2>1
      <3> QED BY <1>2, <1>7, <3>1, <3>3, <3>4
    <2>2. CASE b \notin Range(t)
      BY <1>2, <1>4, <1>6, <1>7, <1>9, <2>2
    <2> QED BY <2>1, <2>2
  <1>13. /\ q \o back \in Seq(Blocks) /\ IsInjective(q \o back)
         /\ Range(q \o back) = Range(q) \cup Range(back)
    <2>1. Range(q) \cap Range(back) = {}
      BY <1>4, <1>5, <1>6
    <2> QED BY <1>1, <1>4, <2>1, JoinInjective
  <1>14. used_block_ids' = Blocks \ Range(free_block_ids')
    BY <1>1, <1>2, <1>13 DEF BlockAccounting, q
  <1>15. /\ block_table' \in [Seqs -> Seq(Blocks)] /\ block_table'[s] = <<>>
         /\ num_cached_tokens' \in [Seqs -> Nat] /\ num_cached_tokens'[s] = 0
         /\ \A r \in Seqs : r # s => /\ num_cached_tokens'[r] = num_cached_tokens[r]
                                     /\ block_table'[r] = block_table[r]
    <2>1. <<>> \in Seq(Blocks)
      BY EmptySeq
    <2> QED BY <1>1, <1>2, <2>1 DEF BMTypeOK
  <1>16. \A r \in Seqs : IsInjective(block_table'[r])
    <2>1. IsInjective(<<>>)
      BY DEF IsInjective
    <2> QED BY <1>1, <1>15, <2>1 DEF BlockAccounting
  <1>17. BlockAccounting'
    BY <1>2, <1>11, <1>12, <1>13, <1>14, <1>16 DEF BlockAccounting
  <1> QED BY <1>2, <1>7, <1>10, <1>13, <1>14, <1>15, <1>17

(* A sequence without blocks is labelled.                                  *)
LEMMA EmptyTableLabelled ==
  ASSUME NEW s \in Seqs, token_ids'[s] \in Seq(Token),
         num_cached_tokens'[s] = 0, block_table'[s] = <<>>
  PROVE  LabelledTable(s)'
PROOF
  <1>1. Len(token_ids'[s]) \in Nat
    BY LenProperties
  <1>3. Len(<<>>) = 0 /\ DOMAIN <<>> = {}
    BY EmptySeq
  <1>4. 0 * BlockSize = 0
    BY TimesBlockSize
  <1>5. /\ num_cached_tokens'[s] <= Len(token_ids'[s])
        /\ num_cached_tokens'[s] <= Len(block_table'[s]) * BlockSize
    BY <1>1, <1>3, <1>4
  <1>6. DOMAIN block_table'[s] = {}
    BY <1>3
  <1> QED BY <1>5, <1>6, LabelledTableIntro

-----------------------------------------------------------------------------
(* The labels of held blocks are not touched.                              *)
KeepsHeldLabels ==
  \A b \in Blocks : hash[b] # NoHash /\ Holders(b) # {} => hash'[b] = hash[b]

(* A new sequence has no tokens that a block could hold.                   *)
LEMMA CreateKeeps ==
  ASSUME PoolInv, NEW s \in Seqs, NEW prompt \in Prompts, BMCreate(s, prompt)
  PROVE  PoolInv' /\ KeepsHeldLabels
PROOF
  <1>1. /\ BMTypeOK /\ \A r \in Seqs : LabelledTable(r)
        /\ token_ids[s] = <<>>
        /\ token_ids' = [token_ids EXCEPT ![s] = prompt]
    BY DEF PoolInv, LabelledTables, BMCreate
  <1>2. UNCHANGED <<num_cached_tokens, block_table, ref_count, hash,
                    hash_to_block_id, free_block_ids, used_block_ids>>
    BY DEF BMCreate
  <1>3. prompt \in Seq(Token)
    BY PromptsAssumption
  <1>4. BMTypeOK'
    BY <1>1, <1>2, <1>3 DEF BMTypeOK
  <1>5. BlockAccounting' /\ IndexSound'
    BY <1>2 DEF PoolInv, BlockAccounting, IndexSound, Holders
  <1>6. ASSUME NEW r \in Seqs, r # s PROVE LabelledTable(r)'
    <2>1. token_ids'[r] = token_ids[r]
      BY <1>1, <1>6 DEF BMTypeOK
    <2>2. \A b : Holders(b)' = Holders(b)
      BY <1>2 DEF Holders
    <2> QED BY <1>1, <1>2, <2>1, <2>2, LabelledTableStable
  <1>7. LabelledTable(s)'
    <2>1. Len(token_ids[s]) = 0 /\ Len(token_ids'[s]) \in Nat
          /\ num_cached_tokens[s] \in Nat
      BY <1>1, <1>4, EmptySeq, LenProperties DEF BMTypeOK
    <2>2. num_cached_tokens[s] = 0 /\ LabelledTable(s)
      <3>1. LabelledTable(s)
        BY <1>1
      <3>2. num_cached_tokens[s] <= Len(token_ids[s])
        BY <3>1 DEF LabelledTable
      <3>3. num_cached_tokens[s] = 0
        BY ONLY <2>1, <3>2
      <3> QED BY <3>1, <3>3
    <2>3. full_blocks(s) = 0 /\ full_blocks(s)' = 0
      <3>1. 0 <= 0 * BlockSize /\ 0 * BlockSize = 0 /\ 0 < 0 * BlockSize + BlockSize
        BY TimesBlockSize, BlockSizeAssumption
      <3>2. 0 \div BlockSize = 0
        BY <3>1, DivUnique
      <3> QED BY <1>2, <2>2, <3>2 DEF full_blocks
    <2>4. block_table[s] \in Seq(Blocks)
      BY <1>1 DEF BMTypeOK
    <2>5. DOMAIN block_table[s] = 1 .. Len(block_table[s]) /\ Len(block_table[s]) \in Nat
      BY <2>4, LenProperties
    <2>6. ASSUME NEW i \in DOMAIN block_table'[s], NEW b, b = block_table'[s][i]
          PROVE  IF i <= full_blocks(s)' THEN hash'[b] = Chain(s, i)'
                 ELSE hash'[b] = NoHash /\ Holders(b)' = {s}
      <3>1. i \in DOMAIN block_table[s] /\ b = block_table[s][i]
        BY <1>2, <2>6
      <3>2. ~ (i <= 0)
        BY <2>5, <3>1
      <3>3. hash[b] = NoHash /\ Holders(b) = {s}
        BY <2>2, <2>3, <3>1, <3>2 DEF LabelledTable
      <3>4. Holders(b)' = Holders(b)
        BY <1>2 DEF Holders
      <3> QED BY <1>2, <2>3, <3>2, <3>3, <3>4
    <2>7. /\ num_cached_tokens'[s] <= Len(token_ids'[s])
          /\ num_cached_tokens'[s] <= Len(block_table'[s]) * BlockSize
      BY <1>2, <2>1, <2>2 DEF LabelledTable
    <2> QED BY <2>6, <2>7, LabelledTableIntro
  <1>8. LabelledTables'
    BY <1>6, <1>7 DEF LabelledTables, LabelledTable
  <1> QED BY <1>2, <1>4, <1>5, <1>8 DEF PoolInv, KeepsHeldLabels

(* allocate only rewrites blocks of the free deque, which nobody holds.    *)
LEMMA AllocateKeepsLabels ==
  ASSUME PoolInv, NEW s \in Seqs, BMAllocate(s)
  PROVE  KeepsHeldLabels
PROOF
  <1> DEFINE fresh == FreshIds(s)
  <1>1. /\ BMTypeOK /\ BlockAccounting /\ IndexSound
        /\ token_ids[s] # <<>> /\ can_allocate(s) /\ TakeFresh(Range(fresh))
    BY DEF PoolInv, BMAllocate, allocate
  <1>2. Range(fresh) \subseteq Range(free_block_ids)
    BY <1>1, AllocatedTable
  <1>3. Range(free_block_ids) \subseteq Blocks
    BY <1>1, RangeOfSeq DEF BMTypeOK
  <1> HIDE DEF fresh
  <1>4. \A b \in Blocks : hash'[b] = IF b \in Range(fresh) THEN NoHash ELSE hash[b]
    BY <1>1, <1>2, <1>3, TakeFreshSound
  <1>5. \A b \in Blocks : Holders(b) # {} => b \notin Range(fresh)
    BY <1>1, <1>2 DEF BlockAccounting
  <1> QED BY <1>4, <1>5 DEF KeepsHeldLabels

(* A preemption leaves the labels in place and the others their blocks.    *)
LEMMA ReleaseKeeps ==
  ASSUME PoolInv, NEW s \in Seqs, BMRelease(s)
  PROVE  PoolInv' /\ KeepsHeldLabels
PROOF
  <1>1. /\ BMTypeOK /\ IndexSound /\ \A r \in Seqs : LabelledTable(r)
        /\ deallocate(s)
        /\ UNCHANGED <<token_ids, hash, hash_to_block_id>>
    BY DEF PoolInv, LabelledTables, BMRelease
  <1>2. /\ num_cached_tokens' \in [Seqs -> Nat] /\ num_cached_tokens'[s] = 0
        /\ block_table' \in [Seqs -> Seq(Blocks)] /\ block_table'[s] = <<>>
        /\ \A r \in Seqs : r # s => /\ num_cached_tokens'[r] = num_cached_tokens[r]
                                    /\ block_table'[r] = block_table[r]
        /\ ref_count' \in [Blocks -> Nat]
        /\ free_block_ids' \in Seq(Blocks)
        /\ used_block_ids' \subseteq Blocks
        /\ BlockAccounting'
        /\ \A b : Holders(b)' = Holders(b) \ {s}
    BY <1>1, DeallocateEffect
  <1>3. BMTypeOK' /\ IndexSound'
    BY <1>1, <1>2 DEF BMTypeOK, IndexSound
  <1>4. ASSUME NEW r \in Seqs, r # s PROVE LabelledTable(r)'
    <2>1. \A b : Holders(b) = {r} => Holders(b)' = {r}
      BY <1>2, <1>4
    <2> QED BY <1>1, <1>2, <1>4, <2>1, LabelledTableStable
  <1>5. LabelledTable(s)'
    BY <1>2, <1>3, EmptyTableLabelled DEF BMTypeOK
  <1>6. LabelledTables'
    BY <1>4, <1>5 DEF LabelledTables, LabelledTable
  <1> QED BY <1>1, <1>2, <1>3, <1>6 DEF PoolInv, KeepsHeldLabels

(* The last token: blocks are labelled first and then given back.          *)
LEMMA LastTokenKeeps ==
  ASSUME PoolInv, NEW s \in Seqs, NEW n \in Nat, NEW t \in Token,
         LaxLastToken(s, n, t)
  PROVE  PoolInv' /\ KeepsHeldLabels
PROOF
  <1>1. /\ BMTypeOK /\ \A r \in Seqs : LabelledTable(r)
        /\ deallocate(s) /\ hash_blocks(s, n)
        /\ token_ids' = [token_ids EXCEPT ![s] = Append(@, t)]
    BY DEF PoolInv, LabelledTables, LaxLastToken
  <1>2. CanHash(s, n)
    BY DEF LaxLastToken
  <1>3. /\ num_cached_tokens' \in [Seqs -> Nat] /\ num_cached_tokens'[s] = 0
        /\ block_table' \in [Seqs -> Seq(Blocks)] /\ block_table'[s] = <<>>
        /\ \A r \in Seqs : r # s => /\ num_cached_tokens'[r] = num_cached_tokens[r]
                                    /\ block_table'[r] = block_table[r]
        /\ ref_count' \in [Blocks -> Nat]
        /\ free_block_ids' \in Seq(Blocks)
        /\ used_block_ids' \subseteq Blocks
        /\ BlockAccounting'
        /\ \A b : Holders(b)' = Holders(b) \ {s}
    BY <1>1, DeallocateEffect
  <1>4. /\ hash' \in [Blocks -> Seq(Token)]
        /\ DOMAIN hash_to_block_id' \subseteq Seq(Token)
        /\ hash_to_block_id' \in [DOMAIN hash_to_block_id' -> Blocks]
        /\ IndexSound'
        /\ \A b \in Blocks : hash[b] # NoHash => hash'[b] = hash[b]
        /\ \A b \in Blocks : Holders(b) # {s} => hash'[b] = hash[b]
    BY <1>1, <1>2, HashBlocksEffect
  <1>5. token_ids' \in [Seqs -> Seq(Token)]
    <2>1. Append(token_ids[s], t) \in Seq(Token)
      BY <1>1, AppendProperties DEF BMTypeOK
    <2> QED BY <1>1, <2>1 DEF BMTypeOK
  <1>6. BMTypeOK'
    BY <1>3, <1>4, <1>5 DEF BMTypeOK
  <1>7. ASSUME NEW r \in Seqs, r # s PROVE LabelledTable(r)'
    <2>1. token_ids'[r] = token_ids[r]
      BY <1>1, <1>7 DEF BMTypeOK
    <2>2. ASSUME NEW b \in Range(block_table[r])
          PROVE  /\ hash'[b] = hash[b]
                 /\ hash[b] = NoHash /\ Holders(b) = {r} => Holders(b)' = {r}
      <3>1. b \in Blocks
        BY <1>1, RangeOfSeq DEF BMTypeOK
      <3>2. r \in Holders(b)
        BY DEF Holders
      <3>3. Holders(b) # {s}
        BY <1>7, <3>2
      <3>4. hash'[b] = hash[b]
        BY <1>4, <3>1, <3>3
      <3>5. Holders(b) = {r} => Holders(b)' = {r}
        BY <1>3, <1>7
      <3> QED BY <3>4, <3>5
    <2> QED BY <1>1, <1>3, <1>7, <2>1, <2>2, LabelledTableStable
  <1>8. LabelledTable(s)'
    BY <1>3, <1>5, EmptyTableLabelled
  <1>9. LabelledTables'
    BY <1>7, <1>8 DEF LabelledTables, LabelledTable
  <1> QED BY <1>3, <1>4, <1>6, <1>9 DEF PoolInv, KeepsHeldLabels

(* Tokens of s are computed, and possibly one is appended after them: the  *)
(* blocks that got full are labelled, the others still carry no label.     *)
LEMMA HashBlocksKeeps ==
  ASSUME PoolInv, NEW s \in Seqs, NEW n, CanHash(s, n), hash_blocks(s, n),
         num_cached_tokens' = [num_cached_tokens EXCEPT ![s] = @ + n],
         UNCHANGED <<block_table, ref_count, free_block_ids, used_block_ids>>,
         token_ids' \in [Seqs -> Seq(Token)],
         \A r \in Seqs : r # s => token_ids'[r] = token_ids[r],
         Len(token_ids'[s]) >= Len(token_ids[s]),
         \A i \in Nat : i > 0 /\ i * BlockSize <= Len(token_ids[s])
                          => Chain(s, i)' = Chain(s, i)
  PROVE  PoolInv' /\ KeepsHeldLabels
PROOF
  <1> DEFINE c == num_cached_tokens[s]
             t == block_table[s]
             l == Len(token_ids[s])
             m == (c + n) \div BlockSize
  <1>1. /\ BMTypeOK /\ \A r \in Seqs : LabelledTable(r)
        /\ c \in Nat /\ n \in Nat /\ token_ids[s] \in Seq(Token) /\ t \in Seq(Blocks)
        /\ c + n <= l /\ Len(t) >= BlocksFor(l)
    BY DEF PoolInv, LabelledTables, BMTypeOK, CanHash, num_blocks
  <1>2. /\ hash' \in [Blocks -> Seq(Token)]
        /\ DOMAIN hash_to_block_id' \subseteq Seq(Token)
        /\ hash_to_block_id' \in [DOMAIN hash_to_block_id' -> Blocks]
        /\ IndexSound'
        /\ \A b \in Blocks : hash[b] # NoHash => hash'[b] = hash[b]
        /\ \A b \in Blocks : Holders(b) # {s} => hash'[b] = hash[b]
        /\ \A i \in DOMAIN t : IF i <= m THEN hash'[t[i]] = Chain(s, i)
                               ELSE hash'[t[i]] = NoHash /\ Holders(t[i]) = {s}
    BY HashBlocksEffect
  <1>3. \A b : Holders(b)' = Holders(b)
    BY DEF Holders
  <1>4. num_cached_tokens' \in [Seqs -> Nat]
    BY <1>1 DEF BMTypeOK
  <1>5. BMTypeOK'
    BY <1>1, <1>2, <1>4 DEF BMTypeOK
  <1>6. BlockAccounting'
    BY DEF PoolInv, BlockAccounting, Holders
  <1>7. ASSUME NEW r \in Seqs, r # s PROVE LabelledTable(r)'
    <2>1. num_cached_tokens'[r] = num_cached_tokens[r]
      BY <1>1, <1>7 DEF BMTypeOK
    <2>2. ASSUME NEW b \in Range(block_table[r])
          PROVE  /\ hash'[b] = hash[b]
                 /\ hash[b] = NoHash /\ Holders(b) = {r} => Holders(b)' = {r}
      <3>1. b \in Blocks
        BY <1>1, RangeOfSeq DEF BMTypeOK
      <3>2. r \in Holders(b)
        BY DEF Holders
      <3>3. Holders(b) # {s}
        BY <1>7, <3>2
      <3>4. hash'[b] = hash[b]
        BY <1>2, <3>1, <3>3
      <3> QED BY <1>3, <3>4
    <2> QED BY <1>1, <1>7, <2>1, <2>2, LabelledTableStable
  <1>8. LabelledTable(s)'
    <2>1. num_cached_tokens'[s] = c + n /\ block_table'[s] = t
      BY <1>1 DEF BMTypeOK
    <2>2. full_blocks(s)' = m
      BY <2>1 DEF full_blocks
    <2>3. l \in Nat /\ DOMAIN t = 1 .. Len(t) /\ Len(token_ids'[s]) \in Nat
      BY <1>1, LenProperties
    <2>4. Len(token_ids'[s]) >= l
      OBVIOUS
    <2>6. Holders(t[1]) \in SUBSET Seqs
      BY DEF Holders
    <2>7. \A i \in Nat : i > 0 /\ i * BlockSize <= l => Chain(s, i)' = Chain(s, i)
      OBVIOUS
    <2>8. m \in Nat /\ m * BlockSize <= c + n
      <3>1. c + n \in Nat
        BY <1>1
      <3> QED BY <3>1, DivBlockSize
    <2> HIDE DEF c, t, l, m
    <2>9. c + n <= Len(t) * BlockSize
      <3>1. Len(t) \in Nat
        BY <1>1, LenProperties
      <3>2. l <= Len(t) * BlockSize /\ Len(t) * BlockSize \in Nat
        BY <1>1, <2>3, <3>1, EnoughBlocks, TimesBlockSize
      <3> QED BY <1>1, <2>3, <3>2
    <2>11. c + n <= Len(token_ids'[s])
      BY <1>1, <2>3, <2>4
    <2>12. ASSUME NEW i \in DOMAIN t, i <= m PROVE Chain(s, i)' = Chain(s, i)
      <3>1. i \in Nat /\ i > 0
        BY <2>3
      <3>2. i * BlockSize <= m * BlockSize /\ i * BlockSize \in Nat /\ m * BlockSize \in Nat
        BY <2>8, <2>12, <3>1, TimesBlockSize
      <3>3. i * BlockSize <= l
        BY <1>1, <2>3, <2>8, <3>2
      <3> QED BY <2>7, <3>1, <3>3
    <2>13. ASSUME NEW i \in DOMAIN block_table'[s], NEW b, b = block_table'[s][i]
           PROVE  IF i <= full_blocks(s)' THEN hash'[b] = Chain(s, i)'
                  ELSE hash'[b] = NoHash /\ Holders(b)' = {s}
      <3>1. i \in DOMAIN t /\ b = t[i]
        BY <2>1, <2>13
      <3>2. IF i <= m THEN hash'[b] = Chain(s, i)
            ELSE hash'[b] = NoHash /\ Holders(b) = {s}
        BY <1>2, <3>1
      <3> QED BY <1>3, <2>2, <2>12, <3>1, <3>2
    <2> QED BY <2>1, <2>9, <2>11, <2>13, LabelledTableIntro
  <1>9. LabelledTables'
    BY <1>7, <1>8 DEF LabelledTables, LabelledTable
  <1> QED BY <1>2, <1>5, <1>6, <1>9 DEF PoolInv, KeepsHeldLabels

(* A chunk of a prefill was computed; the tokens stay the same.            *)
LEMMA ChunkKeeps ==
  ASSUME PoolInv, NEW s \in Seqs, NEW n \in Nat, LaxChunk(s, n)
  PROVE  PoolInv' /\ KeepsHeldLabels
PROOF
  <1>1. /\ token_ids[s] \in Seq(Token) /\ num_cached_tokens[s] \in Nat
        /\ token_ids \in [Seqs -> Seq(Token)]
    BY DEF PoolInv, BMTypeOK
  <1>2. Len(token_ids[s]) \in Nat
    BY <1>1, LenProperties
  <1>3. CanHash(s, n)
    BY DEF LaxChunk
  <1>4. /\ hash_blocks(s, n)
        /\ num_cached_tokens' = [num_cached_tokens EXCEPT ![s] = @ + n]
        /\ UNCHANGED <<block_table, ref_count, free_block_ids, used_block_ids>>
        /\ token_ids' = token_ids
    BY DEF LaxChunk
  <1>5. \A i \in Nat : Chain(s, i)' = Chain(s, i)
    BY <1>4 DEF Chain
  <1>6. Len(token_ids'[s]) >= Len(token_ids[s])
    BY <1>2, <1>4
  <1> QED BY <1>1, <1>3, <1>4, <1>5, <1>6, HashBlocksKeeps

(* The sampled token is appended after the tokens the labels cover.        *)
LEMMA TokenKeeps ==
  ASSUME PoolInv, NEW s \in Seqs, NEW n \in Nat, NEW t \in Token,
         LaxToken(s, n, t)
  PROVE  PoolInv' /\ KeepsHeldLabels
PROOF
  <1> DEFINE q == token_ids[s]
  <1>1. /\ q \in Seq(Token) /\ num_cached_tokens[s] \in Nat
        /\ token_ids \in [Seqs -> Seq(Token)]
    BY DEF PoolInv, BMTypeOK
  <1>2. Len(q) \in Nat
    BY <1>1, LenProperties
  <1>3. CanHash(s, n)
    BY DEF LaxToken
  <1>4. /\ hash_blocks(s, n)
        /\ num_cached_tokens' = [num_cached_tokens EXCEPT ![s] = @ + n]
        /\ UNCHANGED <<block_table, ref_count, free_block_ids, used_block_ids>>
        /\ token_ids' = [token_ids EXCEPT ![s] = Append(q, t)]
    BY DEF LaxToken
  <1>5. Append(q, t) \in Seq(Token) /\ Len(Append(q, t)) = Len(q) + 1
    BY <1>1, AppendProperties
  <1>6. /\ token_ids' \in [Seqs -> Seq(Token)]
        /\ token_ids'[s] = Append(q, t)
        /\ \A r \in Seqs : r # s => token_ids'[r] = token_ids[r]
    BY <1>1, <1>4, <1>5
  <1>7. ASSUME NEW i \in Nat, i > 0, i * BlockSize <= Len(q)
        PROVE  Chain(s, i)' = Chain(s, i)
    <2> DEFINE e == i * BlockSize
    <2>1. e \in 1 .. Len(q) /\ 1 \in 1 .. Len(q)
      <3>1. e \in Nat /\ e > 0
        BY <1>7, TimesBlockSize
      <3>2. e <= Len(q)
        BY <1>7
      <3> HIDE DEF e
      <3> QED BY <1>2, <3>1, <3>2
    <2>2. Append(q, t) = q \o <<t>> /\ <<t>> \in Seq(Token)
      BY <1>1, AppendIsConcat
    <2>3. Chain(s, i)' = SubSeq(Append(q, t), 1, e) /\ Chain(s, i) = SubSeq(q, 1, e)
      BY <1>6 DEF Chain
    <2> HIDE DEF e, q
    <2>4. SubSeq(q \o <<t>>, 1, e) = SubSeq(q, 1, e)
      BY <1>1, <2>1, <2>2, SubSeqOfConcat1
    <2> QED BY <2>2, <2>3, <2>4
  <1>8. Len(token_ids'[s]) >= Len(token_ids[s])
    BY <1>2, <1>5, <1>6
  <1> QED BY <1>3, <1>4, <1>6, <1>7, <1>8, HashBlocksKeeps

(* A step that changes nothing, also a decode that starts no block.        *)
LEMMA StutterKeeps ==
  ASSUME PoolInv, UNCHANGED bmVars
  PROVE  PoolInv'
PROOF
  <1>1. BMTypeOK' /\ IndexSound'
    BY DEF PoolInv, BMTypeOK, IndexSound, bmVars
  <1>2. \A b : Holders(b)' = Holders(b)
    BY DEF bmVars, Holders
  <1>3. BlockAccounting'
    BY <1>2 DEF PoolInv, BlockAccounting, bmVars
  <1>4. ASSUME NEW r \in Seqs PROVE LabelledTable(r)'
    <2>1. LabelledTable(r)
      BY DEF PoolInv, LabelledTables
    <2>2. /\ token_ids'[r] = token_ids[r]
          /\ num_cached_tokens'[r] = num_cached_tokens[r]
          /\ block_table'[r] = block_table[r]
          /\ hash' = hash
      BY DEF bmVars
    <2> QED BY <1>2, <2>1, <2>2, LabelledTableStable
  <1>5. LabelledTables'
    BY <1>4 DEF LabelledTables, LabelledTable
  <1> QED BY <1>1, <1>3, <1>5 DEF PoolInv

(* A decode that starts a block takes the head of the free deque.          *)
LEMMA AppendKeeps ==
  ASSUME PoolInv, NEW s \in Seqs, LaxAppend(s)
  PROVE  PoolInv' /\ KeepsHeldLabels
PROOF
  <1> DEFINE c == num_cached_tokens[s]
             t == block_table[s]
             l == Len(token_ids[s])
             q == free_block_ids
             b0 == Head(q)
  <1>1. /\ BMTypeOK /\ BlockAccounting /\ IndexSound /\ \A r \in Seqs : LabelledTable(r)
        /\ c \in Nat /\ token_ids[s] \in Seq(Token) /\ t \in Seq(Blocks)
        /\ q \in Seq(Blocks) /\ IsInjective(q) /\ IsInjective(t)
        /\ used_block_ids = Blocks \ Range(q)
        /\ c <= l /\ c <= Len(t) * BlockSize
    BY DEF LabelledTable, PoolInv, LabelledTables, BMTypeOK, BlockAccounting
  <1>2. /\ Len(q) >= IF l % BlockSize = 1 THEN 1 ELSE 0
        /\ UNCHANGED <<token_ids, num_cached_tokens>>
    BY DEF LaxAppend, can_append
  <1>3. CASE l % BlockSize # 1
    <2>1. UNCHANGED bmVars
      BY <1>2, <1>3 DEF LaxAppend, may_append, bmVars
    <2>2. PoolInv'
      BY <2>1, StutterKeeps
    <2> QED BY <2>1, <2>2 DEF bmVars, KeepsHeldLabels
  <1>4. CASE l % BlockSize = 1
    <2>1. /\ block_table' = [block_table EXCEPT ![s] = Append(t, b0)]
          /\ q' = Tail(q)
          /\ used_block_ids' = used_block_ids \cup {b0}
          /\ ref_count' = [ref_count EXCEPT ![b0] = 1]
          /\ TakeFresh({b0})
      BY <1>4 DEF LaxAppend, may_append
    <2>2. Len(q) >= 1 /\ q # <<>>
      <3>1. Len(q) >= 1
        BY <1>2, <1>4
      <3> QED BY <3>1, EmptySeq
    <2>3. /\ b0 \in Blocks /\ Tail(q) \in Seq(Blocks) /\ IsInjective(Tail(q))
          /\ b0 \in Range(q) /\ Range(Tail(q)) = Range(q) \ {b0}
      <3> HIDE DEF q
      <3>1. Len(q) \in Nat /\ DOMAIN q = 1 .. Len(q)
        BY <1>1, LenProperties
      <3>2. /\ b0 \in Blocks /\ Tail(q) \in Seq(Blocks) /\ Len(Tail(q)) = Len(q) - 1
            /\ \A i \in 1 .. Len(q) - 1 : Tail(q)[i] = q[i + 1]
        BY <1>1, <2>2, HeadTailProperties
      <3>3. DOMAIN Tail(q) = 1 .. Len(q) - 1
        BY <3>2, LenProperties
      <3>4. b0 = q[1] /\ 1 \in DOMAIN q
        BY <2>2, <3>1
      <3> DEFINE r == Tail(q)
      <3> HIDE DEF r, b0
      <3>5. IsInjective(r)
        <4> SUFFICES ASSUME NEW i \in 1 .. Len(q) - 1, NEW j \in 1 .. Len(q) - 1, r[i] = r[j]
                     PROVE  i = j
          BY <3>3 DEF IsInjective, r
        <4>1. i + 1 \in DOMAIN q /\ j + 1 \in DOMAIN q /\ q[i + 1] = q[j + 1]
          BY <3>1, <3>2 DEF r
        <4>2. i + 1 = j + 1
          BY <1>1, <4>1 DEF IsInjective
        <4> QED BY <3>1, <4>2
      <3>6. ASSUME NEW x \in Range(r) PROVE x \in Range(q) \ {b0}
        <4>1. PICK i \in 1 .. Len(q) - 1 : r[i] = x
          BY <3>3 DEF Range, r
        <4>2. i + 1 \in DOMAIN q /\ q[i + 1] = x /\ i + 1 # 1
          BY <3>1, <3>2, <4>1 DEF r
        <4>3. x # b0
          BY <1>1, <3>4, <4>2 DEF IsInjective
        <4> QED BY <4>2, <4>3 DEF Range
      <3>7. ASSUME NEW x \in Range(q) \ {b0} PROVE x \in Range(r)
        <4>1. PICK i \in 1 .. Len(q) : q[i] = x
          BY <3>1 DEF Range
        <4>2. i # 1
          BY <3>4, <4>1
        <4>3. i - 1 \in 1 .. Len(q) - 1 /\ (i - 1) + 1 = i
          BY <3>1, <4>2
        <4>4. i - 1 \in DOMAIN r /\ r[i - 1] = x
          BY <3>2, <3>3, <4>1, <4>3 DEF r
        <4> QED BY <4>4 DEF Range
      <3>8. b0 \in Range(q)
        BY <3>4 DEF Range
      <3> QED BY <3>2, <3>5, <3>6, <3>7, <3>8 DEF r
    <2>4. b0 \notin used_block_ids /\ Holders(b0) = {}
      BY <1>1, <2>3 DEF BlockAccounting
    <2>5. /\ Append(t, b0) \in Seq(Blocks) /\ IsInjective(Append(t, b0))
          /\ Range(Append(t, b0)) = Range(t) \cup {b0}
          /\ Len(Append(t, b0)) = Len(t) + 1
          /\ \A i \in 1 .. Len(t) : Append(t, b0)[i] = t[i]
          /\ Append(t, b0)[Len(t) + 1] = b0
      <3>1. b0 \notin Range(t)
        BY <2>4 DEF Holders
      <3> HIDE DEF t, b0
      <3>2. /\ Append(t, b0) \in Seq(Blocks)
            /\ Len(Append(t, b0)) = Len(t) + 1
            /\ \A i \in 1 .. Len(t) : Append(t, b0)[i] = t[i]
            /\ Append(t, b0)[Len(t) + 1] = b0
        BY <1>1, <2>3, AppendProperties
      <3>3. Append(t, b0) = t \o <<b0>>
        BY <1>1, <2>3, AppendIsConcat
      <3>4. <<b0>> \in Seq(Blocks) /\ IsInjective(<<b0>>) /\ Range(<<b0>>) = {b0}
        BY <2>3 DEF IsInjective, Range
      <3>5. Range(t) \cap Range(<<b0>>) = {}
        BY <3>1, <3>4
      <3> DEFINE v == <<b0>>
      <3>6. /\ v \in Seq(Blocks) /\ IsInjective(v) /\ Range(t) \cap Range(v) = {}
            /\ t \in Seq(Blocks) /\ IsInjective(t)
        BY <1>1, <3>4, <3>5
      <3> HIDE DEF v
      <3>7. IsInjective(t \o v) /\ Range(t \o v) = Range(t) \cup Range(v)
        BY <3>6, JoinInjective
      <3> QED BY <3>2, <3>3, <3>4, <3>7 DEF v
    <2> DEFINE u == Append(t, b0)
    <2>6. /\ hash' \in [Blocks -> Seq(Token)]
          /\ DOMAIN hash_to_block_id' \subseteq Seq(Token)
          /\ hash_to_block_id' \in [DOMAIN hash_to_block_id' -> Blocks]
          /\ IndexSound'
          /\ \A b \in Blocks : hash'[b] = IF b \in {b0} THEN NoHash ELSE hash[b]
      <3>1. {b0} \in SUBSET Blocks
        BY <2>3
      <3> HIDE DEF b0
      <3> QED BY <1>1, <2>1, <3>1, TakeFreshSound
    <2>7. PICK d \in Blocks : d = b0
      BY <2>3
    <2>8. /\ block_table' = [block_table EXCEPT ![s] = u]
          /\ u \in Seq(Blocks) /\ IsInjective(u) /\ Len(u) = Len(t) + 1
          /\ Range(u) = Range(t) \cup {d}
          /\ \A i \in 1 .. Len(t) : u[i] = t[i]
          /\ u[Len(t) + 1] = d
          /\ used_block_ids' = used_block_ids \cup {d}
          /\ ref_count' = [ref_count EXCEPT ![d] = 1]
          /\ q' = Tail(q) /\ Range(Tail(q)) = Range(q) \ {d}
          /\ d \notin used_block_ids /\ Holders(d) = {}
          /\ \A b \in Blocks : hash'[b] = IF b = d THEN NoHash ELSE hash[b]
      BY <2>1, <2>3, <2>4, <2>5, <2>6, <2>7
    <2> HIDE DEF u
    <2>9. \A b : Holders(b)' = IF b = d THEN {s} ELSE Holders(b)
      <3> TAKE b
      <3>1. /\ Holders(b)' = IF b \in Range(u) THEN Holders(b) \cup {s}
                             ELSE Holders(b) \ {s}
            /\ s \in Holders(b) <=> b \in Range(t)
        BY <1>1, <2>8, HoldersAfter
      <3>2. CASE b = d
        BY <2>8, <3>1, <3>2
      <3>3. CASE b # d /\ b \in Range(t)
        <4>1. Holders(b) \cup {s} = Holders(b)
          BY <3>1, <3>3
        <4> QED BY <2>8, <3>1, <3>3, <4>1
      <3>4. CASE b # d /\ b \notin Range(t)
        <4>1. Holders(b) \ {s} = Holders(b) /\ b \notin Range(u)
          BY <2>8, <3>1, <3>4
        <4> QED BY <3>1, <3>4, <4>1
      <3> QED BY <3>2, <3>3, <3>4
    <2>10. BMTypeOK'
      <3>1. ref_count' \in [Blocks -> Nat]
        BY <1>1, <2>8 DEF BMTypeOK
      <3>2. block_table' \in [Seqs -> Seq(Blocks)]
        BY <1>1, <2>8 DEF BMTypeOK
      <3>3. used_block_ids' \subseteq Blocks /\ free_block_ids' \in Seq(Blocks)
        BY <1>1, <2>3, <2>8
      <3> QED BY <1>1, <1>2, <2>6, <3>1, <3>2, <3>3 DEF BMTypeOK
    <2>11. BlockAccounting'
      <3>1. IsInjective(free_block_ids')
            /\ used_block_ids' = Blocks \ Range(free_block_ids')
        BY <1>1, <2>3, <2>8
      <3>2. \A r \in Seqs : IsInjective(block_table'[r])
        BY <1>1, <2>8 DEF BlockAccounting, BMTypeOK
      <3>3. ASSUME NEW b \in Blocks
            PROVE  ref_count'[b] = Cardinality(Holders(b)')
        <4>1. ref_count'[b] = IF b = d THEN 1 ELSE ref_count[b]
          BY <1>1, <2>8 DEF BMTypeOK
        <4>2. Cardinality({s}) = 1
          BY FS_Singleton
        <4>3. ref_count[b] = Cardinality(Holders(b))
          BY <1>1 DEF BlockAccounting
        <4> QED BY <2>9, <4>1, <4>2, <4>3
      <3>4. ASSUME NEW b \in Blocks
            PROVE  b \in used_block_ids' <=> Holders(b)' # {}
        <4>1. b \in used_block_ids <=> Holders(b) # {}
          BY <1>1 DEF BlockAccounting
        <4> QED BY <2>8, <2>9, <4>1
      <3> QED BY <3>1, <3>2, <3>3, <3>4 DEF BlockAccounting
    <2>12. ASSUME NEW r \in Seqs, r # s PROVE LabelledTable(r)'
      <3>1. ASSUME NEW b \in Range(block_table[r])
            PROVE  /\ hash'[b] = hash[b]
                   /\ hash[b] = NoHash /\ Holders(b) = {r} => Holders(b)' = {r}
        <4>1. b \in Blocks
          BY <1>1, RangeOfSeq DEF BMTypeOK
        <4>2. r \in Holders(b)
          BY DEF Holders
        <4>3. b # d
          BY <2>8, <4>2
        <4> QED BY <2>8, <2>9, <4>1, <4>3
      <3>2. block_table'[r] = block_table[r]
        BY <1>1, <2>8, <2>12 DEF BMTypeOK
      <3> QED BY <1>1, <1>2, <3>1, <3>2, LabelledTableStable
    <2>13. LabelledTable(s)'
      <3>1. block_table'[s] = u /\ token_ids'[s] = token_ids[s] /\ num_cached_tokens'[s] = c
        BY <1>1, <1>2, <2>8 DEF BMTypeOK
      <3>2. /\ full_blocks(s)' = full_blocks(s) /\ full_blocks(s) = c \div BlockSize
            /\ \A i : Chain(s, i)' = Chain(s, i)
        BY <3>1 DEF full_blocks, Chain
      <3>3. \A i \in DOMAIN t : IF i <= full_blocks(s) THEN hash[t[i]] = Chain(s, i)
                                ELSE hash[t[i]] = NoHash /\ Holders(t[i]) = {s}
        BY <1>1 DEF LabelledTable
      <3>4. l \in Nat /\ DOMAIN t = 1 .. Len(t) /\ DOMAIN u = 1 .. Len(t) + 1
            /\ Len(t) \in Nat /\ \A i \in DOMAIN t : t[i] \in Blocks
        BY <1>1, <2>8, LenProperties
      <3> DEFINE f == full_blocks(s)
      <3> HIDE DEF c, t, l, f
      <3>5. f <= Len(t) /\ f \in Nat
        <4>1. f \in Nat /\ f * BlockSize <= c
          BY <1>1, <3>2, DivBlockSize DEF f
        <4>2. ASSUME Len(t) < f PROVE FALSE
          <5>1. Len(t) * BlockSize + BlockSize <= f * BlockSize
            BY <3>4, <4>1, <4>2, TimesBlockSize
          <5>2. Len(t) * BlockSize \in Nat /\ f * BlockSize \in Nat
                /\ BlockSize \in Nat /\ BlockSize > 1
            BY <3>4, <4>1, TimesBlockSize, BlockSizeAssumption
          <5> QED BY <1>1, <4>1, <5>1, <5>2
        <4> QED BY <3>4, <4>1, <4>2
      <3>6. ASSUME NEW i \in DOMAIN u, NEW b, b = u[i]
            PROVE  IF i <= f THEN hash'[b] = Chain(s, i)
                   ELSE hash'[b] = NoHash /\ Holders(b)' = {s}
        <4>1. CASE i <= Len(t)
          <5>1. i \in DOMAIN t /\ b = t[i] /\ b \in Blocks
            BY <2>8, <3>4, <3>6, <4>1
          <5>2. b \in Range(t)
            BY <5>1 DEF Range
          <5>3. s \in Holders(b)
            BY <5>2 DEF Holders, t
          <5>4. b # d
            BY <2>8, <5>3
          <5>5. IF i <= f THEN hash[b] = Chain(s, i)
                ELSE hash[b] = NoHash /\ Holders(b) = {s}
            BY <3>3, <5>1 DEF f
          <5> QED BY <2>8, <2>9, <5>1, <5>4, <5>5
        <4>2. CASE ~ (i <= Len(t))
          <5>1. i = Len(t) + 1 /\ ~ (i <= f)
            BY <3>4, <3>5, <4>2
          <5>2. b = d
            BY <2>8, <3>6, <5>1
          <5> QED BY <2>8, <2>9, <5>1, <5>2
        <4> QED BY <4>1, <4>2
      <3>7. c <= Len(token_ids'[s])
        BY <1>1, <3>1 DEF l
      <3>8. c <= Len(u) * BlockSize
        <4>1. (Len(t) + 1) * BlockSize = Len(t) * BlockSize + BlockSize
              /\ Len(t) * BlockSize \in Nat /\ BlockSize \in Nat
          BY <3>4, TimesBlockSize, BlockSizeAssumption
        <4> QED BY <1>1, <2>8, <4>1
      <3>9. ASSUME NEW i \in DOMAIN block_table'[s], NEW b, b = block_table'[s][i]
            PROVE  IF i <= full_blocks(s)' THEN hash'[b] = Chain(s, i)'
                   ELSE hash'[b] = NoHash /\ Holders(b)' = {s}
        BY <3>1, <3>2, <3>6, <3>9 DEF f
      <3> QED BY <3>1, <3>7, <3>8, <3>9, LabelledTableIntro
    <2>14. LabelledTables'
      BY <2>12, <2>13 DEF LabelledTables, LabelledTable
    <2>15. KeepsHeldLabels
      BY <2>8 DEF KeepsHeldLabels
    <2> QED BY <2>6, <2>10, <2>11, <2>14, <2>15 DEF PoolInv
  <1> QED BY <1>3, <1>4

-----------------------------------------------------------------------------
(* Initially all blocks are free and without label.                        *)
LEMMA InitInv == BMInit => BMInv
PROOF
  <1> SUFFICES ASSUME BMInit PROVE BMInv
    OBVIOUS
  <1> DEFINE q == [i \in 1 .. NumBlocks |-> i - 1]
  <1>1. /\ token_ids = [s \in Seqs |-> <<>>]
        /\ num_cached_tokens = [s \in Seqs |-> 0]
        /\ block_table = [s \in Seqs |-> <<>>]
        /\ ref_count = [b \in Blocks |-> 0]
        /\ hash = [b \in Blocks |-> NoHash]
        /\ hash_to_block_id = [h \in {} |-> 0]
        /\ free_block_ids = q
        /\ used_block_ids = {}
    BY DEF BMInit
  <1>2. NumBlocks \in Nat /\ NumBlocks > 0
    BY NumBlocksAssumption
  <1>3. /\ q \in Seq(Blocks) /\ IsInjective(q) /\ Range(q) = Blocks
        /\ DOMAIN q = 1 .. NumBlocks
    <2>1. q \in [1 .. NumBlocks -> Blocks]
      BY <1>2 DEF Blocks
    <2>2. q \in Seq(Blocks)
      BY <1>2, <2>1, SeqDef
    <2>3. \A i, j \in 1 .. NumBlocks : q[i] = q[j] => i = j
      BY <1>2
    <2>4. Range(q) \subseteq Blocks
      BY <2>1 DEF Range
    <2>5. ASSUME NEW b \in Blocks PROVE b \in Range(q)
      <3>1. b + 1 \in 1 .. NumBlocks /\ (b + 1) - 1 = b
        BY <1>2 DEF Blocks
      <3>2. b + 1 \in DOMAIN q /\ q[b + 1] = b
        BY <3>1
      <3> QED BY <3>2 DEF Range
    <2> QED BY <2>2, <2>3, <2>4, <2>5 DEF IsInjective
  <1> HIDE DEF q
  <1>4. <<>> \in Seq(Token) /\ <<>> \in Seq(Blocks) /\ Len(<<>>) = 0 /\ DOMAIN <<>> = {}
    BY EmptySeq
  <1>5. BMTypeOK
    BY <1>1, <1>3, <1>4 DEF BMTypeOK, NoHash
  <1>6. \A b : Holders(b) = {}
    BY <1>1, <1>4 DEF Holders, Range
  <1>7. BlockAccounting
    <2>1. Cardinality({}) = 0
      BY FS_EmptySet
    <2>2. IsInjective(<<>>)
      BY <1>4 DEF IsInjective
    <2> QED BY <1>1, <1>3, <1>6, <2>1, <2>2 DEF BlockAccounting
  <1>8. TablesLabelled
    <2> SUFFICES ASSUME NEW s \in Seqs
                 PROVE  LabelledTable(s) /\ Len(block_table[s]) <= num_blocks(s)
      BY DEF TablesLabelled, LabelledTable
    <2>1. /\ token_ids[s] = <<>> /\ block_table[s] = <<>> /\ num_cached_tokens[s] = 0
      BY <1>1
    <2>2. num_blocks(s) \in Nat
      BY <1>4, <2>1, BlocksForBounds DEF num_blocks
    <2>3. 0 * BlockSize = 0
      BY TimesBlockSize
    <2> QED BY <1>4, <2>1, <2>2, <2>3 DEF LabelledTable
  <1>9. IndexSound
    BY <1>1 DEF IndexSound
  <1> QED BY <1>5, <1>7, <1>8, <1>9 DEF BMInv

(* Every call keeps the pool, its labels and its index in order, however   *)
(* much the callers lost count.                                            *)
LEMMA PoolNext ==
  ASSUME PoolInv, [LaxNext]_bmVars
  PROVE  PoolInv' /\ KeepsHeldLabels
PROOF
  <1>1. CASE UNCHANGED bmVars
    <2>1. KeepsHeldLabels
      BY <1>1 DEF KeepsHeldLabels, bmVars
    <2> QED BY <1>1, <2>1, StutterKeeps
  <1>2. ASSUME NEW s \in Seqs, NEW prompt \in Prompts, BMCreate(s, prompt)
        PROVE  PoolInv' /\ KeepsHeldLabels
    BY <1>2, CreateKeeps
  <1>3. ASSUME NEW s \in Seqs, BMAllocate(s)
        PROVE  PoolInv' /\ KeepsHeldLabels
    BY <1>3, AllocateKeeps, AllocateKeepsLabels
  <1>4. ASSUME NEW s \in Seqs, LaxAppend(s)
        PROVE  PoolInv' /\ KeepsHeldLabels
    BY <1>4, AppendKeeps
  <1>5. ASSUME NEW s \in Seqs, NEW n \in Nat, LaxChunk(s, n)
        PROVE  PoolInv' /\ KeepsHeldLabels
    BY <1>5, ChunkKeeps
  <1>6. ASSUME NEW s \in Seqs, NEW n \in Nat, NEW t \in Token, LaxToken(s, n, t)
        PROVE  PoolInv' /\ KeepsHeldLabels
    BY <1>6, TokenKeeps
  <1>7. ASSUME NEW s \in Seqs, NEW n \in Nat, NEW t \in Token, LaxLastToken(s, n, t)
        PROVE  PoolInv' /\ KeepsHeldLabels
    BY <1>7, LastTokenKeeps
  <1>8. ASSUME NEW s \in Seqs, BMRelease(s)
        PROVE  PoolInv' /\ KeepsHeldLabels
    BY <1>8, ReleaseKeeps
  <1> QED BY <1>1, <1>2, <1>3, <1>4, <1>5, <1>6, <1>7, <1>8 DEF LaxNext

(* Callers that respect the order of calls are a special case.             *)
LEMMA LegalIsLax ==
  ASSUME BMTypeOK, [BMNext]_bmVars
  PROVE  [LaxNext]_bmVars
PROOF
  <1>1. ASSUME NEW s \in Seqs
        PROVE  /\ num_cached_tokens[s] \in Nat /\ Len(token_ids[s]) \in Nat
               /\ Len(block_table[s]) \in Nat
    BY LenProperties DEF BMTypeOK
  <1>2. ASSUME NEW s \in Seqs, BMAppend(s) PROVE LaxNext
    BY <1>2 DEF BMAppend, LaxAppend, LaxNext
  <1>3. ASSUME NEW s \in Seqs, NEW n \in 1 .. Len(token_ids[s]),
               num_cached_tokens[s] + n <= Len(token_ids[s]),
               Len(block_table[s]) = num_blocks(s)
        PROVE  n \in Nat /\ CanHash(s, n)
    BY <1>1, <1>3 DEF CanHash
  <1>4. ASSUME NEW s \in Seqs, NEW n \in 1 .. Len(token_ids[s]), BMChunk(s, n)
        PROVE  LaxNext
    <2>1. n \in Nat /\ CanHash(s, n)
      BY <1>1, <1>3, <1>4 DEF BMChunk
    <2>2. LaxChunk(s, n)
      BY <1>4, <2>1 DEF BMChunk, LaxChunk
    <2> QED BY <2>1, <2>2 DEF LaxNext
  <1>5. ASSUME NEW s \in Seqs, NEW n \in 1 .. Len(token_ids[s]), NEW t \in Token,
               BMToken(s, n, t)
        PROVE  LaxNext
    <2>1. n \in Nat /\ CanHash(s, n)
      BY <1>1, <1>3, <1>5 DEF BMToken
    <2>2. LaxToken(s, n, t)
      BY <1>5, <2>1 DEF BMToken, LaxToken
    <2> QED BY <2>1, <2>2 DEF LaxNext
  <1>6. ASSUME NEW s \in Seqs, NEW n \in 1 .. Len(token_ids[s]), NEW t \in Token,
               BMLastToken(s, n, t)
        PROVE  LaxNext
    <2>1. n \in Nat /\ CanHash(s, n)
      BY <1>1, <1>3, <1>6 DEF BMLastToken
    <2>2. LaxLastToken(s, n, t)
      BY <1>6, <2>1 DEF BMLastToken, LaxLastToken
    <2> QED BY <2>1, <2>2 DEF LaxNext
  <1> QED BY <1>2, <1>4, <1>5, <1>6 DEF BMNext, LaxNext

(* A table that does not grow stays short enough: sequences never shrink.  *)
LEMMA SpareStable ==
  ASSUME BMInv, BMTypeOK', NEW r \in Seqs,
         Len(token_ids'[r]) >= Len(token_ids[r]),
         block_table'[r] = block_table[r] \/ block_table'[r] = <<>>
  PROVE  Len(block_table'[r]) <= num_blocks(r)'
PROOF
  <1>1. /\ Len(token_ids[r]) \in Nat /\ Len(token_ids'[r]) \in Nat
        /\ Len(block_table[r]) \in Nat /\ Len(<<>>) = 0
    BY LenProperties, EmptySeq DEF BMInv, BMTypeOK
  <1>2. Len(block_table'[r]) <= Len(block_table[r]) /\ Len(block_table'[r]) \in Nat
    BY <1>1
  <1>3. Len(block_table[r]) <= BlocksFor(Len(token_ids[r]))
    BY DEF BMInv, TablesLabelled, num_blocks
  <1>4. /\ BlocksFor(Len(token_ids[r])) <= BlocksFor(Len(token_ids'[r]))
        /\ BlocksFor(Len(token_ids[r])) \in Nat /\ BlocksFor(Len(token_ids'[r])) \in Nat
    BY <1>1, BlocksForMonotonic, BlocksForBounds
  <1> QED BY <1>1, <1>2, <1>3, <1>4 DEF num_blocks

(* A legal caller never takes more blocks than the sequence needs.         *)
LEMMA NoSpareKept ==
  ASSUME BMInv, BMTypeOK', [BMNext]_bmVars
  PROVE  NoSpareBlocks'
PROOF
  <1>1. /\ BMTypeOK /\ PoolInv /\ token_ids \in [Seqs -> Seq(Token)]
        /\ token_ids' \in [Seqs -> Seq(Token)]
        /\ block_table \in [Seqs -> Seq(Blocks)]
    BY BMParts DEF BMInv, BMTypeOK
  <1>2. \A r \in Seqs : Len(token_ids[r]) \in Nat /\ Len(token_ids'[r]) \in Nat
    BY <1>1, LenProperties
  <1>3. ASSUME NEW s \in Seqs, NEW prompt \in Prompts, BMCreate(s, prompt)
        PROVE  NoSpareBlocks'
    <2>1. /\ token_ids' = [token_ids EXCEPT ![s] = prompt] /\ token_ids[s] = <<>>
          /\ block_table' = block_table /\ Len(<<>>) = 0
      BY <1>3, EmptySeq DEF BMCreate
    <2>2. \A r \in Seqs : Len(token_ids'[r]) >= Len(token_ids[r])
      BY <1>1, <1>2, <2>1
    <2> QED BY <2>1, <2>2, SpareStable DEF NoSpareBlocks
  <1>4. ASSUME NEW s \in Seqs, NEW t \in Token,
               token_ids' = [token_ids EXCEPT ![s] = Append(@, t)],
               block_table' = block_table \/ block_table' = [block_table EXCEPT ![s] = <<>>]
        PROVE  NoSpareBlocks'
    <2>1. Len(Append(token_ids[s], t)) = Len(token_ids[s]) + 1
      BY <1>1, AppendProperties
    <2>2. \A r \in Seqs : Len(token_ids'[r]) >= Len(token_ids[r])
      BY <1>1, <1>2, <1>4, <2>1
    <2>3. \A r \in Seqs : block_table'[r] = block_table[r] \/ block_table'[r] = <<>>
      BY <1>1, <1>4
    <2> QED BY <2>2, <2>3, SpareStable DEF NoSpareBlocks
  <1>5. ASSUME token_ids' = token_ids,
               \/ block_table' = block_table
               \/ \E s \in Seqs : block_table' = [block_table EXCEPT ![s] = <<>>]
        PROVE  NoSpareBlocks'
    <2>1. \A r \in Seqs : Len(token_ids'[r]) >= Len(token_ids[r])
      BY <1>2, <1>5
    <2>2. \A r \in Seqs : block_table'[r] = block_table[r] \/ block_table'[r] = <<>>
      BY <1>1, <1>5
    <2> QED BY <2>1, <2>2, SpareStable DEF NoSpareBlocks
  <1>6. ASSUME NEW s \in Seqs, BMAllocate(s) PROVE NoSpareBlocks'
    <2> DEFINE table == CachedIds(s) \o FreshIds(s)
    <2>1. /\ token_ids' = token_ids /\ token_ids[s] # <<>> /\ can_allocate(s)
          /\ block_table' = [block_table EXCEPT ![s] = table]
      BY <1>6 DEF BMAllocate, allocate
    <2>2. Len(table) = num_blocks(s) /\ num_blocks(s) \in Nat
      BY <1>1, <2>1, AllocatedTable, CachedBlocksHit
    <2> HIDE DEF table
    <2>3. Len(block_table'[s]) <= num_blocks(s)'
      BY <1>1, <2>1, <2>2 DEF num_blocks
    <2>4. ASSUME NEW r \in Seqs, r # s PROVE Len(block_table'[r]) <= num_blocks(r)'
      <3>1. block_table'[r] = block_table[r] /\ Len(token_ids'[r]) >= Len(token_ids[r])
        BY <1>1, <1>2, <2>1, <2>4
      <3> QED BY <3>1, SpareStable
    <2> QED BY <2>3, <2>4 DEF NoSpareBlocks
  <1>7. ASSUME NEW s \in Seqs, BMAppend(s) PROVE NoSpareBlocks'
    <2> DEFINE l == Len(token_ids[s])
               b0 == Head(free_block_ids)
    <2>1. token_ids' = token_ids /\ Len(block_table[s]) = BlocksFor(l - 1)
          /\ block_table[s] # <<>> /\ num_cached_tokens[s] = l - 1
      BY <1>7 DEF BMAppend
    <2>2. CASE l % BlockSize # 1
      <3>1. block_table' = block_table
        BY <1>7, <2>2 DEF BMAppend, may_append
      <3> QED BY <1>5, <2>1, <3>1
    <2>3. CASE l % BlockSize = 1
      <3>1. block_table' = [block_table EXCEPT ![s] = Append(block_table[s], b0)]
        BY <1>7, <2>3 DEF BMAppend, may_append
      <3>2. block_table[s] \in Seq(Blocks) /\ block_table'[s] \in Seq(Blocks)
            /\ block_table'[s] = Append(block_table[s], b0)
            /\ num_cached_tokens[s] \in Nat
        BY <1>1, <3>1 DEF BMTypeOK
      <3>3. Len(block_table'[s]) = Len(block_table[s]) + 1
        <4>1. free_block_ids \in Seq(Blocks) /\ free_block_ids # <<>>
          <5>1. Len(free_block_ids) >= 1
            BY <1>7, <2>3 DEF BMAppend, can_append
          <5> QED BY <1>1, <5>1, EmptySeq DEF BMTypeOK
        <4>2. b0 \in Blocks
          BY <4>1, HeadTailProperties
        <4> HIDE DEF b0
        <4> QED BY <3>2, <4>2, AppendProperties
      <3>4. l \in Nat /\ l > 0
        BY <1>2, <2>1, <3>2
      <3> HIDE DEF l, b0
      <3>5. BlocksFor(l) = BlocksFor(l - 1) + 1 /\ BlocksFor(l) \in Nat
        BY <2>3, <3>4, NewBlockStarts, BlocksForBounds
      <3>6. num_blocks(s)' = BlocksFor(l)
        BY <2>1 DEF num_blocks, l
      <3>7. Len(block_table'[s]) <= num_blocks(s)'
        BY <2>1, <3>3, <3>5, <3>6
      <3>8. ASSUME NEW r \in Seqs, r # s PROVE Len(block_table'[r]) <= num_blocks(r)'
        <4>1. block_table'[r] = block_table[r] /\ Len(token_ids'[r]) >= Len(token_ids[r])
          BY <1>1, <1>2, <2>1, <3>1, <3>8
        <4> QED BY <4>1, SpareStable
      <3> QED BY <3>7, <3>8 DEF NoSpareBlocks
    <2> QED BY <2>2, <2>3
  <1>8. CASE BMNext
    <2>1. ASSUME NEW s \in Seqs, NEW n, BMChunk(s, n) PROVE NoSpareBlocks'
      BY <1>5, <2>1 DEF BMChunk
    <2>2. ASSUME NEW s \in Seqs, NEW n, NEW t \in Token,
                 BMToken(s, n, t) \/ BMLastToken(s, n, t)
          PROVE  NoSpareBlocks'
      BY <1>4, <2>2 DEF BMToken, BMLastToken, deallocate
    <2>3. ASSUME NEW s \in Seqs, BMRelease(s) PROVE NoSpareBlocks'
      BY <1>5, <2>3 DEF BMRelease, deallocate
    <2> QED BY <1>3, <1>6, <1>7, <1>8, <2>1, <2>2, <2>3 DEF BMNext
  <1>9. CASE UNCHANGED bmVars
    BY <1>5, <1>9 DEF bmVars
  <1> QED BY <1>8, <1>9

(* Every call a legal caller makes keeps the invariant and the labels.     *)
LEMMA NextInv ==
  ASSUME BMInv, [BMNext]_bmVars
  PROVE  BMInv' /\ KeepsHeldLabels
PROOF
  <1>1. PoolInv' /\ KeepsHeldLabels
    BY LegalIsLax, PoolNext, BMParts DEF PoolInv
  <1>2. NoSpareBlocks'
    BY <1>1, NoSpareKept DEF PoolInv
  <1>3. BMInv'
    BY <1>1, <1>2 DEF BMInv, PoolInv, NoSpareBlocks, TablesLabelled, LabelledTables,
                      LabelledTable
  <1> QED BY <1>1, <1>3

(* The inductive invariant holds in every reachable state.                 *)
THEOREM Invariance == BMSpec => []BMInv
PROOF
  <1>1. BMInit => BMInv
    BY InitInv
  <1>2. BMInv /\ [BMNext]_bmVars => BMInv'
    BY NextInv
  <1> QED BY <1>1, <1>2, PTL DEF BMSpec

(* The allocator's variables keep their types, whatever the order in which *)
(* the engine calls it.                                                    *)
THEOREM TypeCorrect == BMSpec => []BMTypeOK
PROOF
  <1>1. BMInv => BMTypeOK
    BY DEF BMInv
  <1> QED BY <1>1, Invariance, PTL

(* No block is lost, freed twice or handed out while held: the free deque  *)
(* and the used set partition the pool and ref_count counts the holders.   *)
THEOREM AccountingCorrect == BMSpec => []BlockAccounting
PROOF
  <1>1. BMInv => BlockAccounting
    BY DEF BMInv
  <1> QED BY <1>1, Invariance, PTL

(* Sharing is safe: a full block of a table is labelled with the prefix of *)
(* each of its holders, and a block being filled has a single holder.      *)
THEOREM SharingCorrect == BMSpec => []TablesLabelled
PROOF
  <1>1. BMInv => TablesLabelled
    BY DEF BMInv
  <1> QED BY <1>1, Invariance, PTL

(* hash_to_block_id never names a block that was rewritten since.          *)
THEOREM IndexCorrect == BMSpec => []IndexSound
PROOF
  <1>1. BMInv => IndexSound
    BY DEF BMInv
  <1> QED BY <1>1, Invariance, PTL

(* can_allocate promises no more than the free deque can give: allocate    *)
(* never pops an empty deque.                                              *)
THEOREM AllocationCorrect == BMSpec => []AllocateFindsBlocks
PROOF
  <1>1. BMInv => AllocateFindsBlocks
    BY AllocationSufficient DEF BMInv, AllocateFindsBlocks
  <1> QED BY <1>1, Invariance, PTL

(* No step changes the label of a block that a sequence holds: what a      *)
(* sequence was given as its prefix stays its prefix.                      *)
THEOREM LabelsStable == BMSpec => HeldLabelsStable
PROOF
  <1> DEFINE A == \A b \in Blocks :
                    (hash[b] # NoHash /\ \E s \in Seqs : b \in Range(block_table[s])
                                                      /\ b \in Range(block_table'[s]))
                      => hash'[b] = hash[b]
  <1>1. BMInv /\ [BMNext]_bmVars => [A]_bmVars
    <2> SUFFICES ASSUME BMInv, [BMNext]_bmVars PROVE A
      OBVIOUS
    <2>1. KeepsHeldLabels
      BY NextInv
    <2> QED BY <2>1 DEF KeepsHeldLabels, Holders
  <1> HIDE DEF A
  <1>2. BMSpec => [][A]_bmVars
    BY <1>1, Invariance, PTL DEF BMSpec
  <1> QED BY <1>2 DEF A, HeldLabelsStable
=============================================================================
