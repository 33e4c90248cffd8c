---------------------------- MODULE BlockManager ----------------------------
(***************************************************************************)
(* The paged KV-cache allocator of engine/block_manager.py, with the part  *)
(* of engine/sequence.py it reads and writes.                              *)
(*                                                                         *)
(* A sequence owns a block table; a block that holds BlockSize computed    *)
(* tokens is labelled with the digest of every token up to its end, and    *)
(* the index hash_to_block_id lets a later sequence with the same prefix   *)
(* share it.  Labels survive the release of a block, until the block is    *)
(* taken from the free deque again.                                        *)
(*                                                                         *)
(* Digests are taken to be collision free: the digest that compute_hash    *)
(* chains over blocks 0..i-1 of a sequence is modelled by those tokens     *)
(* themselves, and the code's -1 ("no hash") by the empty sequence.        *)
(* Table positions are 1-based here, 0-based in the code.                  *)
(*                                                                         *)
(* The operators on one sequence s are the methods of the code and         *)
(* constrain exactly the variables the method assigns; BMSpec closes them  *)
(* with every caller that respects the order of calls of engine.step().    *)
(***************************************************************************)
EXTENDS Integers, SequencesExt, Queues

CONSTANTS
  NumBlocks,    (* num_kvcache_blocks                                      *)
  BlockSize,    (* kvcache_block_size                                      *)
  Seqs,         (* identities of sequences                                 *)
  Token,        (* the vocabulary                                          *)
  Prompts,      (* the prompts a request may carry                         *)
  MaxLen        (* bound on the length of a sequence                       *)

ASSUME NumBlocksAssumption == NumBlocks \in Nat \ {0}
(* With one token per block `len(seq) % block_size == 1` never holds; the  *)
(* configuration only admits multiples of 256.                             *)
ASSUME BlockSizeAssumption == BlockSize \in Nat /\ BlockSize > 1
ASSUME SeqsAssumption == IsFiniteSet(Seqs)
ASSUME PromptsAssumption == Prompts \subseteq Seq(Token) \ {<<>>}
ASSUME MaxLenAssumption == MaxLen \in Nat

VARIABLES
  token_ids,          (* Sequence.token_ids; <<>> before it is created     *)
  num_cached_tokens,  (* Sequence.num_cached_tokens                        *)
  block_table,        (* Sequence.block_table                              *)
  ref_count,          (* Block.ref_count                                   *)
  hash,               (* Block.hash, and with it Block.token_ids           *)
  hash_to_block_id,   (* the prefix index, a partial function              *)
  free_block_ids,     (* the free deque                                    *)
  used_block_ids      (* the set of blocks in use                          *)

bmVars == <<token_ids, num_cached_tokens, block_table, ref_count, hash,
            hash_to_block_id, free_block_ids, used_block_ids>>

Blocks == 0 .. NumBlocks - 1
NoHash == <<>>

-----------------------------------------------------------------------------
BlocksFor(n) == (n + BlockSize - 1) \div BlockSize

num_blocks(s) == BlocksFor(Len(token_ids[s]))

(* The digest of the first n blocks of s.                                  *)
Chain(s, n) == SubSeq(token_ids[s], 1, n * BlockSize)

(* Block.token_ids: the last BlockSize tokens its label covers.            *)
LabelTokens(b) ==
  IF hash[b] = NoHash THEN <<>>
  ELSE SubSeq(hash[b], Len(hash[b]) - BlockSize + 1, Len(hash[b]))

(* The i-th block of s is in the index, with the tokens of s.              *)
Hit(s, i) ==
  /\ Chain(s, i) \in DOMAIN hash_to_block_id
  /\ LabelTokens(hash_to_block_id[Chain(s, i)]) =
       SubSeq(token_ids[s], (i - 1) * BlockSize + 1, i * BlockSize)

(* The loop of can_allocate stops at the first miss and leaves the last    *)
(* block out, so that at least one token is always computed.               *)
num_cached_blocks(s) ==
  CHOOSE n \in 0 .. num_blocks(s) - 1 :
    /\ \A i \in 1 .. n : Hit(s, i)
    /\ n < num_blocks(s) - 1 => ~ Hit(s, n + 1)

CachedIds(s) ==
  [i \in 1 .. num_cached_blocks(s) |-> hash_to_block_id[Chain(s, i)]]

(* Mutant of num_new_blocks: every hit saves a free block.                 *)
num_new_blocks_per_miss(s) == num_blocks(s) - num_cached_blocks(s)

(* A hit on a block in use costs no free block; a hit on a free one does.  *)
num_new_blocks(s) ==
  num_blocks(s) - Cardinality({i \in 1 .. num_cached_blocks(s) :
                                 CachedIds(s)[i] \in used_block_ids})

can_allocate(s) == Len(free_block_ids) >= num_new_blocks(s)

can_append(s) ==
  Len(free_block_ids) >= IF Len(token_ids[s]) % BlockSize = 1 THEN 1 ELSE 0

-----------------------------------------------------------------------------
(* Mutant of TakeFresh: the index keeps pointing at a rewritten block.     *)
TakeFresh_keeping_index(F) ==
  /\ hash' = [b \in Blocks |-> IF b \in F THEN NoHash ELSE hash[b]]
  /\ UNCHANGED hash_to_block_id

(* _allocate_block on every block of F: the label is reset and leaves the  *)
(* index if the index still points here.                                   *)
TakeFresh(F) ==
  /\ hash' = [b \in Blocks |-> IF b \in F THEN NoHash ELSE hash[b]]
  /\ hash_to_block_id' =
       Restrict(hash_to_block_id,
                {h \in DOMAIN hash_to_block_id :
                   ~ (hash_to_block_id[h] \in F /\ hash[hash_to_block_id[h]] = h)})

FreshIds(s) ==
  SubSeq(Without(free_block_ids, Range(CachedIds(s))), 1,
         num_blocks(s) - num_cached_blocks(s))

(* Mutant of RefsWith: a hit on a block in use takes no reference.         *)
RefsWith_unshared(table) ==
  [b \in Blocks |-> IF b \in Range(table) THEN 1 ELSE ref_count[b]]

RefsWith(table) ==
  [b \in Blocks |-> IF b \notin Range(table) THEN ref_count[b]
                    ELSE IF b \in used_block_ids THEN ref_count[b] + 1
                    ELSE 1]

allocate(s) ==
  LET cached == CachedIds(s)
      fresh  == FreshIds(s)
      rest   == Without(free_block_ids, Range(cached))
      table  == cached \o fresh
  IN  /\ block_table' = [block_table EXCEPT ![s] = table]
      /\ num_cached_tokens' =
           [num_cached_tokens EXCEPT ![s] = num_cached_blocks(s) * BlockSize]
      /\ free_block_ids' = SubSeq(rest, Len(fresh) + 1, Len(rest))
      /\ used_block_ids' = used_block_ids \cup Range(table)
      /\ ref_count' = RefsWith(table)
      /\ TakeFresh(Range(fresh))

(* Mutant of Freed: every block of the table is freed, shared or not.      *)
Freed_shared(s) == Without(Reverse(block_table[s]), Range(free_block_ids))

(* The blocks nobody else holds.  The table is walked backwards, so the    *)
(* deepest blocks of a prefix are queued, and later overwritten, first.    *)
Freed(s) ==
  Without(Reverse(block_table[s]), {b \in Blocks : ref_count[b] # 1})

deallocate(s) ==
  /\ ref_count' = [b \in Blocks |->
                     ref_count[b] - IF b \in Range(block_table[s]) THEN 1 ELSE 0]
  /\ free_block_ids' = free_block_ids \o Freed(s)
  /\ used_block_ids' = used_block_ids \ Range(Freed(s))
  /\ num_cached_tokens' = [num_cached_tokens EXCEPT ![s] = 0]
  /\ block_table' = [block_table EXCEPT ![s] = <<>>]

may_append(s) ==
  LET b == Head(free_block_ids)
  IN  IF Len(token_ids[s]) % BlockSize = 1
      THEN /\ block_table' = [block_table EXCEPT ![s] = Append(@, b)]
           /\ free_block_ids' = Tail(free_block_ids)
           /\ used_block_ids' = used_block_ids \cup {b}
           /\ ref_count' = [ref_count EXCEPT ![b] = 1]
           /\ TakeFresh({b})
      ELSE UNCHANGED <<block_table, free_block_ids, used_block_ids, ref_count,
                       hash, hash_to_block_id>>

NewlyFull(s, n) ==
  num_cached_tokens[s] \div BlockSize + 1 ..
    (num_cached_tokens[s] + n) \div BlockSize

(* Mutant of NewLabel: the digest does not chain over earlier steps.       *)
NewLabel_unchained(s, i) ==
  SubSeq(token_ids[s], (num_cached_tokens[s] \div BlockSize) * BlockSize + 1,
         i * BlockSize)

NewLabel(s, i) ==
  LET start == num_cached_tokens[s] \div BlockSize
      base  == IF start > 0 THEN hash[block_table[s][start]] ELSE NoHash
  IN  base \o SubSeq(token_ids[s], start * BlockSize + 1, i * BlockSize)

hash_blocks(s, n) ==
  LET labels == {NewLabel(s, i) : i \in NewlyFull(s, n)}
  IN  /\ hash' = [b \in Blocks |->
                    IF \E i \in NewlyFull(s, n) : block_table[s][i] = b
                    THEN NewLabel(s, CHOOSE i \in NewlyFull(s, n) :
                                       block_table[s][i] = b)
                    ELSE hash[b]]
      /\ hash_to_block_id' =
           [h \in DOMAIN hash_to_block_id \cup labels |->
              IF h \in labels
              THEN block_table[s][CHOOSE i \in NewlyFull(s, n) : NewLabel(s, i) = h]
              ELSE hash_to_block_id[h]]

-----------------------------------------------------------------------------
(* Every legal caller.  A sequence is created with its prompt, gets its    *)
(* blocks when admitted, has n tokens computed at a time, gains a token    *)
(* when all its tokens are computed, and is released when it is preempted  *)
(* or finished.                                                            *)
BMInit ==
  /\ token_ids = [s \in Seqs |-> <<>>]
  /\ num_cached_tokens = [s \in Seqs |-> 0]
  /\ block_table = [s \in Seqs |-> <<>>]
  /\ ref_count = [b \in Blocks |-> 0]
  /\ hash = [b \in Blocks |-> NoHash]
  /\ hash_to_block_id = [h \in {} |-> 0]
  /\ free_block_ids = [i \in 1 .. NumBlocks |-> i - 1]
  /\ used_block_ids = {}

BMCreate(s, prompt) ==
  /\ token_ids[s] = <<>>
  /\ token_ids' = [token_ids EXCEPT ![s] = prompt]
  /\ UNCHANGED <<num_cached_tokens, block_table, ref_count, hash,
                 hash_to_block_id, free_block_ids, used_block_ids>>

BMAllocate(s) ==
  /\ token_ids[s] # <<>>
  /\ block_table[s] = <<>>
  /\ can_allocate(s)
  /\ allocate(s)
  /\ UNCHANGED token_ids

BMAppend(s) ==
  /\ block_table[s] # <<>>
  /\ num_cached_tokens[s] = Len(token_ids[s]) - 1
  /\ Len(block_table[s]) = BlocksFor(num_cached_tokens[s])
  /\ can_append(s)
  /\ may_append(s)
  /\ UNCHANGED <<token_ids, num_cached_tokens>>

(* Part of the pending tokens is computed: a chunk of a prefill.           *)
BMChunk(s, n) ==
  /\ Len(block_table[s]) = num_blocks(s)
  /\ num_cached_tokens[s] + n < Len(token_ids[s])
  /\ hash_blocks(s, n)
  /\ num_cached_tokens' = [num_cached_tokens EXCEPT ![s] = @ + n]
  /\ UNCHANGED <<token_ids, block_table, ref_count, free_block_ids, used_block_ids>>

(* All pending tokens are computed and the sampled token t is appended.    *)
BMToken(s, n, t) ==
  /\ block_table[s] # <<>>
  /\ Len(block_table[s]) = num_blocks(s)
  /\ num_cached_tokens[s] + n = Len(token_ids[s])
  /\ Len(token_ids[s]) < MaxLen
  /\ hash_blocks(s, n)
  /\ token_ids' = [token_ids EXCEPT ![s] = Append(@, t)]
  /\ num_cached_tokens' = [num_cached_tokens EXCEPT ![s] = @ + n]
  /\ UNCHANGED <<block_table, ref_count, free_block_ids, used_block_ids>>

(* As BMToken, for the last token: the sequence is released at once.       *)
BMLastToken(s, n, t) ==
  /\ block_table[s] # <<>>
  /\ Len(block_table[s]) = num_blocks(s)
  /\ num_cached_tokens[s] + n = Len(token_ids[s])
  /\ Len(token_ids[s]) < MaxLen
  /\ hash_blocks(s, n)
  /\ token_ids' = [token_ids EXCEPT ![s] = Append(@, t)]
  /\ deallocate(s)

BMRelease(s) ==
  /\ block_table[s] # <<>>
  /\ deallocate(s)
  /\ UNCHANGED <<token_ids, hash, hash_to_block_id>>

BMNext ==
  \E s \in Seqs :
    \/ \E prompt \in Prompts : BMCreate(s, prompt)
    \/ BMAllocate(s)
    \/ BMAppend(s)
    \/ \E n \in 1 .. Len(token_ids[s]) : BMChunk(s, n)
    \/ \E n \in 1 .. Len(token_ids[s]), t \in Token : BMToken(s, n, t)
    \/ \E n \in 1 .. Len(token_ids[s]), t \in Token : BMLastToken(s, n, t)
    \/ BMRelease(s)

BMSpec == BMInit /\ [][BMNext]_bmVars
-----------------------------------------------------------------------------
Holders(b) == {s \in Seqs : b \in Range(block_table[s])}

(* Blocks of s below this position hold only computed tokens.              *)
full_blocks(s) == num_cached_tokens[s] \div BlockSize

(* The variables have their types; the index maps labels to blocks.        *)
BMTypeOK ==
  /\ token_ids \in [Seqs -> Seq(Token)]
  /\ num_cached_tokens \in [Seqs -> Nat]
  /\ block_table \in [Seqs -> Seq(Blocks)]
  /\ ref_count \in [Blocks -> Nat]
  /\ hash \in [Blocks -> Seq(Token)]
  /\ DOMAIN hash_to_block_id \subseteq Seq(Token)
  /\ hash_to_block_id \in [DOMAIN hash_to_block_id -> Blocks]
  /\ free_block_ids \in Seq(Blocks)
  /\ used_block_ids \subseteq Blocks

(* The free deque and the used set partition the pool, the deque and every *)
(* table are free of duplicates, and ref_count is the number of tables     *)
(* that hold the block: no block is lost, freed twice or handed out while  *)
(* held (the assertions of _allocate_block and _deallocate_block).         *)
BlockAccounting ==
  /\ IsInjective(free_block_ids)
  /\ used_block_ids = Blocks \ Range(free_block_ids)
  /\ \A s \in Seqs : IsInjective(block_table[s])
  /\ \A b \in Blocks : ref_count[b] = Cardinality(Holders(b))
  /\ \A b \in Blocks : b \in used_block_ids <=> Holders(b) # {}

(* A full block of a table is labelled with exactly the prefix of its      *)
(* owner, which is what prefix sharing relies on; the blocks still being   *)
(* filled carry no label and belong to one sequence only, so that no       *)
(* sequence ever writes into a block another one reads.                    *)
TablesLabelled ==
  \A s \in Seqs :
    /\ num_cached_tokens[s] <= Len(token_ids[s])
    /\ Len(block_table[s]) <= num_blocks(s)
    /\ num_cached_tokens[s] <= Len(block_table[s]) * BlockSize
    /\ \A i \in DOMAIN block_table[s] :
         IF i <= full_blocks(s)
         THEN hash[block_table[s][i]] = Chain(s, i)
         ELSE /\ hash[block_table[s][i]] = NoHash
              /\ Holders(block_table[s][i]) = {s}

(* The index never points at a block that was relabelled or is being       *)
(* rewritten: a lookup finds the prefix it asked for.                      *)
IndexSound ==
  \A h \in DOMAIN hash_to_block_id :
    /\ h # NoHash
    /\ hash[hash_to_block_id[h]] = h

(* When can_allocate says yes, allocate finds enough blocks in the deque:  *)
(* the cached blocks it takes out of it are still counted as new ones.     *)
AllocateFindsBlocks ==
  \A s \in Seqs :
    (token_ids[s] # <<>> /\ block_table[s] = <<>> /\ can_allocate(s))
      => num_blocks(s) - num_cached_blocks(s) <=
           Len(Without(free_block_ids, Range(CachedIds(s))))

(* The label of a block never changes while some sequence holds it.        *)
HeldLabelsStable ==
  [][\A b \in Blocks :
       (hash[b] # NoHash /\ \E s \in Seqs : b \in Range(block_table[s]) /\ b \in Range(block_table'[s]))
          => hash'[b] = hash[b]]_bmVars
=============================================================================
