--------------------------- MODULE SchedulerProofs ---------------------------
(***************************************************************************)
(* What every scheduling policy owes to the steps they share: invariants   *)
(* of SchedulerCore that its actions keep, for every pool, every set of    *)
(* requests and every limit.  The proofs of the policies build on them.    *)
(***************************************************************************)
EXTENDS SchedulerCore, BlockManagerProofs

-----------------------------------------------------------------------------
(* The state outside of the allocator:                                     *)
Fields ==
  /\ request \in [Seqs -> Requests]
  /\ status \in [Seqs -> {"NEW", "WAITING", "RUNNING", "FINISHED"}]
  /\ is_prefill \in [Seqs -> BOOLEAN]
  /\ num_scheduled_tokens \in [Seqs -> 0 .. MaxBatchedTokens]
  /\ scheduled_seqs \in Seq(Seqs)
  /\ num_batched_tokens \in 0 .. MaxBatchedTokens
  /\ batch_is_prefill \in BOOLEAN
  /\ processed \in 0 .. Len(scheduled_seqs)

(* Where a sequence stands in its computation: a waiting one has no table  *)
(* or tokens to prefill; a running one has exactly its last token to       *)
(* compute, unless it was given the rest of its prompt in this step.       *)
TableFits(s) ==
  LET c == num_cached_tokens[s]
      n == num_scheduled_tokens[s]
      l == Len(token_ids[s])
  IN  /\ status[s] = "NEW" => token_ids[s] = <<>> /\ is_prefill[s]
      /\ status[s] # "NEW" => token_ids[s] # <<>>
      /\ status[s] \in {"NEW", "FINISHED"} => block_table[s] = <<>> /\ n = 0
      /\ status[s] \in {"WAITING", "RUNNING"} =>
           l < Len(request[s].prompt) + request[s].max_tokens
      /\ status[s] = "WAITING" =>
           /\ is_prefill[s]
           /\ block_table[s] # <<>> => Len(block_table[s]) = num_blocks(s) /\ c + n < l
      /\ status[s] = "RUNNING" =>
           /\ block_table[s] # <<>>
           /\ n = 0 => c = l - 1 /\ Len(block_table[s]) = BlocksFor(c)
           /\ n > 0 => c + n = l /\ Len(block_table[s]) = num_blocks(s)

TablesFit == \A s \in Seqs : TableFits(s)

(* This much holds wherever a step is and whatever loop it is in.          *)
Sound == BMInv /\ Fields /\ TablesFit

(* The sequences that the decode loop holds outside of the deques.         *)
Taken  == IF InDecodeLoop THEN Batch ELSE {}
InHand == IF pc = "append" THEN {cur} ELSE {}

(* A sequence is in one place at most, and its status says in which.       *)
Placed ==
  /\ waiting \in Seq(Seqs) /\ IsInjective(waiting)
  /\ running \in Seq(Seqs) /\ IsInjective(running)
  /\ Range(waiting) \cap Range(running) = {}
  /\ Taken \cap Range(running) = {}
  /\ cur = NoSeq <=> pc # "append"
  /\ pc = "append" => cur \in Seqs /\ cur \notin Range(running) \cup Batch
  /\ \A s \in Seqs : s \in Range(waiting) <=> status[s] = "WAITING"
  /\ \A s \in Range(running) \cup Taken \cup InHand : status[s] = "RUNNING"

(* A batch that decodes, being built or being run.                         *)
Decoding == InDecodeLoop \/ (pc \in {"run", "post"} /\ ~ batch_is_prefill)

(* The part of the batch that postprocess() has not reached.               *)
Pending == {scheduled_seqs[i] : i \in processed + 1 .. Len(scheduled_seqs)}

(* Tokens are scheduled for every sequence of the batch, until they are    *)
(* processed.  A prefill batch may hold a sequence twice.                  *)
BatchPlanned ==
  /\ pc = "idle" => scheduled_seqs = <<>>
  /\ pc # "post" => processed = 0
  /\ pc # "post" \/ Decoding => \A s \in Pending : num_scheduled_tokens[s] > 0
  /\ Decoding =>
       /\ IsInjective(scheduled_seqs)
       /\ \A s \in Pending : num_scheduled_tokens[s] = 1 /\ status[s] = "RUNNING"
  /\ ~ Decoding => \A s \in Batch : status[s] # "NEW"
  /\ ~ Decoding /\ pc # "post" => \A s \in Batch : is_prefill[s]

(* A sequence of the batch holds blocks for its tokens; one outside of it  *)
(* may have tokens scheduled still, when it was preempted after it was     *)
(* accepted, but no blocks.                                                *)
ScheduledHold ==
  \A s \in Seqs :
    num_scheduled_tokens[s] > 0 => (s \in Pending <=> block_table[s] # <<>>)

CoreInv == Sound /\ Placed /\ BatchPlanned /\ ScheduledHold

(* What the SLO-aware policy does not keep: a running sequence is in one   *)
(* of the places, and tokens are scheduled for the batch only.             *)
NoneDropped ==
  \A s \in Seqs : status[s] = "RUNNING" => s \in Range(running) \cup Taken \cup InHand
NoneStale == \A s \in Seqs : num_scheduled_tokens[s] > 0 => s \in Pending
Exact ==
  /\ pc \in {"idle", "prefill", "decode", "append", "run", "post", "raised"}
  /\ NoneDropped
  /\ NoneStale

(* The inductive invariant of the other policies.                          *)
EngineInv == CoreInv /\ Exact

(* What a step does to the allocator, a legal caller does.                 *)
AllocatorStep == [BMNext]_bmVars

-----------------------------------------------------------------------------
(* No sequence is called 0.                                                *)
LEMMA NoSeqIsNone == NoSeq \notin Seqs
<1>1. Cardinality(Seqs) \in Nat
  BY SeqsAssumption, FS_CardinalityType
<1>2. 0 \notin 1 .. Cardinality(Seqs)
  BY <1>1
<1> QED BY <1>2, SeqIdsAssumption DEF NoSeq

(* The empty batch and the empty deque.                                    *)
LEMMA EmptyBatch ==
  /\ \A T : <<>> \in Seq(T)
  /\ IsInjective(<<>>) /\ Range(<<>>) = {} /\ Len(<<>>) = 0
BY DEF IsInjective, Range

(* An empty batch leaves nothing to process.                               *)
LEMMA NothingPending ==
  ASSUME scheduled_seqs = <<>>, processed = 0
  PROVE  Batch = {} /\ Pending = {}
BY EmptyBatch DEF Batch, Pending

(* At the start of postprocess() the whole batch is ahead.                 *)
LEMMA AllPending ==
  ASSUME Fields, processed = 0
  PROVE  Pending = Batch /\ Batch \subseteq Seqs
<1>1. DOMAIN scheduled_seqs = 1 .. Len(scheduled_seqs) /\ Len(scheduled_seqs) \in Nat
      /\ \A i \in 1 .. Len(scheduled_seqs) : scheduled_seqs[i] \in Seqs
  BY LenProperties DEF Fields
<1> QED BY <1>1 DEF Pending, Batch, Range

(* The elements of a queue after its first 0.                              *)
LEMMA AllOf ==
  ASSUME NEW q \in Seq(Seqs), NEW k, k = 0
  PROVE  {q[i] : i \in k + 1 .. Len(q)} = Range(q)
<1>1. DOMAIN q = 1 .. Len(q)
  BY LenProperties
<1> QED BY <1>1 DEF Range

(* A step that leaves the allocator alone.                                 *)
LEMMA SameAllocator ==
  ASSUME BMInv, UNCHANGED bmVars
  PROVE  BMInv' /\ AllocatorStep
BY NextInv DEF AllocatorStep

(* What is proved of the allocator holds after a step of its callers.      *)
LEMMA StepsAllocator ==
  ASSUME BMInv, AllocatorStep
  PROVE  BMInv'
BY NextInv DEF AllocatorStep

(* A sequence whose fields a step leaves alone.                            *)
LEMMA TableFitsStill ==
  ASSUME NEW s \in Seqs, TableFits(s),
         token_ids'[s] = token_ids[s], num_cached_tokens'[s] = num_cached_tokens[s],
         block_table'[s] = block_table[s], request' = request,
         status'[s] = status[s], is_prefill'[s] = is_prefill[s],
         num_scheduled_tokens'[s] = num_scheduled_tokens[s]
  PROVE  TableFits(s)'
BY DEF TableFits, num_blocks

(* A step that leaves tables and sequences alone.                          *)
LEMMA SameTables ==
  ASSUME TablesFit, UNCHANGED <<bmVars, seqVars>>
  PROVE  TablesFit'
BY TableFitsStill DEF TablesFit, bmVars, seqVars

(* A step that leaves the allocator and the sequences alone.               *)
LEMMA SameSound ==
  ASSUME Sound, UNCHANGED <<bmVars, seqVars>>, Fields'
  PROVE  Sound' /\ AllocatorStep
BY SameAllocator, SameTables DEF Sound

(* One that leaves the plan of the batch alone, too.                       *)
LEMMA SameHold ==
  ASSUME ScheduledHold, Pending' = Pending,
         UNCHANGED <<block_table, num_scheduled_tokens>>
  PROVE  ScheduledHold' /\ (NoneStale => NoneStale')
BY DEF ScheduledHold, NoneStale

(* The start of the engine.                                                *)
LEMMA EngineInit == CoreInit => EngineInv
<1> SUFFICES ASSUME CoreInit PROVE EngineInv
  OBVIOUS
<1>1. BMInv
  BY InitInv DEF CoreInit
<1>2. Fields
  <2>1. 0 \in 0 .. MaxBatchedTokens /\ 0 \in 0 .. 0
    BY LimitsAssumption
  <2>2. scheduled_seqs \in Seq(Seqs) /\ Len(scheduled_seqs) = 0
    BY DEF CoreInit
  <2> QED BY <2>1, <2>2 DEF CoreInit, Fields
<1>3. Placed /\ NoneDropped
  BY EmptyBatch DEF CoreInit, Placed, NoneDropped, Taken, InHand, InDecodeLoop
<1>4. Batch = {} /\ Pending = {}
  BY NothingPending DEF CoreInit
<1>5. BatchPlanned
  BY <1>4 DEF CoreInit, BatchPlanned, Decoding, InDecodeLoop
<1>6. TablesFit
  BY DEF CoreInit, BMInit, TablesFit, TableFits
<1>7. ScheduledHold /\ NoneStale
  BY DEF CoreInit, ScheduledHold, NoneStale
<1> QED BY <1>1, <1>2, <1>3, <1>5, <1>6, <1>7 DEF EngineInv, CoreInv, Sound, Exact, CoreInit

-----------------------------------------------------------------------------
(* Arrivals and the ends of the loops.                                     *)
LEMMA AddRequestKeeps ==
  ASSUME CoreInv, NEW s \in Seqs, AddRequest(s)
  PROVE  CoreInv' /\ AllocatorStep /\ (Exact => Exact')
<1> USE DEF CoreInv, Sound
<1>1. /\ pc = "idle" /\ status[s] = "NEW" /\ token_ids[s] = <<>>
      /\ token_ids' = [token_ids EXCEPT ![s] = request[s].prompt]
      /\ status' = [status EXCEPT ![s] = "WAITING"]
      /\ waiting' = Append(waiting, s)
      /\ UNCHANGED <<num_cached_tokens, block_table, ref_count, hash,
                     hash_to_block_id, free_block_ids, used_block_ids, request,
                     is_prefill, num_scheduled_tokens, running, stepVars, kv>>
  BY DEF AddRequest, TablesFit, TableFits
<1>2. /\ request[s].prompt \in Prompts /\ request[s].prompt \in Seq(Token)
      /\ request[s].prompt # <<>> /\ request[s].max_tokens \in Nat \ {0}
  BY FeasibleAssumption, PromptsAssumption DEF Fields
<1>3. AllocatorStep
  <2>1. BMCreate(s, request[s].prompt)
    BY <1>1 DEF BMCreate
  <2> QED BY <1>2, <2>1 DEF AllocatorStep, BMNext
<1>4. BMInv'
  BY <1>3, StepsAllocator
<1>5. Fields'
  BY <1>1 DEF Fields, stepVars
<1>6. s \notin Range(waiting) /\ s \notin Range(running)
  BY <1>1 DEF Placed
<1>7. Placed' /\ (NoneDropped => NoneDropped')
  <2>1. /\ waiting' \in Seq(Seqs) /\ IsInjective(waiting')
        /\ Range(waiting') = Range(waiting) \cup {s}
    BY <1>1, <1>6, Appended DEF Placed
  <2>2. Taken' = Taken /\ InHand' = InHand /\ Batch' = Batch
    BY <1>1 DEF Taken, InHand, Batch, InDecodeLoop, stepVars
  <2>3. \A r \in Seqs : status'[r] = IF r = s THEN "WAITING" ELSE status[r]
    BY <1>1 DEF Fields
  <2>4. UNCHANGED <<running, pc, cur>>
    BY <1>1 DEF stepVars
  <2> QED BY <1>1, <1>6, <2>1, <2>2, <2>3, <2>4 DEF Placed, NoneDropped
<1>8. BatchPlanned' /\ ScheduledHold' /\ (NoneStale => NoneStale')
  <2>1. scheduled_seqs = <<>> /\ processed = 0 /\ Batch = {} /\ Pending = {}
    BY <1>1, NothingPending DEF BatchPlanned
  <2>2. UNCHANGED <<pc, scheduled_seqs, processed, Batch, Pending, num_scheduled_tokens>>
    BY <1>1 DEF stepVars, Batch, Pending
  <2>4. ScheduledHold' /\ (NoneStale => NoneStale')
    BY <1>1, <2>2, SameHold
  <2>3. ~ Decoding'
    BY <1>1, <2>2 DEF Decoding, InDecodeLoop
  <2> QED BY <2>1, <2>2, <2>3, <2>4 DEF BatchPlanned
<1>9. TablesFit'
  <2> SUFFICES ASSUME NEW r \in Seqs PROVE TableFits(r)'
    BY DEF TablesFit
  <2>1. CASE r # s
    BY <1>1, <2>1, TableFitsStill DEF TablesFit, Fields
  <2>2. CASE r = s
    <3>1. block_table[s] = <<>> /\ num_scheduled_tokens[s] = 0 /\ is_prefill[s]
      BY <1>1 DEF TablesFit, TableFits
    <3>2. num_cached_tokens[s] = 0
      BY <1>1, EmptyBatch DEF BMInv, BMTypeOK, TablesLabelled
    <3>3. token_ids'[s] = request[s].prompt /\ status'[s] = "WAITING"
      BY <1>1 DEF BMInv, BMTypeOK, Fields
    <3>4. Len(request[s].prompt) \in Nat /\ Len(request[s].prompt) > 0
      BY <1>2
    <3> QED BY <1>1, <1>2, <2>2, <3>1, <3>2, <3>3, <3>4 DEF TableFits
  <2> QED BY <2>1, <2>2
<1>10. pc' = pc
  BY <1>1 DEF stepVars
<1> QED BY <1>3, <1>4, <1>5, <1>7, <1>8, <1>9, <1>10 DEF Exact

(* Steps that move on: only pc and the flag of the batch change.           *)
LEMMA MovesOnKeeps ==
  ASSUME EngineInv, ~ InDecodeLoop, ~ InDecodeLoop',
         pc \in {"idle", "prefill"}, scheduled_seqs = <<>> \/ pc = "prefill",
         pc' \in {"prefill", "raised"} \/ (pc' = "run" /\ batch_is_prefill'),
         batch_is_prefill' \in BOOLEAN,
         UNCHANGED <<bmVars, queueVars, seqVars, kv, scheduled_seqs,
                     num_batched_tokens, cur, processed>>
  PROVE  EngineInv' /\ AllocatorStep
<1> USE DEF EngineInv, CoreInv, Sound
<1>1. BMInv' /\ AllocatorStep
  BY SameAllocator DEF Sound
<1>2. Fields'
  BY DEF Fields, seqVars
<1>3. Placed' /\ NoneDropped'
  BY DEF Exact, NoneDropped, Placed, Taken, InHand, queueVars, seqVars
<1>4. BatchPlanned' /\ ScheduledHold' /\ NoneStale'
  <2>1. /\ Batch' = Batch /\ Pending' = Pending
        /\ UNCHANGED <<status, is_prefill, num_scheduled_tokens, scheduled_seqs, processed>>
    BY DEF Batch, Pending, seqVars
  <2>2. ~ Decoding /\ ~ Decoding'
    BY DEF Decoding
  <2>3. scheduled_seqs = <<>> => Batch = {}
    BY EmptyBatch DEF Batch
  <2>4. ScheduledHold' /\ NoneStale'
    BY <2>1, SameHold DEF bmVars, Exact
  <2> QED BY <2>1, <2>2, <2>3, <2>4 DEF BatchPlanned
<1>5. TablesFit'
  BY SameTables
<1> QED BY <1>1, <1>2, <1>3, <1>4, <1>5 DEF Exact

(* Steps into the decode loop find no batch.                               *)
LEMMA IntoDecodeKeeps ==
  ASSUME EngineInv, pc \in {"idle", "prefill"}, scheduled_seqs = <<>>, pc' = "decode",
         batch_is_prefill' \in BOOLEAN,
         UNCHANGED <<bmVars, queueVars, seqVars, kv, scheduled_seqs,
                     num_batched_tokens, cur, processed>>
  PROVE  EngineInv' /\ AllocatorStep
<1> USE DEF EngineInv, CoreInv, Sound
<1>1. BMInv' /\ AllocatorStep
  BY SameAllocator DEF Sound
<1>2. Fields'
  BY DEF Fields, seqVars
<1>3. /\ Batch = {} /\ Pending = {} /\ Batch' = {} /\ Pending' = {} /\ processed = 0
  BY NothingPending DEF Batch, Pending, BatchPlanned
<1>4. Placed' /\ NoneDropped'
  BY <1>3 DEF Exact, NoneDropped, Placed, Taken, InHand, InDecodeLoop, queueVars, seqVars
<1>5. BatchPlanned'
  BY <1>3, EmptyBatch DEF BatchPlanned, Decoding, InDecodeLoop, seqVars
<1>7. ScheduledHold' /\ NoneStale'
  BY <1>3, SameHold DEF bmVars, seqVars, Exact
<1>6. TablesFit'
  BY SameTables
<1> QED BY <1>1, <1>2, <1>4, <1>5, <1>6, <1>7 DEF Exact

(* The start of a step; the batch is still empty.                          *)
LEMMA StartStepKeeps ==
  ASSUME EngineInv, NEW phase \in {"prefill", "decode"}, StartStep(phase)
  PROVE  EngineInv' /\ AllocatorStep
<1>1. /\ pc = "idle" /\ scheduled_seqs = <<>> /\ pc' = phase
      /\ batch_is_prefill' \in BOOLEAN
      /\ UNCHANGED <<bmVars, queueVars, seqVars, kv, scheduled_seqs,
                    num_batched_tokens, cur, processed>>
  BY DEF StartStep, EngineInv, CoreInv, Sound, BatchPlanned, Fields
<1>2. CASE phase = "prefill"
  BY <1>1, <1>2, MovesOnKeeps DEF InDecodeLoop
<1>3. CASE phase = "decode"
  BY <1>1, <1>3, IntoDecodeKeeps
<1> QED BY <1>2, <1>3

(* The prefill loop ends with a batch to run or goes on elsewhere.         *)
LEMMA EndPrefillKeeps ==
  ASSUME EngineInv, NEW otherwise \in {"decode", "raised"}, EndPrefill(otherwise)
  PROVE  EngineInv' /\ AllocatorStep
<1>1. /\ pc = "prefill" /\ batch_is_prefill' = TRUE
      /\ pc' = IF scheduled_seqs # <<>> THEN "run" ELSE otherwise
      /\ UNCHANGED <<bmVars, queueVars, seqVars, kv, scheduled_seqs,
                    num_batched_tokens, cur, processed>>
  BY DEF EndPrefill
<1>2. CASE scheduled_seqs # <<>> \/ otherwise = "raised"
  BY <1>1, <1>2, MovesOnKeeps DEF InDecodeLoop
<1>3. CASE scheduled_seqs = <<>> /\ otherwise = "decode"
  BY <1>1, <1>3, IntoDecodeKeeps
<1> QED BY <1>2, <1>3

(* The elements of a queue of sequences.                                   *)
LEMMA RangeInSeqs == \A q \in Seq(Seqs) : Range(q) \subseteq Seqs
BY LenProperties DEF Range

(* The loop of decoding ends: its batch goes back to running.              *)
LEMMA EndDecodeKeeps ==
  ASSUME EngineInv, NEW otherwise \in {"prefill", "raised"}, EndDecode(otherwise)
  PROVE  EngineInv' /\ AllocatorStep
<1> USE DEF EngineInv, CoreInv, Sound
<1>1. /\ pc = "decode" /\ InDecodeLoop /\ Decoding
      /\ running' = scheduled_seqs \o running
      /\ pc' = IF scheduled_seqs # <<>> THEN "run" ELSE otherwise
      /\ batch_is_prefill' = FALSE
      /\ UNCHANGED <<bmVars, seqVars, waiting, kv, scheduled_seqs,
                    num_batched_tokens, cur, processed>>
  BY DEF EndDecode, Requeued, InDecodeLoop, Decoding
<1>2. BMInv' /\ AllocatorStep
  BY <1>1, SameAllocator DEF Sound
<1>3. Fields'
  BY <1>1 DEF Fields, seqVars
<1>4. /\ running' \in Seq(Seqs) /\ IsInjective(running')
      /\ Range(running') = Batch \cup Range(running)
  <2>1. /\ scheduled_seqs \in Seq(Seqs) /\ running \in Seq(Seqs)
        /\ IsInjective(scheduled_seqs) /\ IsInjective(running)
        /\ Range(scheduled_seqs) \cap Range(running) = {}
    BY <1>1 DEF Fields, Placed, BatchPlanned, Taken, Batch
  <2> QED BY <1>1, <2>1, JoinInjective DEF Batch
<1>5. Taken = Batch /\ InHand = {} /\ Taken' = {} /\ InHand' = {}
  BY <1>1 DEF Taken, InHand, InDecodeLoop
<1>6. Placed' /\ NoneDropped'
  <2>1. \A s \in Batch : status[s] = "RUNNING"
    <3>1. processed = 0
      BY <1>1 DEF BatchPlanned, InDecodeLoop
    <3> QED BY <1>1, <3>1, AllPending DEF BatchPlanned
  <2>2. Range(waiting') \cap Range(running') = {}
    BY <1>1, <1>4, <2>1, AllPending DEF Placed, BatchPlanned
  <2>3. UNCHANGED <<waiting, cur, status>> /\ pc' # "append" /\ cur = NoSeq
    BY <1>1 DEF seqVars, Placed
  <2>4. \A s \in Seqs : s \in Range(running') <=> status[s] = "RUNNING"
    BY <1>4, <1>5, <2>1 DEF Placed, Exact, NoneDropped
  <2> QED BY <1>4, <1>5, <2>2, <2>3, <2>4, RangeInSeqs DEF Placed, NoneDropped
<1>7. BatchPlanned'
  <2>1. /\ Batch' = Batch /\ Pending' = Pending
        /\ UNCHANGED <<status, is_prefill, num_scheduled_tokens, scheduled_seqs, processed>>
    BY <1>1 DEF Batch, Pending, seqVars
  <2>2. CASE scheduled_seqs # <<>>
    <3>1. Decoding' /\ pc' = "run"
      BY <1>1, <2>2 DEF Decoding
    <3> QED BY <1>1, <2>1, <3>1 DEF BatchPlanned
  <2>3. CASE scheduled_seqs = <<>>
    <3>1. processed = 0
      BY <1>1 DEF BatchPlanned
    <3>2. Batch = {} /\ Pending = {}
      BY <2>3, <3>1, NothingPending
    <3>3. ~ Decoding'
      BY <1>1, <2>3 DEF Decoding, InDecodeLoop
    <3> QED BY <1>1, <2>1, <2>3, <3>1, <3>2, <3>3 DEF BatchPlanned
  <2> QED BY <2>2, <2>3
<1>9. ScheduledHold' /\ NoneStale'
  <2>1. Pending' = Pending
    BY <1>1 DEF Pending
  <2> QED BY <1>1, <2>1, SameHold DEF bmVars, seqVars, Exact
<1>8. TablesFit'
  BY <1>1, SameTables
<1>10. pc' \in {"run", "prefill", "raised"}
  BY <1>1
<1> QED BY <1>2, <1>3, <1>6, <1>7, <1>8, <1>9, <1>10 DEF Exact
-----------------------------------------------------------------------------

(* Visits of the prefill loop.  Something is left to compute for a waiting *)
(* sequence.                                                               *)
LEMMA TokensLeft ==
  ASSUME Sound, NEW s \in Seqs, status[s] = "WAITING"
  PROVE  /\ num_tokens(s) \in Nat \ {0}
         /\ block_table[s] = <<>> =>
              /\ num_cached_blocks(s) * BlockSize \in Nat
              /\ num_tokens(s) = Len(token_ids[s]) - num_cached_blocks(s) * BlockSize
         /\ block_table[s] # <<>> =>
              num_tokens(s) = Len(token_ids[s]) - num_cached_tokens[s]
<1> USE DEF Sound
<1>1. /\ token_ids[s] \in Seq(Token) /\ token_ids[s] # <<>>
      /\ num_cached_tokens[s] \in Nat /\ num_scheduled_tokens[s] \in Nat
      /\ block_table[s] # <<>> =>
           num_cached_tokens[s] + num_scheduled_tokens[s] < Len(token_ids[s])
  BY LimitsAssumption DEF TablesFit, TableFits, BMInv, BMTypeOK, Fields
<1>2. Len(token_ids[s]) \in Nat /\ Len(token_ids[s]) > 0
  BY <1>1, EmptySeq
<1>3. CASE block_table[s] # <<>>
  BY <1>1, <1>2, <1>3 DEF num_tokens
<1>4. CASE block_table[s] = <<>>
  <2> DEFINE k == num_cached_blocks(s)
             m == num_blocks(s)
             l == Len(token_ids[s])
  <2>1. m \in Nat /\ m > 0 /\ (m - 1) * BlockSize < l
    BY <1>2, BlocksForBounds DEF num_blocks
  <2>2. k \in 0 .. m - 1
    BY <1>1, CachedBlocksHit DEF BMInv
  <2>3. num_tokens(s) = l - k * BlockSize
    BY <1>4 DEF num_tokens
  <2> HIDE DEF k, m, l
  <2>4. m - 1 \in Nat /\ k \in Nat /\ k <= m - 1
    BY <2>1, <2>2
  <2>5. k * BlockSize \in Nat /\ (m - 1) * BlockSize \in Nat
        /\ k * BlockSize <= (m - 1) * BlockSize
    BY <2>4, TimesBlockSize
  <2>6. l - k * BlockSize \in Nat \ {0}
    BY <1>2, <2>1, <2>5 DEF l
  <2> QED BY <1>4, <2>3, <2>5, <2>6 DEF k, l
<1> QED BY <1>3, <1>4

(* A visit leaves the sequence with a full table, and the tokens that are  *)
(* left are those its cached prefix does not cover.                        *)
LEMMA VisitAllocates ==
  ASSUME Sound, NEW s \in Seqs, status[s] = "WAITING", HasBlocks(s),
         AllocateOnFirstVisit(s), UNCHANGED token_ids
  PROVE  /\ AllocatorStep
         /\ num_cached_tokens'[s] \in Nat
         /\ num_cached_tokens'[s] + num_tokens(s) = Len(token_ids[s])
         /\ block_table'[s] # <<>> /\ Len(block_table'[s]) = num_blocks(s)
         /\ block_table[s] # <<>> => num_cached_tokens'[s] = num_cached_tokens[s]
         /\ \A r \in Seqs : r # s => /\ num_cached_tokens'[r] = num_cached_tokens[r]
                                     /\ block_table'[r] = block_table[r]
<1> USE DEF Sound
<1>1. /\ token_ids[s] \in Seq(Token) /\ token_ids[s] # <<>>
      /\ block_table \in [Seqs -> Seq(Blocks)] /\ num_cached_tokens \in [Seqs -> Nat]
      /\ Len(token_ids[s]) \in Nat
  BY DEF TablesFit, TableFits, BMInv, BMTypeOK
<1>2. CASE block_table[s] # <<>>
  <2>1. UNCHANGED bmVars
    BY <1>2 DEF AllocateOnFirstVisit, bmVars
  <2>2. Len(block_table[s]) = num_blocks(s)
    BY <1>2 DEF TablesFit, TableFits
  <2> QED BY <1>1, <1>2, <2>1, <2>2, TokensLeft, SameAllocator DEF bmVars
<1>3. CASE block_table[s] = <<>>
  <2>1. can_allocate(s) /\ allocate(s)
    BY <1>3 DEF HasBlocks, AllocateOnFirstVisit
  <2>2. BMAllocate(s)
    BY <1>1, <1>3, <2>1 DEF BMAllocate
  <2>3. AllocatorStep
    BY <2>2 DEF AllocatorStep, BMNext
  <2> DEFINE table == CachedIds(s) \o FreshIds(s)
  <2>4. /\ block_table' = [block_table EXCEPT ![s] = table]
        /\ num_cached_tokens' =
             [num_cached_tokens EXCEPT ![s] = num_cached_blocks(s) * BlockSize]
    BY <2>1 DEF allocate
  <2>5. table \in Seq(Blocks) /\ Len(table) = num_blocks(s)
    BY <1>1, <2>1, AllocatedTable, BMParts
  <2>6. num_blocks(s) \in Nat \ {0}
    BY <1>1, CachedBlocksHit DEF BMInv
  <2> HIDE DEF table
  <2>7. block_table'[s] = table /\ table # <<>>
    BY <1>1, <2>4, <2>5, <2>6, EmptyBatch
  <2>8. /\ num_cached_tokens'[s] = num_cached_blocks(s) * BlockSize
        /\ num_cached_tokens'[s] \in Nat
        /\ num_cached_tokens'[s] + num_tokens(s) = Len(token_ids[s])
    BY <1>1, <1>3, <2>4, TokensLeft
  <2> QED BY <1>1, <1>3, <2>3, <2>4, <2>5, <2>7, <2>8
<1> QED BY <1>2, <1>3

(* A visit gives the sequence n of the tokens that are left; with the last *)
(* of them it is running.                                                  *)
LEMMA VisitSound ==
  ASSUME Sound, NEW s \in Seqs, status[s] = "WAITING", HasBlocks(s),
         NEW n \in Nat, 0 < n, n <= num_tokens(s), n <= remaining,
         AllocateOnFirstVisit(s),
         num_scheduled_tokens' = [num_scheduled_tokens EXCEPT ![s] = n],
         num_batched_tokens' = num_batched_tokens + n,
         status' = IF n = num_tokens(s) THEN [status EXCEPT ![s] = "RUNNING"] ELSE status,
         scheduled_seqs' \in Seq(Seqs), processed' \in 0 .. Len(scheduled_seqs'),
         UNCHANGED <<token_ids, request, is_prefill, batch_is_prefill>>
  PROVE  /\ Sound' /\ AllocatorStep
         /\ block_table'[s] # <<>>
         /\ \A r \in Seqs : r # s => block_table'[r] = block_table[r]
<1> USE DEF Sound
<1> DEFINE all == n = num_tokens(s)
<1>1. /\ AllocatorStep
      /\ num_cached_tokens'[s] \in Nat
      /\ num_cached_tokens'[s] + num_tokens(s) = Len(token_ids[s])
      /\ block_table'[s] # <<>> /\ Len(block_table'[s]) = num_blocks(s)
      /\ \A r \in Seqs : r # s => /\ num_cached_tokens'[r] = num_cached_tokens[r]
                                  /\ block_table'[r] = block_table[r]
  BY VisitAllocates
<1>2. BMInv'
  BY <1>1, StepsAllocator
<1>3. /\ \A r \in Seqs : status'[r] = IF all /\ r = s THEN "RUNNING" ELSE status[r]
      /\ \A r \in Seqs : num_scheduled_tokens'[r] = IF r = s THEN n ELSE num_scheduled_tokens[r]
      /\ status' \in [Seqs -> {"NEW", "WAITING", "RUNNING", "FINISHED"}]
  BY DEF Fields
<1>4. n <= MaxBatchedTokens /\ num_batched_tokens + n \in 0 .. MaxBatchedTokens
  BY LimitsAssumption DEF Fields, remaining
<1>5. Fields'
  <2>1. num_scheduled_tokens' \in [Seqs -> 0 .. MaxBatchedTokens]
    BY <1>4 DEF Fields
  <2> QED BY <1>3, <1>4, <2>1 DEF Fields
<1>6. TablesFit'
  <2> SUFFICES ASSUME NEW r \in Seqs PROVE TableFits(r)'
    BY DEF TablesFit
  <2>1. CASE r # s
    BY <1>1, <1>3, <2>1, TableFitsStill DEF TablesFit
  <2>2. CASE r = s
    <3>1. /\ token_ids'[s] = token_ids[s] /\ is_prefill'[s] = is_prefill[s]
          /\ request' = request /\ num_scheduled_tokens'[s] = n
          /\ status'[s] = IF all THEN "RUNNING" ELSE "WAITING"
          /\ num_blocks(s)' = num_blocks(s)
      BY <1>3 DEF num_blocks
    <3>2. /\ token_ids[s] # <<>> /\ is_prefill[s]
          /\ Len(token_ids[s]) < Len(request[s].prompt) + request[s].max_tokens
      BY DEF TablesFit, TableFits
    <3>3. /\ all => num_cached_tokens'[s] + n = Len(token_ids[s])
          /\ ~ all => num_cached_tokens'[s] + n < Len(token_ids[s])
      <4>1. num_tokens(s) \in Nat
        BY TokensLeft
      <4> QED BY <1>1, <4>1
    <3> HIDE DEF all
    <3>4. TableFits(s)'
      BY <1>1, <3>1, <3>2, <3>3 DEF TableFits
    <3> QED BY <2>2, <3>4
  <2> QED BY <2>1, <2>2
<1> QED BY <1>1, <1>2, <1>5, <1>6

(* The sequence visited joins the batch; it leaves waiting for running     *)
(* when its prompt is covered, and keeps some place in waiting when not.   *)
LEMMA VisitKeeps ==
  ASSUME EngineInv, pc = "prefill",
         NEW s \in Seqs, status[s] = "WAITING", HasBlocks(s),
         NEW n \in Nat, 0 < n, n <= num_tokens(s), n <= remaining,
         AllocateOnFirstVisit(s),
         num_scheduled_tokens' = [num_scheduled_tokens EXCEPT ![s] = n],
         num_batched_tokens' = num_batched_tokens + n,
         status' = IF n = num_tokens(s) THEN [status EXCEPT ![s] = "RUNNING"] ELSE status,
         waiting' \in Seq(Seqs), IsInjective(waiting'),
         Range(waiting') = IF n = num_tokens(s) THEN Range(waiting) \ {s} ELSE Range(waiting),
         running' = IF n = num_tokens(s) THEN Append(running, s) ELSE running,
         scheduled_seqs' = Append(scheduled_seqs, s),
         UNCHANGED <<token_ids, request, is_prefill, pc, batch_is_prefill, cur, processed>>
  PROVE  EngineInv' /\ AllocatorStep
<1> USE DEF EngineInv, CoreInv
<1> DEFINE all == n = num_tokens(s)
<1>1. s \notin Range(running)
  BY DEF Placed
<1>2. /\ scheduled_seqs' \in Seq(Seqs) /\ Len(scheduled_seqs') = Len(scheduled_seqs) + 1
      /\ Range(scheduled_seqs') = Range(scheduled_seqs) \cup {s}
  BY Appended DEF Sound, Fields
<1>3. processed = 0 /\ ~ Decoding /\ ~ Decoding' /\ ~ InDecodeLoop /\ ~ InDecodeLoop'
  BY DEF BatchPlanned, Decoding, InDecodeLoop
<1>4. processed' \in 0 .. Len(scheduled_seqs')
  BY <1>2, <1>3, LenProperties DEF Sound, Fields
<1>5. /\ Sound' /\ AllocatorStep
      /\ block_table'[s] # <<>>
      /\ \A r \in Seqs : r # s => block_table'[r] = block_table[r]
  BY <1>2, <1>4, VisitSound
<1>6. /\ \A r \in Seqs : status'[r] = IF all /\ r = s THEN "RUNNING" ELSE status[r]
      /\ \A r \in Seqs : num_scheduled_tokens'[r] = IF r = s THEN n ELSE num_scheduled_tokens[r]
  BY DEF Sound, Fields
<1>7. Pending = Batch /\ Batch \subseteq Seqs /\ Pending' = Batch' /\ Batch' = Batch \cup {s}
  <2>1. Pending = Batch /\ Batch \subseteq Seqs
    BY <1>3, AllPending DEF Sound
  <2>2. Pending' = Batch'
    <3>1. processed' = 0
      BY <1>3
    <3>2. {scheduled_seqs'[i] : i \in processed' + 1 .. Len(scheduled_seqs')} = Range(scheduled_seqs')
      BY <1>2, <3>1, AllOf
    <3> QED BY <3>2 DEF Pending, Batch
  <2> QED BY <1>2, <2>1, <2>2 DEF Batch
<1>8. Placed' /\ NoneDropped'
  <2>1. /\ running' \in Seq(Seqs) /\ IsInjective(running')
        /\ Range(running') = IF all THEN Range(running) \cup {s} ELSE Range(running)
    <3>1. /\ Append(running, s) \in Seq(Seqs) /\ IsInjective(Append(running, s))
          /\ Range(Append(running, s)) = Range(running) \cup {s}
      BY <1>1, Appended DEF Placed
    <3>2. running' = IF all THEN Append(running, s) ELSE running
      OBVIOUS
    <3> HIDE DEF all
    <3> QED BY <3>1, <3>2 DEF Placed
  <2>2. Taken = {} /\ InHand = {} /\ Taken' = {} /\ InHand' = {}
    BY <1>3 DEF Taken, InHand
  <2>3. cur' = cur /\ pc' = pc
    OBVIOUS
  <2> HIDE DEF all
  <2> QED BY <1>1, <1>6, <2>1, <2>2, <2>3, RangeInSeqs DEF all, Placed, Exact, NoneDropped
<1>9. BatchPlanned'
  <2>1. \A r \in Batch' : status'[r] # "NEW" /\ is_prefill'[r] /\ num_scheduled_tokens'[r] > 0
    <3>1. is_prefill[s]
      BY DEF Sound, TablesFit, TableFits
    <3> QED BY <1>3, <1>6, <1>7, <3>1 DEF BatchPlanned
  <2> QED BY <1>3, <1>7, <2>1 DEF BatchPlanned
<1>10. ScheduledHold' /\ NoneStale'
  BY <1>5, <1>6, <1>7 DEF ScheduledHold, Exact, NoneStale
<1> QED BY <1>5, <1>8, <1>9, <1>10 DEF Exact

(* What is left of the budget of a batch.                                  *)
LEMMA BudgetLeft ==
  ASSUME Sound
  PROVE  remaining \in Nat
BY LimitsAssumption DEF Sound, Fields, remaining

(* The head of the waiting deque is a waiting sequence.                    *)
LEMMA HeadWaits ==
  ASSUME Placed, waiting # <<>>
  PROVE  Head(waiting) \in Seqs /\ status[Head(waiting)] = "WAITING"
<1>1. Head(waiting) \in Seqs /\ Head(waiting) \in Range(waiting)
  BY Popped DEF Placed
<1> QED BY <1>1 DEF Placed

(* A waiting sequence is marked for prefill already.                       *)
LEMMA MarkedAlready ==
  ASSUME Sound, NEW s \in Seqs, status[s] = "WAITING"
  PROVE  [is_prefill EXCEPT ![s] = TRUE] = is_prefill
<1>1. is_prefill[s] = TRUE /\ is_prefill \in [Seqs -> BOOLEAN]
  BY DEF Sound, Fields, TablesFit, TableFits
<1> QED BY <1>1

(* The head of waiting leaves it, or goes to its back.                     *)
LEMMA HeadMoves ==
  ASSUME Placed, waiting # <<>>, NEW s, s = Head(waiting)
  PROVE  /\ Tail(waiting) \in Seq(Seqs) /\ IsInjective(Tail(waiting))
         /\ Range(Tail(waiting)) = Range(waiting) \ {s}
         /\ Append(Tail(waiting), s) \in Seq(Seqs)
         /\ IsInjective(Append(Tail(waiting), s))
         /\ Range(Append(Tail(waiting), s)) = Range(waiting)
<1> DEFINE q == Tail(waiting)
<1>1. /\ q \in Seq(Seqs) /\ IsInjective(q) /\ s \in Seqs
      /\ Range(waiting) = {s} \cup Range(q) /\ s \notin Range(q)
  BY Popped DEF Placed
<1> HIDE DEF q
<1>2. /\ Append(q, s) \in Seq(Seqs) /\ IsInjective(Append(q, s))
      /\ Range(Append(q, s)) = Range(q) \cup {s}
  BY <1>1, Appended
<1> QED BY <1>1, <1>2 DEF q

(* A visit of the FCFS prefill loop.                                       *)
LEMMA PrefillHeadKeeps ==
  ASSUME EngineInv, PrefillHead
  PROVE  EngineInv' /\ AllocatorStep
<1> USE DEF EngineInv, CoreInv
<1>1. pc = "prefill" /\ waiting # <<>> /\ remaining # 0
  BY DEF PrefillHead, CanPrefillHead
<1>2. PICK s \in Seqs : s = Head(waiting) /\ status[s] = "WAITING"
  BY <1>1, HeadWaits
<1>3. PICK n \in Nat : n = Smaller(num_tokens(s), remaining) /\ 0 < n
                       /\ n <= num_tokens(s) /\ n <= remaining
  BY <1>1, <1>2, TokensLeft, BudgetLeft DEF Smaller
<1>4. /\ HasBlocks(s)
      /\ AllocateOnFirstVisit(s)
      /\ num_scheduled_tokens' = [num_scheduled_tokens EXCEPT ![s] = n]
      /\ num_batched_tokens' = num_batched_tokens + n
      /\ status' = IF n = num_tokens(s) THEN [status EXCEPT ![s] = "RUNNING"] ELSE status
      /\ waiting' = IF n = num_tokens(s) THEN Tail(waiting) ELSE waiting
      /\ running' = IF n = num_tokens(s) THEN Append(running, s) ELSE running
      /\ scheduled_seqs' = Append(scheduled_seqs, s)
      /\ UNCHANGED <<token_ids, request, is_prefill, pc, batch_is_prefill, cur, processed>>
  BY <1>2, <1>3 DEF PrefillHead, CanPrefillHead, queueVars
<1>5. /\ waiting' \in Seq(Seqs) /\ IsInjective(waiting')
      /\ Range(waiting') = IF n = num_tokens(s) THEN Range(waiting) \ {s} ELSE Range(waiting)
  BY <1>1, <1>2, <1>4, HeadMoves DEF Placed
<1> QED BY <1>1, <1>2, <1>3, <1>4, <1>5, VisitKeeps
-----------------------------------------------------------------------------

(* The decode loop.  Its batch is free of duplicates and disjoint from the *)
(* two deques, and nothing is scheduled outside of it.                     *)
LEMMA DecodeLoop ==
  ASSUME EngineInv, InDecodeLoop
  PROVE  /\ processed = 0 /\ Pending = Batch /\ Batch \subseteq Seqs
         /\ Taken = Batch /\ Decoding
         /\ \A s \in Seqs : num_scheduled_tokens[s] =
                              IF s \in Batch THEN 1 ELSE 0
<1> USE DEF EngineInv, CoreInv, Sound, Exact, NoneStale
<1>1. processed = 0 /\ Taken = Batch /\ Decoding
  BY DEF BatchPlanned, InDecodeLoop, Taken, Decoding
<1>2. Pending = Batch /\ Batch \subseteq Seqs
  BY <1>1, AllPending
<1>3. ASSUME NEW s \in Seqs
      PROVE  num_scheduled_tokens[s] = IF s \in Batch THEN 1 ELSE 0
  <2>1. num_scheduled_tokens[s] \in Nat
    BY LimitsAssumption DEF Fields
  <2>2. s \in Batch => num_scheduled_tokens[s] = 1
    BY <1>1, <1>2 DEF BatchPlanned
  <2>3. s \notin Batch => ~ (num_scheduled_tokens[s] > 0)
    BY <1>2
  <2> QED BY <2>1, <2>2, <2>3
<1> QED BY <1>1, <1>2, <1>3

(* The decode loop takes the oldest running sequence in hand.              *)
LEMMA PopRunningKeeps ==
  ASSUME EngineInv, PopRunning
  PROVE  EngineInv' /\ AllocatorStep
<1> USE DEF EngineInv, CoreInv, Sound
<1>1. /\ pc = "decode" /\ running # <<>> /\ cur' = Head(running)
      /\ running' = Tail(running) /\ pc' = "append"
      /\ UNCHANGED <<bmVars, seqVars, waiting, scheduled_seqs, num_batched_tokens,
                     batch_is_prefill, processed>>
  BY DEF PopRunning, CanDecode
<1>2. InDecodeLoop /\ InDecodeLoop'
  BY <1>1 DEF InDecodeLoop
<1>3. BMInv' /\ AllocatorStep
  BY <1>1, SameAllocator
<1>4. Fields'
  BY <1>1 DEF Fields, seqVars
<1>5. /\ cur' \in Seqs /\ running' \in Seq(Seqs) /\ IsInjective(running')
      /\ cur' \notin Range(running') /\ Range(running) = Range(running') \cup {cur'}
  BY <1>1, Popped DEF Placed
<1>6. Taken = Batch /\ Taken' = Batch /\ Batch' = Batch /\ InHand = {} /\ InHand' = {cur'}
  BY <1>1, <1>2 DEF Taken, Batch, InHand
<1>7. Placed' /\ NoneDropped'
  <2>1. cur' # NoSeq
    BY <1>5, NoSeqIsNone
  <2>2. UNCHANGED <<waiting, status>> /\ pc' = "append"
    BY <1>1 DEF seqVars
  <2>3. cur' \notin Range(waiting) /\ cur' \notin Batch
    BY <1>5, <1>6 DEF Placed
  <2> QED BY <1>5, <1>6, <2>1, <2>2, <2>3 DEF Placed, Exact, NoneDropped
<1>8. BatchPlanned'
  <2>1. /\ Batch' = Batch /\ Pending' = Pending
        /\ UNCHANGED <<status, is_prefill, num_scheduled_tokens, scheduled_seqs, processed>>
    BY <1>1 DEF Batch, Pending, seqVars
  <2>2. Decoding /\ Decoding'
    BY <1>2 DEF Decoding
  <2> QED BY <1>1, <2>1, <2>2 DEF BatchPlanned
<1>10. ScheduledHold' /\ NoneStale'
  <2>1. Pending' = Pending
    BY <1>1 DEF Pending
  <2> QED BY <1>1, <2>1, SameHold DEF bmVars, seqVars, Exact
<1>9. TablesFit'
  BY <1>1, SameTables
<1> QED BY <1>1, <1>3, <1>4, <1>7, <1>8, <1>9, <1>10 DEF Exact

(* What a preemption does, wherever its victim comes from: tokens that are *)
(* scheduled for it stay so.                                               *)
LEMMA PreemptSound ==
  ASSUME Sound, NEW s \in Seqs, status[s] = "RUNNING",
         waiting \in Seq(Seqs), IsInjective(waiting), s \notin Range(waiting),
         preempt(s), UNCHANGED <<token_ids, hash, hash_to_block_id, request,
                                 num_scheduled_tokens, scheduled_seqs,
                                 num_batched_tokens, batch_is_prefill, processed>>
  PROVE  /\ Sound' /\ AllocatorStep
         /\ \A r \in Seqs : status'[r] = IF r = s THEN "WAITING" ELSE status[r]
         /\ \A r \in Seqs : r # s => /\ is_prefill'[r] = is_prefill[r]
                                     /\ block_table'[r] = block_table[r]
         /\ block_table'[s] = <<>>
         /\ waiting' \in Seq(Seqs) /\ IsInjective(waiting')
         /\ Range(waiting') = Range(waiting) \cup {s}
<1> USE DEF Sound
<1>1. /\ status' = [status EXCEPT ![s] = "WAITING"]
      /\ is_prefill' = [is_prefill EXCEPT ![s] = TRUE]
      /\ deallocate(s) /\ waiting' = <<s>> \o waiting
  BY DEF preempt
<1>2. block_table[s] # <<>>
  BY DEF TablesFit, TableFits
<1>3. AllocatorStep
  <2>1. BMRelease(s)
    BY <1>1, <1>2 DEF BMRelease
  <2> QED BY <2>1 DEF AllocatorStep, BMNext
<1>4. BMInv'
  BY <1>3, StepsAllocator
<1>5. /\ status' \in [Seqs -> {"NEW", "WAITING", "RUNNING", "FINISHED"}]
      /\ is_prefill' \in [Seqs -> BOOLEAN]
      /\ \A r \in Seqs : status'[r] = IF r = s THEN "WAITING" ELSE status[r]
      /\ \A r \in Seqs : is_prefill'[r] = IF r = s THEN TRUE ELSE is_prefill[r]
  BY <1>1 DEF Fields
<1>6. /\ waiting' \in Seq(Seqs) /\ IsInjective(waiting')
      /\ Range(waiting') = Range(waiting) \cup {s}
  BY <1>1, Pushed
<1>7. /\ num_cached_tokens'[s] = 0 /\ block_table'[s] = <<>>
      /\ \A r \in Seqs : r # s => /\ num_cached_tokens'[r] = num_cached_tokens[r]
                                  /\ block_table'[r] = block_table[r]
  BY <1>1, DeallocateEffect, BMParts
<1>8. Fields'
  BY <1>5 DEF Fields
<1>9. TablesFit'
  <2> SUFFICES ASSUME NEW r \in Seqs PROVE TableFits(r)'
    BY DEF TablesFit
  <2>1. CASE r # s
    BY <1>5, <1>7, <2>1, TableFitsStill DEF TablesFit
  <2>2. CASE r = s
    <3>1. /\ token_ids[s] # <<>>
          /\ Len(token_ids[s]) < Len(request[s].prompt) + request[s].max_tokens
      BY DEF TablesFit, TableFits
    <3>2. /\ status'[s] = "WAITING" /\ is_prefill'[s] /\ token_ids'[s] = token_ids[s]
      BY <1>5
    <3>3. TableFits(s)'
      BY <1>7, <3>1, <3>2 DEF TableFits
    <3> QED BY <2>2, <3>3
  <2> QED BY <2>1, <2>2
<1> QED BY <1>3, <1>4, <1>5, <1>6, <1>7, <1>8, <1>9

(* In the decode loop the victim is no member of the batch.                *)
LEMMA PreemptEffect ==
  ASSUME EngineInv, pc = "append", NEW s \in Seqs, s \in Range(running) \cup {cur},
         preempt(s), UNCHANGED <<token_ids, hash, hash_to_block_id, request,
                                 num_scheduled_tokens, scheduled_seqs,
                                 num_batched_tokens, batch_is_prefill, processed>>
  PROVE  /\ Sound' /\ AllocatorStep /\ ScheduledHold' /\ NoneStale'
         /\ \A r \in Seqs : status'[r] = IF r = s THEN "WAITING" ELSE status[r]
         /\ \A r \in Seqs : r # s => is_prefill'[r] = is_prefill[r]
         /\ waiting' \in Seq(Seqs) /\ IsInjective(waiting')
         /\ Range(waiting') = Range(waiting) \cup {s}
         /\ s \notin Range(waiting) /\ s \notin Batch
<1> USE DEF EngineInv, CoreInv
<1>1. InDecodeLoop
  BY DEF InDecodeLoop
<1>2. s \notin Batch /\ status[s] = "RUNNING" /\ s \notin Range(waiting)
  BY <1>1, DecodeLoop DEF Placed, InHand
<1>3. /\ Sound' /\ AllocatorStep
      /\ \A r \in Seqs : status'[r] = IF r = s THEN "WAITING" ELSE status[r]
      /\ \A r \in Seqs : r # s => /\ is_prefill'[r] = is_prefill[r]
                                  /\ block_table'[r] = block_table[r]
      /\ waiting' \in Seq(Seqs) /\ IsInjective(waiting')
      /\ Range(waiting') = Range(waiting) \cup {s}
  BY <1>2, PreemptSound DEF Placed
<1>4. Pending' = Pending /\ s \notin Pending
  BY <1>1, <1>2, DecodeLoop DEF Pending
<1>5. ScheduledHold' /\ NoneStale'
  BY <1>3, <1>4 DEF ScheduledHold, Exact, NoneStale
<1> QED BY <1>2, <1>3, <1>5

(* The newest running sequence makes room for the one in hand.             *)
LEMMA PreemptNewestKeeps ==
  ASSUME EngineInv, PreemptNewest
  PROVE  EngineInv' /\ AllocatorStep
<1> USE DEF EngineInv, CoreInv
<1>1. /\ pc = "append" /\ running # <<>> /\ preempt(running[Len(running)])
      /\ running' = SubSeq(running, 1, Len(running) - 1)
      /\ UNCHANGED <<token_ids, hash, hash_to_block_id, request,
                     num_scheduled_tokens, stepVars>>
  BY DEF PreemptNewest
<1>2. PICK s \in Seqs :
        /\ s = running[Len(running)]
        /\ running' \in Seq(Seqs) /\ IsInjective(running') /\ s \notin Range(running')
        /\ Range(running) = {s} \cup Range(running')
  BY <1>1, Shortened DEF Placed, Last, Front
<1>3. InDecodeLoop /\ InDecodeLoop'
  BY <1>1 DEF InDecodeLoop, stepVars
<1>4. /\ Sound' /\ AllocatorStep /\ ScheduledHold' /\ NoneStale'
      /\ \A r \in Seqs : status'[r] = IF r = s THEN "WAITING" ELSE status[r]
      /\ \A r \in Seqs : r # s => is_prefill'[r] = is_prefill[r]
      /\ waiting' \in Seq(Seqs) /\ IsInjective(waiting')
      /\ Range(waiting') = Range(waiting) \cup {s}
      /\ s \notin Range(waiting) /\ s \notin Batch
  BY <1>1, <1>2, PreemptEffect DEF stepVars
<1>6. Taken = Batch /\ Taken' = Batch /\ Batch' = Batch /\ InHand = {cur} /\ InHand' = {cur}
      /\ pc' = "append" /\ cur' = cur
  BY <1>1, <1>3 DEF Taken, Batch, InHand, stepVars
<1>7. Placed' /\ NoneDropped'
  <2>1. cur \notin Range(running) \cup Batch /\ cur \in Seqs /\ cur # NoSeq
    BY <1>1, <1>2 DEF Placed
  <2>2. /\ Range(waiting) \cap Range(running) = {} /\ Batch \cap Range(running) = {}
        /\ \A r \in Seqs : r \in Range(waiting) <=> status[r] = "WAITING"
        /\ \A r \in Seqs : r \in Range(running) \cup Batch \cup {cur} <=> status[r] = "RUNNING"
    BY <1>6, RangeInSeqs DEF Placed, Exact, NoneDropped
  <2>3. /\ Range(waiting') \cap Range(running') = {} /\ Batch \cap Range(running') = {}
        /\ \A r \in Seqs : r \in Range(waiting') <=> status'[r] = "WAITING"
    BY <1>2, <1>4, <2>2
  <2>4. \A r \in Seqs : r \in Range(running') \cup Batch \cup {cur} <=> status'[r] = "RUNNING"
    <3>1. s \notin Range(running') \cup Batch \cup {cur}
      BY <1>2, <1>4, <2>1
    <3> QED BY <1>2, <1>4, <2>2, <3>1
  <2>5. Range(running') \cup Taken' \cup InHand' \subseteq Seqs
    BY <1>2, <1>3, <1>6, <2>1, RangeInSeqs, DecodeLoop
  <2>6. Placed'
    BY <1>2, <1>4, <1>6, <2>1, <2>3, <2>4, <2>5 DEF Placed
  <2>7. NoneDropped'
    BY <1>6, <2>4 DEF NoneDropped
  <2> QED BY <2>6, <2>7
<1>8. BatchPlanned'
  <2>1. /\ Batch' = Batch /\ Pending' = Pending
        /\ UNCHANGED <<num_scheduled_tokens, scheduled_seqs, processed>>
    BY <1>1 DEF Batch, Pending, stepVars
  <2>2. Decoding /\ Decoding' /\ Pending = Batch /\ Batch \subseteq Seqs
    BY <1>3, DecodeLoop DEF Decoding
  <2>3. \A r \in Pending : status'[r] = status[r]
    BY <1>4, <2>2
  <2> QED BY <1>1, <1>6, <2>1, <2>2, <2>3 DEF BatchPlanned
<1> QED BY <1>4, <1>6, <1>7, <1>8 DEF Exact

(* The one in hand goes back, as no other is left to make room.            *)
LEMMA PreemptSelfKeeps ==
  ASSUME EngineInv, PreemptSelf
  PROVE  EngineInv' /\ AllocatorStep
<1> USE DEF EngineInv, CoreInv
<1>1. /\ pc = "append" /\ running = <<>> /\ preempt(cur)
      /\ cur' = NoSeq /\ pc' = "decode"
      /\ UNCHANGED <<token_ids, hash, hash_to_block_id, request,
                     num_scheduled_tokens, running, scheduled_seqs,
                     num_batched_tokens, batch_is_prefill, processed>>
  BY DEF PreemptSelf
<1>2. PICK s \in Seqs : s = cur
  BY <1>1 DEF Placed
<1>3. InDecodeLoop /\ InDecodeLoop'
  BY <1>1 DEF InDecodeLoop
<1>4. /\ Sound' /\ AllocatorStep /\ ScheduledHold' /\ NoneStale'
      /\ \A r \in Seqs : status'[r] = IF r = s THEN "WAITING" ELSE status[r]
      /\ \A r \in Seqs : r # s => is_prefill'[r] = is_prefill[r]
      /\ waiting' \in Seq(Seqs) /\ IsInjective(waiting')
      /\ Range(waiting') = Range(waiting) \cup {s}
      /\ s \notin Range(waiting) /\ s \notin Batch
  BY <1>1, <1>2, PreemptEffect
<1>6. /\ Taken = Batch /\ Taken' = Batch /\ Batch' = Batch
      /\ InHand = {s} /\ InHand' = {}
  BY <1>1, <1>2, <1>3 DEF Taken, Batch, InHand
<1>7. Placed' /\ NoneDropped'
  <2>1. s \notin Range(running)
    BY <1>1, <1>2 DEF Placed
  <2>2. /\ running' = running /\ running \in Seq(Seqs) /\ IsInjective(running)
        /\ Range(waiting) \cap Range(running) = {}
        /\ Batch \cap Range(running) = {}
        /\ \A r \in Seqs : r \in Range(waiting) <=> status[r] = "WAITING"
        /\ \A r \in Seqs : r \in Range(running) \cup Batch \cup {s} <=> status[r] = "RUNNING"
    BY <1>1, <1>6, RangeInSeqs DEF Placed, Exact, NoneDropped
  <2>3. Range(running) \cup Batch \subseteq Seqs
    BY <1>3, <2>2, RangeInSeqs, DecodeLoop
  <2>4. \A r \in Seqs : r \in Range(running) \cup Batch <=> status'[r] = "RUNNING"
    BY <1>4, <2>1, <2>2
  <2>5. /\ Range(waiting') \cap Range(running) = {}
        /\ \A r \in Seqs : r \in Range(waiting') <=> status'[r] = "WAITING"
    BY <1>4, <2>1, <2>2
  <2>6. Placed'
    BY <1>1, <1>4, <1>6, <2>2, <2>3, <2>4, <2>5 DEF Placed
  <2>7. NoneDropped'
    BY <1>6, <2>2, <2>4 DEF NoneDropped
  <2> QED BY <2>6, <2>7
<1>8. BatchPlanned'
  <2>1. /\ Batch' = Batch /\ Pending' = Pending
        /\ UNCHANGED <<num_scheduled_tokens, scheduled_seqs, processed>>
    BY <1>1 DEF Batch, Pending
  <2>2. Decoding /\ Decoding' /\ Pending = Batch /\ Batch \subseteq Seqs
    BY <1>3, DecodeLoop DEF Decoding
  <2>3. \A r \in Pending : status'[r] = status[r]
    BY <1>4, <2>2
  <2> QED BY <1>1, <2>1, <2>2, <2>3 DEF BatchPlanned
<1> QED BY <1>1, <1>4, <1>7, <1>8 DEF Exact

(* A token that does not start a block needs no more blocks.               *)
LEMMA SameBlocks ==
  ASSUME NEW n \in Nat, n > 0, n % BlockSize # 1
  PROVE  BlocksFor(n) = BlocksFor(n - 1)
<1> DEFINE q == BlocksFor(n)
           p == BlocksFor(n - 1)
<1>1. BlockSize \in Nat /\ BlockSize > 1 /\ n - 1 \in Nat /\ n - 1 <= n
  BY BlockSizeAssumption
<1>2. q \in Nat /\ q > 0 /\ (q - 1) * BlockSize < n
  BY BlocksForBounds
<1>3. p \in Nat /\ p <= q /\ n - 1 <= p * BlockSize
  BY <1>1, BlocksForBounds, BlocksForMonotonic
<1> HIDE DEF q, p
<1>4. PICK k \in Nat : k = q - 1
  BY <1>2
<1>5. k * BlockSize \in Nat /\ k * BlockSize < n
  BY <1>2, <1>4, TimesBlockSize
<1>6. k * BlockSize # n - 1
  <2> SUFFICES ASSUME k * BlockSize = n - 1 PROVE FALSE
    OBVIOUS
  <2>1. n = k * BlockSize + 1
    BY <1>5
  <2>2. n \div BlockSize = k
    BY <1>1, <1>5, <2>1, DivUnique
  <2>3. n = (n \div BlockSize) * BlockSize + (n % BlockSize)
    BY <1>1
  <2>4. n % BlockSize \in Nat
    BY <1>1
  <2> QED BY <1>5, <2>1, <2>2, <2>3, <2>4
<1>7. ~ (p <= k)
  <2>1. p <= k => p * BlockSize <= k * BlockSize /\ p * BlockSize \in Nat
    BY <1>3, TimesBlockSize
  <2> QED BY <1>3, <1>5, <1>6, <2>1
<1>8. p = q
  BY <1>2, <1>3, <1>4, <1>7
<1> QED BY <1>8 DEF p, q

(* A running sequence gets room for its last token, to be decoded.         *)
LEMMA AppendSound ==
  ASSUME Sound, NEW s \in Seqs, status[s] = "RUNNING", num_scheduled_tokens[s] = 0,
         can_append(s), may_append(s),
         num_scheduled_tokens' = [num_scheduled_tokens EXCEPT ![s] = 1],
         is_prefill' = [is_prefill EXCEPT ![s] = FALSE],
         scheduled_seqs' \in Seq(Seqs), processed' \in 0 .. Len(scheduled_seqs'),
         UNCHANGED <<token_ids, num_cached_tokens, request, status,
                     num_batched_tokens, batch_is_prefill>>
  PROVE  /\ Sound' /\ AllocatorStep
         /\ block_table'[s] # <<>>
         /\ \A r \in Seqs : r # s => /\ is_prefill'[r] = is_prefill[r]
                                     /\ block_table'[r] = block_table[r]
         /\ \A r \in Seqs : num_scheduled_tokens'[r] =
                              IF r = s THEN 1 ELSE num_scheduled_tokens[r]
<1> USE DEF Sound
<1>1. /\ block_table[s] # <<>> /\ num_cached_tokens[s] = Len(token_ids[s]) - 1
      /\ Len(block_table[s]) = BlocksFor(num_cached_tokens[s])
      /\ Len(token_ids[s]) < Len(request[s].prompt) + request[s].max_tokens
      /\ token_ids[s] # <<>>
  BY DEF TablesFit, TableFits
<1>2. AllocatorStep
  <2>1. BMAppend(s)
    BY <1>1 DEF BMAppend
  <2> QED BY <2>1 DEF AllocatorStep, BMNext
<1>3. BMInv'
  BY <1>2, StepsAllocator
<1>4. /\ Len(token_ids[s]) \in Nat /\ Len(token_ids[s]) > 0
      /\ num_cached_tokens[s] \in Nat /\ block_table[s] \in Seq(Blocks)
      /\ block_table \in [Seqs -> Seq(Blocks)]
  BY <1>1, EmptySeq DEF BMInv, BMTypeOK
<1>5. /\ Len(block_table'[s]) = num_blocks(s) /\ block_table'[s] # <<>>
      /\ \A r \in Seqs : r # s => block_table'[r] = block_table[r]
  <2>1. CASE Len(token_ids[s]) % BlockSize = 1
    <3>1. block_table' = [block_table EXCEPT ![s] = Append(@, Head(free_block_ids))]
      BY <2>1 DEF may_append
    <3>2. block_table'[s] = Append(block_table[s], Head(free_block_ids))
      BY <1>4, <3>1
    <3>3. Len(block_table'[s]) = Len(block_table[s]) + 1 /\ Len(block_table[s]) \in Nat
      BY <1>4, <3>2
    <3>4. num_blocks(s) = BlocksFor(num_cached_tokens[s]) + 1
      BY <1>1, <1>4, <2>1, NewBlockStarts DEF num_blocks
    <3>5. block_table'[s] # <<>>
      BY <3>3, EmptyBatch
    <3> QED BY <1>1, <1>4, <3>1, <3>3, <3>4, <3>5
  <2>2. CASE Len(token_ids[s]) % BlockSize # 1
    <3>1. block_table' = block_table
      BY <2>2 DEF may_append
    <3>2. num_blocks(s) = BlocksFor(num_cached_tokens[s])
      BY <1>1, <1>4, <2>2, SameBlocks DEF num_blocks
    <3> QED BY <1>1, <3>1, <3>2
  <2> QED BY <2>1, <2>2
<1>6. /\ \A r \in Seqs : num_scheduled_tokens'[r] = IF r = s THEN 1 ELSE num_scheduled_tokens[r]
      /\ \A r \in Seqs : r # s => is_prefill'[r] = is_prefill[r]
      /\ num_scheduled_tokens' \in [Seqs -> 0 .. MaxBatchedTokens]
      /\ is_prefill' \in [Seqs -> BOOLEAN]
  BY LimitsAssumption DEF Fields
<1>7. Fields'
  BY <1>6 DEF Fields
<1>8. TablesFit'
  <2> SUFFICES ASSUME NEW r \in Seqs PROVE TableFits(r)'
    BY DEF TablesFit
  <2>1. CASE r # s
    BY <1>5, <1>6, <2>1, TableFitsStill DEF TablesFit
  <2>2. CASE r = s
    <3>1. /\ token_ids'[s] = token_ids[s] /\ num_blocks(s)' = num_blocks(s)
          /\ status'[s] = "RUNNING" /\ request' = request
          /\ num_cached_tokens'[s] = num_cached_tokens[s] /\ num_scheduled_tokens'[s] = 1
      BY <1>6 DEF num_blocks
    <3>2. TableFits(s)'
      BY <1>1, <1>4, <1>5, <3>1 DEF TableFits
    <3> QED BY <2>2, <3>2
  <2> QED BY <2>1, <2>2
<1> QED BY <1>2, <1>3, <1>5, <1>6, <1>7, <1>8

(* The one in hand gets room for its next token and joins the batch.       *)
LEMMA DecodeCurKeeps ==
  ASSUME EngineInv, DecodeCur
  PROVE  EngineInv' /\ AllocatorStep
<1> USE DEF EngineInv, CoreInv
<1>1. /\ pc = "append" /\ can_append(cur)
      /\ num_scheduled_tokens' = [num_scheduled_tokens EXCEPT ![cur] = 1]
      /\ is_prefill' = [is_prefill EXCEPT ![cur] = FALSE]
      /\ may_append(cur)
      /\ scheduled_seqs' = Append(scheduled_seqs, cur)
      /\ cur' = NoSeq /\ pc' = "decode"
      /\ UNCHANGED <<token_ids, num_cached_tokens, request, status, queueVars,
                     num_batched_tokens, batch_is_prefill, processed>>
  BY DEF DecodeCur
<1>2. PICK s \in Seqs : s = cur
  BY <1>1 DEF Placed
<1>3. InDecodeLoop /\ InDecodeLoop'
  BY <1>1 DEF InDecodeLoop
<1>4. /\ s \notin Batch /\ s \notin Range(running) /\ status[s] = "RUNNING"
      /\ num_scheduled_tokens[s] = 0
  BY <1>1, <1>2, <1>3, DecodeLoop DEF Placed, InHand
<1>5. /\ scheduled_seqs' \in Seq(Seqs) /\ Len(scheduled_seqs') = Len(scheduled_seqs) + 1
      /\ Batch' = Batch \cup {s}
      /\ IsInjective(scheduled_seqs) => IsInjective(scheduled_seqs')
  BY <1>1, <1>2, <1>4, Appended DEF Sound, Fields, Batch
<1>6. processed = 0 /\ processed' = 0 /\ Decoding /\ Decoding' /\ Pending = Batch
      /\ Batch \subseteq Seqs /\ Taken = Batch
  BY <1>1, <1>3, DecodeLoop DEF Decoding
<1>7. processed' \in 0 .. Len(scheduled_seqs')
  BY <1>5, <1>6, LenProperties DEF Sound, Fields
<1>8. /\ Sound' /\ AllocatorStep
      /\ block_table'[s] # <<>>
      /\ \A r \in Seqs : r # s => /\ is_prefill'[r] = is_prefill[r]
                                  /\ block_table'[r] = block_table[r]
      /\ \A r \in Seqs : num_scheduled_tokens'[r] =
                           IF r = s THEN 1 ELSE num_scheduled_tokens[r]
  BY <1>1, <1>2, <1>4, <1>5, <1>7, AppendSound
<1>9. Pending' = Batch'
  BY <1>5, <1>6, AllOf DEF Pending, Batch
<1>10. Placed' /\ NoneDropped'
  <2>1. /\ Taken' = Batch \cup {s} /\ InHand = {s} /\ InHand' = {}
    BY <1>1, <1>2, <1>3, <1>5 DEF Taken, InHand
  <2> QED BY <1>1, <1>4, <1>6, <2>1, RangeInSeqs DEF Placed, Exact, NoneDropped, queueVars
<1>11. BatchPlanned'
  <2>1. \A r \in Pending' : num_scheduled_tokens'[r] = 1 /\ status'[r] = "RUNNING"
    BY <1>1, <1>4, <1>5, <1>6, <1>8, <1>9 DEF BatchPlanned
  <2>2. IsInjective(scheduled_seqs')
    BY <1>5, <1>6 DEF BatchPlanned
  <2> QED BY <1>1, <1>6, <2>1, <2>2 DEF BatchPlanned
<1>12. ScheduledHold' /\ NoneStale'
  BY <1>5, <1>6, <1>8, <1>9 DEF ScheduledHold, Exact, NoneStale
<1> QED BY <1>1, <1>8, <1>10, <1>11, <1>12 DEF Exact
-----------------------------------------------------------------------------

(* The forward pass, and the processing of its results.                    *)
LEMMA RunModelKeeps ==
  ASSUME CoreInv, RunModel
  PROVE  CoreInv' /\ AllocatorStep /\ (Exact => Exact')
<1> USE DEF CoreInv, Sound
<1>1. /\ pc = "run" /\ pc' = "post"
      /\ UNCHANGED <<bmVars, queueVars, seqVars, scheduled_seqs,
                     num_batched_tokens, batch_is_prefill, cur, processed>>
  BY DEF RunModel
<1>2. BMInv' /\ AllocatorStep
  BY <1>1, SameAllocator
<1>3. Fields'
  BY <1>1 DEF Fields, seqVars
<1>4. Placed' /\ (NoneDropped => NoneDropped')
  BY <1>1 DEF Placed, NoneDropped, Taken, InHand, InDecodeLoop, queueVars, seqVars
<1>5. BatchPlanned'
  <2>1. /\ Batch' = Batch /\ Pending' = Pending
        /\ UNCHANGED <<status, is_prefill, num_scheduled_tokens, scheduled_seqs, processed>>
    BY <1>1 DEF Batch, Pending, seqVars
  <2>2. Decoding' <=> Decoding
    BY <1>1 DEF Decoding, InDecodeLoop
  <2> QED BY <1>1, <2>1, <2>2 DEF BatchPlanned
<1>7. ScheduledHold' /\ (NoneStale => NoneStale')
  <2>1. Pending' = Pending
    BY <1>1 DEF Pending
  <2> QED BY <1>1, <2>1, SameHold DEF bmVars, seqVars
<1>6. TablesFit'
  BY <1>1, SameTables
<1> QED BY <1>1, <1>2, <1>3, <1>4, <1>5, <1>6, <1>7 DEF Exact

(* The end of a step.                                                      *)
LEMMA EndStepKeeps ==
  ASSUME CoreInv, EndStep
  PROVE  CoreInv' /\ AllocatorStep /\ (Exact => Exact')
<1> USE DEF CoreInv, Sound
<1>1. /\ pc = "post" /\ pc' = "idle" /\ processed = Len(scheduled_seqs)
      /\ scheduled_seqs' = <<>> /\ num_batched_tokens' = 0 /\ processed' = 0
      /\ UNCHANGED <<bmVars, queueVars, seqVars, batch_is_prefill, cur>>
  BY DEF EndStep
<1>2. BMInv' /\ AllocatorStep
  BY <1>1, SameAllocator
<1>3. Fields'
  BY <1>1, EmptyBatch, LimitsAssumption DEF Fields, seqVars
<1>4. Placed' /\ (NoneDropped => NoneDropped')
  BY <1>1 DEF Placed, NoneDropped, Taken, InHand, InDecodeLoop, queueVars, seqVars
<1>7. Pending = {} /\ Pending' = {} /\ Batch' = {}
  <2>1. Len(scheduled_seqs) \in Nat
    BY LenProperties DEF Fields
  <2> QED BY <1>1, <2>1, EmptyBatch DEF Batch, Pending
<1>8. ScheduledHold' /\ (NoneStale => NoneStale')
  BY <1>1, <1>7, SameHold DEF bmVars, seqVars
<1>5. BatchPlanned'
  <2>3. ~ Decoding'
    BY <1>1 DEF Decoding, InDecodeLoop
  <2> QED BY <1>1, <1>7, <2>3 DEF BatchPlanned, seqVars
<1>6. TablesFit'
  BY <1>1, SameTables
<1> QED BY <1>1, <1>2, <1>3, <1>4, <1>5, <1>6, <1>8 DEF Exact

(* The next sequence of the batch: a chunk of it was computed -- or it was *)
(* processed already, as a chunked batch may hold it twice -- or all of it *)
(* was, and it takes a token.                                              *)
LEMMA NextOfBatch ==
  ASSUME CoreInv, pc = "post", processed < Len(scheduled_seqs),
         NEW s, s = scheduled_seqs[processed + 1]
  PROVE  LET n == num_scheduled_tokens[s]
             c == num_cached_tokens[s]
             l == Len(token_ids[s])
         IN  /\ s \in Seqs /\ s \in Batch /\ s \in Pending
             /\ n \in Nat /\ c \in Nat /\ l \in Nat
             /\ status[s] # "NEW"
             /\ IsChunk(s, c + n) =>
                  n = 0 \/ (Len(block_table[s]) = num_blocks(s) /\ n \in 1 .. l)
             /\ ~ IsChunk(s, c + n) =>
                  /\ status[s] = "RUNNING" /\ n \in 1 .. l /\ c + n = l
                  /\ block_table[s] # <<>> /\ Len(block_table[s]) = num_blocks(s)
                  /\ l < Len(request[s].prompt) + request[s].max_tokens
<1> USE DEF CoreInv, Sound
<1> DEFINE n == num_scheduled_tokens[s]
           c == num_cached_tokens[s]
           l == Len(token_ids[s])
<1>1. /\ processed \in Nat /\ Len(scheduled_seqs) \in Nat
      /\ DOMAIN scheduled_seqs = 1 .. Len(scheduled_seqs)
      /\ \A i \in 1 .. Len(scheduled_seqs) : scheduled_seqs[i] \in Seqs
  BY LenProperties DEF Fields
<1>2. s \in Seqs /\ s \in Batch /\ s \in Pending
  <2>1. processed + 1 \in 1 .. Len(scheduled_seqs)
        /\ processed + 1 \in processed + 1 .. Len(scheduled_seqs)
    BY <1>1
  <2> QED BY <1>1, <2>1 DEF Batch, Pending, Range
<1>3. n \in Nat /\ c \in Nat /\ l \in Nat /\ c <= l
  <2>1. n \in Nat
    BY <1>2, LimitsAssumption DEF Fields
  <2>2. c \in Nat /\ l \in Nat
    BY <1>2 DEF BMInv, BMTypeOK
  <2>3. c <= l
    BY <1>2 DEF BMInv, TablesLabelled
  <2> QED BY <2>1, <2>2, <2>3
<1>4. status[s] # "NEW"
  BY <1>2 DEF BatchPlanned
<1>5. status[s] \in {"WAITING", "RUNNING", "FINISHED"}
  BY <1>2, <1>4 DEF Fields
<1>6. l > 0
  BY <1>2, <1>4, EmptySeq DEF TablesFit, TableFits, BMInv, BMTypeOK
<1>7. TableFits(s)
  BY <1>2 DEF TablesFit
<1>8. ASSUME n = 0 PROVE IsChunk(s, c + n)
  <2>1. batch_is_prefill
    BY <1>2, <1>8 DEF BatchPlanned, Decoding
  <2>2. c < l
    <3>1. CASE block_table[s] = <<>>
      <4>1. block_table[s] = <<>>
        BY <3>1
      <4>2. c = 0
        <5>1. 0 * BlockSize = 0 /\ Len(block_table[s]) = 0
          BY <4>1, BlockSizeAssumption
        <5>2. c <= Len(block_table[s]) * BlockSize
          BY <1>2 DEF BMInv, TablesLabelled
        <5> QED BY <1>3, <5>1, <5>2
      <4> QED BY <1>6, <4>2
    <3>2. CASE block_table[s] # <<>>
      BY <1>3, <1>5, <1>6, <1>7, <1>8, <3>2 DEF TableFits
    <3> QED BY <3>1, <3>2
  <2> QED BY <1>3, <1>8, <2>1, <2>2 DEF IsChunk
<1>9. ASSUME n > 0
      PROVE  /\ Len(block_table[s]) = num_blocks(s) /\ n \in 1 .. l
             /\ status[s] = "WAITING" => c + n < l
             /\ status[s] = "RUNNING" => c + n = l /\ block_table[s] # <<>>
             /\ status[s] \in {"WAITING", "RUNNING"}
             /\ l < Len(request[s].prompt) + request[s].max_tokens
  <2>1. block_table[s] # <<>>
    BY <1>2, <1>9 DEF ScheduledHold
  <2> QED BY <1>3, <1>5, <1>7, <1>9, <2>1 DEF TableFits
<1>10. ASSUME ~ IsChunk(s, c + n)
       PROVE  n > 0 /\ status[s] = "RUNNING"
  <2>1. n > 0
    BY <1>3, <1>8, <1>10
  <2>2. ~ batch_is_prefill => status[s] = "RUNNING"
    BY <1>2 DEF BatchPlanned, Decoding
  <2>3. batch_is_prefill => ~ (c + n < l)
    BY <1>10 DEF IsChunk
  <2> QED BY <1>3, <1>9, <2>1, <2>2, <2>3
<1>11. n = 0 \/ n > 0
  BY <1>3
<1> HIDE DEF n, c, l
<1>12. IsChunk(s, c + n) => n = 0 \/ (Len(block_table[s]) = num_blocks(s) /\ n \in 1 .. l)
  BY <1>9, <1>11
<1>13. ~ IsChunk(s, c + n) =>
         /\ status[s] = "RUNNING" /\ n \in 1 .. l /\ c + n = l
         /\ block_table[s] # <<>> /\ Len(block_table[s]) = num_blocks(s)
         /\ l < Len(request[s].prompt) + request[s].max_tokens
  BY <1>9, <1>10
<1> QED BY <1>2, <1>3, <1>4, <1>12, <1>13 DEF n, c, l

(* A sequence processed leaves the rest of the batch as it was planned.    *)
LEMMA StillPlanned ==
  ASSUME CoreInv, pc = "post", processed < Len(scheduled_seqs),
         NEW s \in Seqs, s = scheduled_seqs[processed + 1],
         num_scheduled_tokens' = [num_scheduled_tokens EXCEPT ![s] = 0],
         processed' = processed + 1,
         \A r \in Seqs : r # s => status'[r] = status[r],
         \A r \in Seqs : r # s => block_table'[r] = block_table[r],
         status'[s] # "NEW",
         UNCHANGED <<pc, scheduled_seqs, batch_is_prefill>>
  PROVE  /\ BatchPlanned' /\ ScheduledHold' /\ (NoneStale => NoneStale')
         /\ processed' \in 0 .. Len(scheduled_seqs)
         /\ num_scheduled_tokens' \in [Seqs -> 0 .. MaxBatchedTokens]
         /\ \A r \in Seqs : num_scheduled_tokens'[r] =
                              IF r = s THEN 0 ELSE num_scheduled_tokens[r]
<1> USE DEF CoreInv, Sound
<1>1. /\ processed \in Nat /\ Len(scheduled_seqs) \in Nat
      /\ DOMAIN scheduled_seqs = 1 .. Len(scheduled_seqs)
      /\ \A i \in 1 .. Len(scheduled_seqs) : scheduled_seqs[i] \in Seqs
  BY LenProperties DEF Fields
<1>2. processed' \in 0 .. Len(scheduled_seqs)
  BY <1>1
<1>3. /\ num_scheduled_tokens' \in [Seqs -> 0 .. MaxBatchedTokens]
      /\ \A r \in Seqs : num_scheduled_tokens'[r] =
                           IF r = s THEN 0 ELSE num_scheduled_tokens[r]
  BY LimitsAssumption DEF Fields
<1>4. Pending' = {scheduled_seqs[i] : i \in processed + 2 .. Len(scheduled_seqs)}
  <2>1. processed' + 1 = processed + 2
    BY <1>1
  <2> QED BY <2>1 DEF Pending
<1>5. Pending = {s} \cup Pending' /\ Pending \subseteq Seqs
  <2>1. processed + 1 .. Len(scheduled_seqs) =
          {processed + 1} \cup (processed + 2 .. Len(scheduled_seqs))
    BY <1>1
  <2> QED BY <1>1, <1>4, <2>1 DEF Pending
<1>6. Batch' = Batch /\ Batch \subseteq Seqs /\ (Decoding' <=> Decoding)
  BY <1>1 DEF Batch, Decoding, InDecodeLoop, Range
<1>7. ASSUME Decoding
      PROVE  /\ IsInjective(scheduled_seqs)
             /\ \A r \in Pending' : r # s /\ num_scheduled_tokens[r] = 1 /\ status[r] = "RUNNING"
  <2>1. IsInjective(scheduled_seqs)
    BY <1>7 DEF BatchPlanned
  <2>2. s \notin Pending'
    <3> SUFFICES ASSUME NEW i \in processed + 2 .. Len(scheduled_seqs),
                        scheduled_seqs[i] = s
                 PROVE  FALSE
      BY <1>4
    <3>1. i \in DOMAIN scheduled_seqs /\ processed + 1 \in DOMAIN scheduled_seqs
          /\ i # processed + 1
      BY <1>1
    <3> QED BY <2>1, <3>1 DEF IsInjective
  <2> QED BY <1>5, <1>7, <2>1, <2>2 DEF BatchPlanned
<1>8. ScheduledHold' /\ (NoneStale => NoneStale')
  BY <1>3, <1>5 DEF ScheduledHold, NoneStale
<1>9. ASSUME Decoding
      PROVE  \A r \in Pending' : num_scheduled_tokens'[r] = 1 /\ status'[r] = "RUNNING"
  BY <1>3, <1>5, <1>7, <1>9
<1>10. ~ Decoding => \A r \in Batch : status'[r] # "NEW"
  BY <1>6 DEF BatchPlanned
<1>11. BatchPlanned'
  BY <1>6, <1>7, <1>9, <1>10 DEF BatchPlanned
<1> QED BY <1>2, <1>3, <1>8, <1>11

(* No block got full.                                                      *)
LEMMA NothingHashed ==
  ASSUME BMInv, NEW s \in Seqs, hash_blocks(s, 0)
  PROVE  UNCHANGED <<hash, hash_to_block_id>>
<1>1. num_cached_tokens[s] \in Nat
  BY DEF BMInv, BMTypeOK
<1>2. NewlyFull(s, 0) = {}
  <2>1. num_cached_tokens[s] + 0 = num_cached_tokens[s]
    BY <1>1
  <2>2. num_cached_tokens[s] \div BlockSize \in Nat
    BY <1>1, DivBlockSize
  <2> QED BY <2>1, <2>2 DEF NewlyFull
<1>3. /\ hash' = [b \in Blocks |-> hash[b]]
      /\ hash_to_block_id' = [h \in DOMAIN hash_to_block_id |-> hash_to_block_id[h]]
  BY <1>2 DEF hash_blocks
<1>4. hash = [b \in Blocks |-> hash[b]]
  BY DEF BMInv, BMTypeOK
<1>5. hash_to_block_id = [h \in DOMAIN hash_to_block_id |-> hash_to_block_id[h]]
  BY DEF BMInv, BMTypeOK
<1> QED BY <1>3, <1>4, <1>5

(* An iteration of postprocess(): a chunk counted, or a token appended and *)
(* the sequence kept or released.                                          *)
LEMMA PostprocessOneKeeps ==
  ASSUME CoreInv, NEW t \in Token, PostprocessOne(t)
  PROVE  CoreInv' /\ AllocatorStep /\ (Exact => Exact')
<1> USE DEF CoreInv, Sound
<1>1. pc = "post" /\ processed < Len(scheduled_seqs)
  BY DEF PostprocessOne
<1>2. PICK s \in Seqs : s = scheduled_seqs[processed + 1]
  BY <1>1, NextOfBatch
<1> DEFINE n == num_scheduled_tokens[s]
           c == num_cached_tokens[s]
           l == Len(token_ids[s])
           advance == num_cached_tokens' = [num_cached_tokens EXCEPT ![s] = c + n]
           table == UNCHANGED <<block_table, ref_count, free_block_ids, used_block_ids>>
<1>3. /\ hash_blocks(s, n)
      /\ num_scheduled_tokens' = [num_scheduled_tokens EXCEPT ![s] = 0]
      /\ processed' = processed + 1
      /\ \/ IsChunk(s, c + n) /\ advance /\ table /\ UNCHANGED <<token_ids, status, running>>
         \/ /\ ~ IsChunk(s, c + n)
            /\ token_ids' = [token_ids EXCEPT ![s] = Append(@, t)]
            /\ \/ /\ Ends(s, t)
                  /\ status' = [status EXCEPT ![s] = "FINISHED"]
                  /\ deallocate(s)
                  /\ running' = Without(running, {s})
               \/ ~ Ends(s, t) /\ advance /\ table /\ UNCHANGED <<status, running>>
      /\ UNCHANGED <<request, is_prefill, waiting, pc, scheduled_seqs,
                     num_batched_tokens, batch_is_prefill, cur>>
  BY <1>2 DEF PostprocessOne
<1>4. /\ s \in Batch /\ n \in Nat /\ c \in Nat /\ l \in Nat
      /\ status[s] # "NEW"
      /\ IsChunk(s, c + n) =>
           n = 0 \/ (Len(block_table[s]) = num_blocks(s) /\ n \in 1 .. l)
      /\ ~ IsChunk(s, c + n) =>
           /\ status[s] = "RUNNING" /\ n \in 1 .. l /\ c + n = l
           /\ block_table[s] # <<>> /\ Len(block_table[s]) = num_blocks(s)
           /\ l < Len(request[s].prompt) + request[s].max_tokens
  BY <1>1, <1>2, NextOfBatch
<1>5. /\ token_ids \in [Seqs -> Seq(Token)] /\ num_cached_tokens \in [Seqs -> Nat]
      /\ status \in [Seqs -> {"NEW", "WAITING", "RUNNING", "FINISHED"}]
      /\ token_ids[s] \in Seq(Token) /\ TableFits(s)
  BY DEF BMInv, BMTypeOK, Fields, TablesFit
<1>6. /\ \A r \in Seqs : r # s => /\ status'[r] = status[r] /\ token_ids'[r] = token_ids[r]
                                  /\ block_table'[r] = block_table[r]
      /\ status'[s] # "NEW"
      /\ status' \in [Seqs -> {"NEW", "WAITING", "RUNNING", "FINISHED"}]
  <2>1. \A r \in Seqs : r # s => block_table'[r] = block_table[r]
    BY <1>3, DeallocateEffect, BMParts
  <2> QED BY <1>3, <1>4, <1>5, <2>1
<1>7. /\ BatchPlanned' /\ ScheduledHold' /\ (NoneStale => NoneStale')
      /\ processed' \in 0 .. Len(scheduled_seqs)
      /\ num_scheduled_tokens' \in [Seqs -> 0 .. MaxBatchedTokens]
      /\ \A r \in Seqs : num_scheduled_tokens'[r] =
                           IF r = s THEN 0 ELSE num_scheduled_tokens[r]
  BY <1>1, <1>2, <1>3, <1>6, StillPlanned
<1>8. Fields'
  BY <1>3, <1>6, <1>7 DEF Fields
<1>9. Taken = {} /\ Taken' = {} /\ InHand = {} /\ InHand' = {} /\ cur = NoSeq /\ cur' = NoSeq
      /\ pc' # "append"
  BY <1>1, <1>3 DEF Taken, InHand, InDecodeLoop, Placed
<1>10. CASE IsChunk(s, c + n)
  <2>1. advance /\ table /\ UNCHANGED <<token_ids, status, running>>
    BY <1>3, <1>10
  <2>2. AllocatorStep
    <3>1. CASE n = 0
      <4>1. hash_blocks(s, 0)
        BY <1>3, <3>1
      <4>2. UNCHANGED <<hash, hash_to_block_id>>
        BY <4>1, NothingHashed
      <4>3. num_cached_tokens' = num_cached_tokens
        <5>1. c + n = num_cached_tokens[s]
          BY <1>4, <3>1
        <5> QED BY <1>5, <2>1, <5>1
      <4> QED BY <2>1, <4>2, <4>3 DEF AllocatorStep, bmVars
    <3>2. CASE n # 0
      <4>1. Len(block_table[s]) = num_blocks(s) /\ n \in 1 .. l /\ c + n < l
        BY <1>4, <1>10, <3>2 DEF IsChunk
      <4>2. BMChunk(s, n)
        BY <1>3, <2>1, <4>1 DEF BMChunk
      <4> QED BY <4>1, <4>2 DEF AllocatorStep, BMNext
    <3> QED BY <3>1, <3>2
  <2>3. BMInv'
    BY <2>2, StepsAllocator
  <2>4. Placed' /\ (NoneDropped => NoneDropped')
    BY <1>3, <1>9, <2>1 DEF Placed, NoneDropped
  <2>5. TablesFit'
    <3> SUFFICES ASSUME NEW r \in Seqs PROVE TableFits(r)'
      BY DEF TablesFit
    <3>1. num_cached_tokens'[r] = IF r = s THEN c + n ELSE num_cached_tokens[r]
      BY <1>5, <2>1
    <3>2. CASE r # s
      BY <1>3, <1>7, <2>1, <3>1, <3>2, TableFitsStill DEF TablesFit
    <3>3. CASE r = s
      <4>1. /\ num_cached_tokens'[s] = c + n /\ num_scheduled_tokens'[s] = 0
            /\ token_ids'[s] = token_ids[s] /\ block_table' = block_table
            /\ num_blocks(s)' = num_blocks(s)
            /\ UNCHANGED <<status, request, is_prefill>>
        BY <1>3, <1>7, <2>1, <3>1, <3>3 DEF num_blocks
      <4>2. c + n < l
        BY <1>10 DEF IsChunk
      <4>3. status[s] = "RUNNING" => n = 0
        BY <1>4, <1>5, <4>2 DEF TableFits
      <4>4. TableFits(s)'
        BY <1>4, <1>5, <4>1, <4>2, <4>3 DEF TableFits
      <4> QED BY <3>3, <4>4
    <3> QED BY <3>2, <3>3
  <2> QED BY <1>3, <1>7, <1>8, <2>2, <2>3, <2>4, <2>5 DEF Exact
<1>11. CASE ~ IsChunk(s, c + n)
  <2>1. /\ token_ids' = [token_ids EXCEPT ![s] = Append(@, t)]
        /\ \/ /\ Ends(s, t)
              /\ status' = [status EXCEPT ![s] = "FINISHED"]
              /\ deallocate(s)
              /\ running' = Without(running, {s})
           \/ ~ Ends(s, t) /\ advance /\ table /\ UNCHANGED <<status, running>>
    BY <1>3, <1>11
  <2>2. /\ status[s] = "RUNNING" /\ n \in 1 .. l /\ c + n = l
        /\ block_table[s] # <<>> /\ Len(block_table[s]) = num_blocks(s)
        /\ l < Len(request[s].prompt) + request[s].max_tokens
    BY <1>4, <1>11
  <2>3. /\ token_ids'[s] = Append(token_ids[s], t) /\ token_ids'[s] # <<>>
        /\ Len(token_ids'[s]) = l + 1
    BY <1>5, <2>1, Appended
  <2>4. /\ Len(request[s].prompt) \in Nat /\ request[s].max_tokens \in Nat
        /\ l < MaxLen
    <3>1. /\ request[s].prompt \in Prompts /\ request[s].max_tokens \in Nat
          /\ Len(request[s].prompt) + request[s].max_tokens <= MaxLen
      BY FeasibleAssumption DEF Fields
    <3>2. Len(request[s].prompt) \in Nat
      BY <3>1, PromptsAssumption
    <3> QED BY <2>2, <3>1, <3>2, MaxLenAssumption, <1>4
  <2>5. s \notin Range(waiting)
    BY <2>2 DEF Placed
  <2>6. CASE Ends(s, t)
    <3>1. /\ status' = [status EXCEPT ![s] = "FINISHED"] /\ deallocate(s)
          /\ running' = Without(running, {s})
      BY <2>1, <2>6
    <3>2. AllocatorStep
      <4>1. BMLastToken(s, n, t)
        BY <1>3, <2>1, <2>2, <2>4, <3>1 DEF BMLastToken
      <4> QED BY <2>2, <4>1 DEF AllocatorStep, BMNext
    <3>3. BMInv'
      BY <3>2, StepsAllocator
    <3>4. Placed' /\ (NoneDropped => NoneDropped')
      <4>1. /\ running' \in Seq(Seqs) /\ IsInjective(running')
            /\ Range(running') = Range(running) \ {s}
        BY <3>1, WithoutProperties DEF Placed
      <4>2. \A r \in Seqs : status'[r] = IF r = s THEN "FINISHED" ELSE status[r]
        BY <1>5, <3>1
      <4> QED BY <1>3, <1>9, <2>2, <2>5, <4>1, <4>2, RangeInSeqs DEF Placed, NoneDropped
    <3>5. TablesFit'
      <4> SUFFICES ASSUME NEW r \in Seqs PROVE TableFits(r)'
        BY DEF TablesFit
      <4>1. /\ block_table'[s] = <<>>
            /\ r # s => block_table'[r] = block_table[r]
                        /\ num_cached_tokens'[r] = num_cached_tokens[r]
        BY <3>1, DeallocateEffect, BMParts
      <4>2. CASE r # s
        BY <1>3, <1>6, <1>7, <4>1, <4>2, TableFitsStill DEF TablesFit
      <4>3. CASE r = s
        <5>1. status'[s] = "FINISHED" /\ num_scheduled_tokens'[s] = 0
          BY <1>5, <1>7, <3>1
        <5>2. TableFits(s)'
          BY <2>3, <4>1, <5>1 DEF TableFits
        <5> QED BY <4>3, <5>2
      <4> QED BY <4>2, <4>3
    <3> QED BY <1>3, <1>7, <1>8, <3>2, <3>3, <3>4, <3>5 DEF Exact
  <2>7. CASE ~ Ends(s, t)
    <3>1. advance /\ table /\ UNCHANGED <<status, running>>
      BY <2>1, <2>7
    <3>2. AllocatorStep
      <4>1. BMToken(s, n, t)
        BY <1>3, <2>1, <2>2, <2>4, <3>1 DEF BMToken
      <4> QED BY <2>2, <4>1 DEF AllocatorStep, BMNext
    <3>3. BMInv'
      BY <3>2, StepsAllocator
    <3>4. Placed' /\ (NoneDropped => NoneDropped')
      BY <1>3, <1>9, <3>1 DEF Placed, NoneDropped
    <3>5. TablesFit'
      <4> SUFFICES ASSUME NEW r \in Seqs PROVE TableFits(r)'
        BY DEF TablesFit
      <4>1. num_cached_tokens'[r] = IF r = s THEN c + n ELSE num_cached_tokens[r]
        BY <1>5, <3>1
      <4>2. CASE r # s
        BY <1>3, <1>6, <1>7, <3>1, <4>1, <4>2, TableFitsStill DEF TablesFit
      <4>3. CASE r = s
        <5>1. /\ status'[s] = "RUNNING" /\ num_scheduled_tokens'[s] = 0
              /\ num_cached_tokens'[s] = l /\ block_table'[s] = block_table[s]
              /\ request' = request
          BY <1>3, <1>7, <2>2, <3>1, <4>1, <4>3
        <5>2. l + 1 < Len(request[s].prompt) + request[s].max_tokens
          <6>1. l + 1 - Len(request[s].prompt) # request[s].max_tokens
            BY <2>7 DEF Ends
          <6>2. l < Len(request[s].prompt) + request[s].max_tokens /\ l \in Nat
            BY <1>4, <2>2
          <6>3. \A i, j, k \in Nat : i < j + k /\ i + 1 - j # k => i + 1 < j + k
            OBVIOUS
          <6> HIDE DEF l
          <6> QED BY <2>4, <6>1, <6>2, <6>3
        <5>3. Len(block_table[s]) = BlocksFor(l) /\ l = (l + 1) - 1
          BY <1>4, <2>2 DEF num_blocks
        <5> HIDE DEF l, n, c
        <5>4. TableFits(s)'
          BY <2>2, <2>3, <5>1, <5>2, <5>3 DEF TableFits
        <5> QED BY <4>3, <5>4
      <4> QED BY <4>2, <4>3
    <3> QED BY <1>3, <1>7, <1>8, <3>2, <3>3, <3>4, <3>5 DEF Exact
  <2> QED BY <2>6, <2>7
<1> QED BY <1>10, <1>11

(* A step that changes nothing.                                            *)
LEMMA StutterStep ==
  ASSUME EngineInv, UNCHANGED vars
  PROVE  EngineInv' /\ AllocatorStep
<1> USE DEF EngineInv, CoreInv, Sound
<1>1. UNCHANGED <<bmVars, queueVars, stepVars, seqVars>>
  BY DEF vars
<1>2. BMInv' /\ AllocatorStep
  BY <1>1, SameAllocator
<1>3. Fields' /\ Placed' /\ BatchPlanned' /\ NoneDropped'
  BY <1>1 DEF Fields, Placed, BatchPlanned, Exact, NoneDropped, Taken, InHand,
              InDecodeLoop, Decoding, Pending, Batch, queueVars, stepVars, seqVars
<1>4. TablesFit'
  BY <1>1, SameTables
<1>5. ScheduledHold' /\ NoneStale'
  <2>1. Pending' = Pending
    BY <1>1 DEF Pending, stepVars
  <2> QED BY <1>1, <2>1, SameHold DEF bmVars, seqVars, Exact
<1> QED BY <1>1, <1>2, <1>3, <1>4, <1>5 DEF Exact, stepVars

(* The steps that these policies share.                                    *)
LEMMA CoreStepKeeps ==
  ASSUME EngineInv,
         DecodePhase \/ EndDecode("raised") \/ EndDecode("prefill") \/ RunAndPostprocess
  PROVE  EngineInv' /\ AllocatorStep
<1>1. CASE DecodePhase
  BY <1>1, PopRunningKeeps, PreemptNewestKeeps, PreemptSelfKeeps, DecodeCurKeeps
     DEF DecodePhase
<1>2. CASE EndDecode("raised") \/ EndDecode("prefill")
  BY <1>2, EndDecodeKeeps
<1>3. CASE RunAndPostprocess
  BY <1>3, RunModelKeeps, PostprocessOneKeeps, EndStepKeeps DEF RunAndPostprocess, EngineInv
<1> QED BY <1>1, <1>2, <1>3

(* Each unfinished request is in exactly one of the places a step may keep *)
(* it: the deques, the batch of the decode loop, the hand of that loop.    *)
LEMMA PlacesAreAll ==
  ASSUME Fields, Placed, NoneDropped, InDecodeLoop => IsInjective(scheduled_seqs)
  PROVE  NoRequestLost
<1> DEFINE taken == IF InDecodeLoop THEN scheduled_seqs ELSE <<>>
           hand  == IF cur # NoSeq THEN <<cur>> ELSE <<>>
<1>1. /\ taken \in Seq(Seqs) /\ IsInjective(taken) /\ Range(taken) = Taken
  <2>1. CASE InDecodeLoop
    BY <2>1 DEF Fields, Taken, Batch
  <2>2. CASE ~ InDecodeLoop
    BY <2>2, EmptyBatch DEF Taken
  <2> QED BY <2>1, <2>2
<1>2. /\ hand \in Seq(Seqs) /\ IsInjective(hand) /\ Range(hand) = InHand
  <2>1. CASE pc = "append"
    BY <2>1, Singleton DEF Placed, InHand
  <2>2. CASE pc # "append"
    BY <2>2, EmptyBatch DEF Placed, InHand
  <2> QED BY <2>1, <2>2
<1>3. /\ waiting \in Seq(Seqs) /\ IsInjective(waiting)
      /\ running \in Seq(Seqs) /\ IsInjective(running)
      /\ Range(waiting) \cap Range(running) = {}
      /\ \A s \in Seqs : s \in Range(waiting) <=> status[s] = "WAITING"
      /\ \A s \in Seqs : s \in Range(running) \cup Taken \cup InHand <=> status[s] = "RUNNING"
      /\ Taken \cap Range(running) = {}
  BY DEF Placed, NoneDropped
<1>4. Taken \cap InHand = {} /\ InHand \cap Range(running) = {}
  BY DEF Placed, InHand, Taken, InDecodeLoop
<1>5. Range(waiting) \subseteq Seqs /\ Range(running) \subseteq Seqs
      /\ Taken \subseteq Seqs /\ InHand \subseteq Seqs
  BY <1>1, <1>2, <1>3, RangeInSeqs
<1>6. (Taken \cup InHand) \cap Range(waiting) = {}
  BY <1>3, <1>5
<1> DEFINE a == taken \o hand
           b == a \o running
<1>7. Held = b \o waiting
  BY DEF Held
<1> HIDE DEF taken, hand
<1>8. a \in Seq(Seqs) /\ IsInjective(a) /\ Range(a) = Taken \cup InHand
  BY <1>1, <1>2, <1>4, JoinInjective
<1> HIDE DEF a
<1>9. b \in Seq(Seqs) /\ IsInjective(b) /\ Range(b) = Taken \cup InHand \cup Range(running)
  BY <1>3, <1>4, <1>8, JoinInjective
<1> HIDE DEF b
<1>10. /\ IsInjective(Held)
       /\ Range(Held) = Taken \cup InHand \cup Range(running) \cup Range(waiting)
  BY <1>3, <1>6, <1>7, <1>9, JoinInjective
<1>11. Range(Held) = {s \in Seqs : status[s] \in {"WAITING", "RUNNING"}}
  BY <1>3, <1>5, <1>10
<1> QED BY <1>3, <1>10, <1>11 DEF NoRequestLost

(* So it is under these policies.                                          *)
LEMMA EachInOnePlace == EngineInv => NoRequestLost
BY PlacesAreAll DEF EngineInv, CoreInv, Sound, Exact, BatchPlanned, Decoding

(* The deques and the batch, named in the type invariant.                  *)
LEMMA CurInSeqs == CoreInv => cur \in Seqs \cup {NoSeq}
BY DEF CoreInv, Placed

(* A sequence is prefilled only while the flag is set with which its       *)
(* tokens are sent to the other ranks.                                     *)
LEMMA PrefilledWithTokens == CoreInv => PrefillShipsTokens
BY DEF CoreInv, BatchPlanned, PrefillShipsTokens, Decoding, InDecodeLoop
-----------------------------------------------------------------------------

(* The refinement of InferenceService.  A sequence keeps its prompt, so    *)
(* what comes after it is what was generated.                              *)
PromptsKept ==
  \A s \in Seqs : status[s] # "NEW" => Len(request[s].prompt) <= Len(token_ids[s])

(* What comes after the first n.                                           *)
LEMMA PartAfter ==
  ASSUME NEW T, NEW q \in Seq(T), NEW n \in 0 .. Len(q)
  PROVE  /\ SubSeq(q, n + 1, Len(q)) \in Seq(T)
         /\ Len(SubSeq(q, n + 1, Len(q))) = Len(q) - n
         /\ \A i \in 1 .. Len(q) - n : SubSeq(q, n + 1, Len(q))[i] = q[n + i]
<1>1. Len(q) \in Nat /\ n \in Nat /\ n <= Len(q)
  BY LenProperties
<1>2. \A i \in n + 1 .. Len(q) : q[i] \in T
  <2>1. \A i \in n + 1 .. Len(q) : i \in 1 .. Len(q)
    BY <1>1
  <2> QED BY <2>1, ElementOfSeq
<1> DEFINE part == SubSeq(q, n + 1, Len(q))
<1>3. /\ part \in Seq(T)
      /\ Len(part) = IF n + 1 <= Len(q) THEN Len(q) - (n + 1) + 1 ELSE 0
      /\ \A i \in 1 .. Len(q) - (n + 1) + 1 : part[i] = q[(n + 1) + i - 1]
  <2>1. n + 1 \in Int /\ Len(q) \in Int
    BY <1>1
  <2> QED BY <1>2, <2>1, SubSeqProperties
<1> HIDE DEF part
<1>4. Len(part) = Len(q) - n
  BY <1>1, <1>3
<1>5. ASSUME NEW i \in 1 .. Len(q) - n PROVE part[i] = q[n + i]
  <2>1. i \in 1 .. Len(q) - (n + 1) + 1 /\ (n + 1) + i - 1 = n + i
    BY <1>1
  <2> QED BY <1>3, <2>1
<1> QED BY <1>3, <1>4, <1>5 DEF part

(* One more token, seen from behind the prompt.                            *)
LEMMA OneMoreToken ==
  ASSUME NEW T, NEW q \in Seq(T), NEW t \in T, NEW n \in 0 .. Len(q)
  PROVE  SubSeq(Append(q, t), n + 1, Len(Append(q, t)))
           = Append(SubSeq(q, n + 1, Len(q)), t)
<1> DEFINE longer == Append(q, t)
           before == SubSeq(q, n + 1, Len(q))
           after  == SubSeq(longer, n + 1, Len(longer))
<1>1. /\ Len(q) \in Nat /\ n \in Nat /\ n <= Len(q)
      /\ longer \in Seq(T) /\ Len(longer) = Len(q) + 1 /\ longer[Len(q) + 1] = t
      /\ \A i \in 1 .. Len(q) : longer[i] = q[i]
  BY LenProperties
<1> HIDE DEF longer
<1>2. n \in 0 .. Len(longer)
  BY <1>1
<1>3. /\ before \in Seq(T) /\ Len(before) = Len(q) - n
      /\ \A i \in 1 .. Len(q) - n : before[i] = q[n + i]
  BY PartAfter
<1>4. /\ after \in Seq(T) /\ Len(after) = Len(longer) - n
      /\ \A i \in 1 .. Len(longer) - n : after[i] = longer[n + i]
  BY <1>1, <1>2, PartAfter
<1> HIDE DEF before, after
<1>5. /\ Append(before, t) \in Seq(T) /\ Len(Append(before, t)) = Len(q) - n + 1
      /\ \A i \in 1 .. Len(q) - n : Append(before, t)[i] = before[i]
      /\ Append(before, t)[Len(q) - n + 1] = t
  BY <1>1, <1>3
<1>6. ASSUME NEW i \in 1 .. Len(after) PROVE after[i] = Append(before, t)[i]
  <2>1. CASE i = Len(q) - n + 1
    BY <1>1, <1>4, <1>5, <2>1
  <2>2. CASE i # Len(q) - n + 1
    <3>1. i \in Nat /\ 1 <= i /\ i <= Len(q) + 1 - n /\ i \in 1 .. Len(longer) - n
      <4>1. Len(after) = Len(q) + 1 - n
        BY <1>1, <1>4
      <4> QED BY <1>1, <4>1
    <3>2. i \in 1 .. Len(q) - n /\ n + i \in 1 .. Len(q)
      BY <1>1, <2>2, <3>1
    <3> QED BY <1>1, <1>3, <1>4, <1>5, <3>1, <3>2
  <2> QED BY <2>1, <2>2
<1>7. Len(after) = Len(Append(before, t))
  BY <1>1, <1>4, <1>5
<1>8. after = Append(before, t)
  BY <1>4, <1>5, <1>6, <1>7, SeqEqual
<1> QED BY <1>8 DEF after, before, longer

(* Nothing is generated by a sequence that has its prompt at most.         *)
LEMMA NothingGenerated ==
  ASSUME NEW T, NEW q \in Seq(T)
  PROVE  SubSeq(q, Len(q) + 1, Len(q)) = <<>>
BY LenProperties, SubSeqEmpty

(* A step that touches no token and finishes nothing is not seen.          *)
Unseen ==
  /\ UNCHANGED <<token_ids, request>>
  /\ \A s \in Seqs : /\ status'[s] = "NEW" <=> status[s] = "NEW"
                     /\ status'[s] = "FINISHED" <=> status[s] = "FINISHED"

(* A sequence in one of the deques that changes its status.                *)
LEMMA StatusMoves ==
  ASSUME Fields, NEW s \in Seqs, status[s] \in {"WAITING", "RUNNING"},
         NEW new \in {"WAITING", "RUNNING"},
         status' = [status EXCEPT ![s] = new], UNCHANGED <<token_ids, request>>
  PROVE  Unseen
BY DEF Fields, Unseen

(* The shared steps between an arrival and the sampled tokens.             *)
LEMMA DequesUnseen ==
  ASSUME Fields, Placed,
         \/ StartStep("prefill") \/ StartStep("decode") \/ PrefillHead \/ DecodePhase
         \/ EndPrefill("decode") \/ EndPrefill("raised")
         \/ EndDecode("prefill") \/ EndDecode("raised") \/ RunModel \/ EndStep
  PROVE  Unseen
<1>1. CASE UNCHANGED <<token_ids, request, status>>
  BY <1>1 DEF Unseen
<1>2. CASE PrefillHead
  <2>1. waiting # <<>> /\ UNCHANGED <<token_ids, request>>
    BY <1>2 DEF PrefillHead, CanPrefillHead
  <2>2. PICK s \in Seqs : s = Head(waiting) /\ status[s] = "WAITING"
    BY <2>1, HeadWaits
  <2>3. status' = [status EXCEPT ![s] = "RUNNING"] \/ status' = status
    BY <1>2, <2>2 DEF PrefillHead
  <2> QED BY <1>1, <2>1, <2>2, <2>3, StatusMoves
<1>3. CASE PreemptNewest
  <2>1. PICK s \in Seqs : s = running[Len(running)] /\ s \in Range(running)
    <3>1. running # <<>> /\ running \in Seq(Seqs)
      BY <1>3 DEF PreemptNewest, Placed
    <3>2. Len(running) \in DOMAIN running
      BY <3>1, LenProperties, EmptySeq
    <3> QED BY <3>1, <3>2, LenProperties DEF Range
  <2>2. status[s] = "RUNNING"
    BY <2>1 DEF Placed
  <2>3. status' = [status EXCEPT ![s] = "WAITING"] /\ UNCHANGED <<token_ids, request>>
    BY <1>3, <2>1 DEF PreemptNewest, preempt
  <2> QED BY <2>2, <2>3, StatusMoves
<1>4. CASE PreemptSelf
  <2>1. pc = "append" /\ cur \in Seqs /\ cur \in InHand
    BY <1>4 DEF PreemptSelf, Placed, InHand
  <2>2. status[cur] = "RUNNING"
    BY <2>1 DEF Placed
  <2>3. status' = [status EXCEPT ![cur] = "WAITING"] /\ UNCHANGED <<token_ids, request>>
    BY <1>4 DEF PreemptSelf, preempt
  <2> QED BY <2>1, <2>2, <2>3, StatusMoves
<1>5. CASE StartStep("prefill") \/ StartStep("decode") \/ EndPrefill("decode")
           \/ EndPrefill("raised")
  <2>1. UNCHANGED <<token_ids, request, status>>
    BY <1>5 DEF StartStep, EndPrefill, bmVars, seqVars
  <2> QED BY <1>1, <2>1
<1>6. CASE PopRunning \/ DecodeCur \/ EndDecode("raised") \/ EndDecode("prefill")
           \/ RunModel \/ EndStep
  <2>1. UNCHANGED <<token_ids, request, status>>
    BY <1>6 DEF PopRunning, DecodeCur, EndDecode, RunModel, EndStep, bmVars, seqVars
  <2> QED BY <1>1, <2>1
<1> QED BY <1>2, <1>3, <1>4, <1>5, <1>6 DEF DecodePhase

(* So they are under every policy.                                         *)
LEMMA ScheduleUnseen ==
  ASSUME CoreInv,
         \/ StartStep("prefill") \/ StartStep("decode") \/ PrefillHead \/ DecodePhase
         \/ EndPrefill("decode") \/ EndPrefill("raised")
         \/ EndDecode("prefill") \/ EndDecode("raised") \/ RunModel \/ EndStep
  PROVE  Unseen
BY DequesUnseen DEF CoreInv, Sound

(* It stutters in the service, and keeps the prompts.                      *)
LEMMA UnseenStutters ==
  ASSUME Unseen
  PROVE  UNCHANGED Service!serviceVars /\ (PromptsKept => PromptsKept')
<1>1. /\ {s \in Seqs : status[s] # "NEW"}' = {s \in Seqs : status[s] # "NEW"}
      /\ {s \in Seqs : status[s] = "FINISHED"}' = {s \in Seqs : status[s] = "FINISHED"}
  BY DEF Unseen
<1>2. UNCHANGED <<token_ids, request>>
  BY DEF Unseen
<1>3. UNCHANGED Service!serviceVars
  BY <1>1, <1>2 DEF Service!serviceVars
<1>4. PromptsKept => PromptsKept'
  BY DEF PromptsKept, Unseen
<1> QED BY <1>3, <1>4

(* An arrival is accepted.                                                 *)
LEMMA NewIsAccepted ==
  ASSUME BMTypeOK, Fields, PromptsKept, NEW s \in Seqs, token_ids[s] = <<>>, AddRequest(s)
  PROVE  Service!Accept(s) /\ PromptsKept'
<1>1. /\ status[s] = "NEW" /\ token_ids[s] = <<>> /\ UNCHANGED request
      /\ token_ids' = [token_ids EXCEPT ![s] = request[s].prompt]
      /\ status' = [status EXCEPT ![s] = "WAITING"]
  BY DEF AddRequest
<1>2. /\ request[s].prompt \in Seq(Token)
      /\ token_ids \in [Seqs -> Seq(Token)]
      /\ status \in [Seqs -> {"NEW", "WAITING", "RUNNING", "FINISHED"}]
  BY FeasibleAssumption, PromptsAssumption DEF Fields, BMTypeOK
<1>3. \A r \in Seqs : /\ status'[r] = IF r = s THEN "WAITING" ELSE status[r]
                      /\ token_ids'[r] = IF r = s THEN request[s].prompt ELSE token_ids[r]
  BY <1>1, <1>2
<1>4. PromptsKept'
  BY <1>1, <1>2, <1>3, LenProperties DEF PromptsKept
<1> DEFINE out(r) == SubSeq(token_ids[r], Len(request[r].prompt) + 1, Len(token_ids[r]))
<1>5. \A r \in Seqs : out(r)' = out(r)
  <2> SUFFICES ASSUME NEW r \in Seqs PROVE out(r)' = out(r)
    OBVIOUS
  <2>1. CASE r # s
    BY <1>1, <1>3, <2>1
  <2>2. CASE r = s
    <3>1. out(s)' = <<>>
      BY <1>1, <1>2, <1>3, NothingGenerated
    <3>2. out(s) = <<>>
      <4>1. Len(token_ids[s]) = 0 /\ Len(request[s].prompt) + 1 > 0
            /\ Len(request[s].prompt) \in Nat /\ token_ids[s] \in Seq(Token)
        BY <1>1, <1>2, LenProperties
      <4> QED BY <4>1, SubSeqEmpty
    <3> QED BY <2>2, <3>1, <3>2
  <2> QED BY <2>1, <2>2
<1>6. [r \in Seqs |-> out(r)]' = [r \in Seqs |-> out(r)]
  BY <1>5
<1>7. /\ {r \in Seqs : status[r] # "NEW"}' = {r \in Seqs : status[r] # "NEW"} \cup {s}
      /\ {r \in Seqs : status[r] = "FINISHED"}' = {r \in Seqs : status[r] = "FINISHED"}
  BY <1>1, <1>3
<1>8. Service!Accept(s)
  BY <1>1, <1>6, <1>7 DEF Service!Accept
<1> QED BY <1>4, <1>8

(* A created sequence has no tokens yet.                                   *)
LEMMA ArrivalAccepted ==
  ASSUME CoreInv, PromptsKept, NEW s \in Seqs, AddRequest(s)
  PROVE  Service!Accept(s) /\ PromptsKept'
<1>1. status[s] = "NEW" /\ BMTypeOK /\ Fields
  BY DEF AddRequest, CoreInv, Sound, BMInv
<1>2. token_ids[s] = <<>>
  BY <1>1 DEF CoreInv, Sound, TablesFit, TableFits
<1> QED BY <1>1, <1>2, NewIsAccepted

(* A sequence that postprocess() reaches emits the sampled token, or none. *)
LEMMA ReachedEmits ==
  ASSUME BMTypeOK, Fields, PromptsKept,
         NEW s \in Seqs, s = scheduled_seqs[processed + 1],
         ~ IsChunk(s, num_cached_tokens[s] + num_scheduled_tokens[s])
           => status[s] = "RUNNING",
         NEW t \in Token, PostprocessOne(t)
  PROVE  /\ UNCHANGED Service!serviceVars \/ \E r \in Seqs : Service!Emit(r, t)
         /\ PromptsKept'
<1> DEFINE c == num_cached_tokens[s] + num_scheduled_tokens[s]
           l == Len(token_ids[s])
           p == Len(request[s].prompt)
<1>1. /\ UNCHANGED request
      /\ \/ IsChunk(s, c) /\ UNCHANGED <<token_ids, status>>
         \/ /\ ~ IsChunk(s, c)
            /\ token_ids' = [token_ids EXCEPT ![s] = Append(@, t)]
            /\ \/ Ends(s, t) /\ status' = [status EXCEPT ![s] = "FINISHED"]
               \/ ~ Ends(s, t) /\ UNCHANGED status
  BY DEF PostprocessOne
<1>2. CASE IsChunk(s, c)
  <2>1. Unseen
    BY <1>1, <1>2 DEF Unseen
  <2> QED BY <2>1, UnseenStutters
<1>3. CASE ~ IsChunk(s, c)
  <2>1. status[s] = "RUNNING"
    BY <1>3
  <2>2. /\ request[s].prompt \in Seq(Token) /\ p \in Nat /\ l \in Nat /\ p <= l
        /\ token_ids \in [Seqs -> Seq(Token)] /\ token_ids[s] \in Seq(Token)
        /\ status \in [Seqs -> {"NEW", "WAITING", "RUNNING", "FINISHED"}]
    BY <2>1, FeasibleAssumption, PromptsAssumption, LenProperties
       DEF Fields, BMTypeOK, PromptsKept
  <2>3. token_ids' = [token_ids EXCEPT ![s] = Append(@, t)]
    BY <1>1, <1>3
  <2>4. /\ token_ids'[s] = Append(token_ids[s], t)
        /\ \A r \in Seqs \ {s} : token_ids'[r] = token_ids[r]
    BY <2>2, <2>3
  <2>5. Len(token_ids'[s]) = l + 1
    BY <2>2, <2>4
  <2> DEFINE out(r) == SubSeq(token_ids[r], Len(request[r].prompt) + 1, Len(token_ids[r]))
             output == [r \in Seqs |-> out(r)]
  <2>6. Len(out(s)) = l - p
    <3>1. p \in 0 .. Len(token_ids[s])
      BY <2>2
    <3> QED BY <2>2, <3>1, PartAfter, ZenonT(30)
  <2>7. out(s)' = Append(out(s), t)
    <3>1. p \in 0 .. Len(token_ids[s])
      BY <2>2
    <3>2. SubSeq(Append(token_ids[s], t), p + 1, Len(Append(token_ids[s], t)))
            = Append(SubSeq(token_ids[s], p + 1, Len(token_ids[s])), t)
      BY <2>2, <3>1, OneMoreToken
    <3> QED BY <1>1, <2>4, <3>2
  <2>8. output' = [output EXCEPT ![s] = Append(@, t)]
    <3>1. \A r \in Seqs \ {s} : out(r)' = out(r)
      BY <1>1, <2>4
    <3> HIDE DEF out
    <3> QED BY <2>7, <3>1
  <2>9. Ends(s, t) <=> \/ t = EOS /\ ~ request[s].ignore_eos
                       \/ Len(output[s]) + 1 = request[s].max_tokens
    <3>1. output[s] = out(s)
      OBVIOUS
    <3>2. Len(output[s]) = l - p
      BY <2>6, <3>1
    <3>3. l + 1 - p = Len(output[s]) + 1
      <4> HIDE DEF output, out
      <4> QED BY <2>2, <3>2
    <3> HIDE DEF output
    <3> QED BY <3>3 DEF Ends
  <2> DEFINE accepted == {r \in Seqs : status[r] # "NEW"}
             finished == {r \in Seqs : status[r] = "FINISHED"}
  <2>10. /\ s \in accepted \ finished /\ accepted' = accepted
         /\ finished' = IF Ends(s, t) THEN finished \cup {s} ELSE finished
    <3>1. s \in accepted \ finished
      BY <2>1
    <3>2. CASE Ends(s, t)
      <4>1. \A r \in Seqs : status'[r] = IF r = s THEN "FINISHED" ELSE status[r]
        BY <1>1, <1>3, <2>2, <3>2
      <4> QED BY <2>1, <3>1, <3>2, <4>1
    <3>3. CASE ~ Ends(s, t)
      <4>1. status' = status
        BY <1>1, <1>3, <3>3
      <4> QED BY <3>1, <3>3, <4>1
    <3> QED BY <3>2, <3>3
  <2>11. Service!Emit(s, t)
    BY <1>1, <2>8, <2>9, <2>10 DEF Service!Emit, Service!Stops
  <2>12. PromptsKept'
    <3> SUFFICES ASSUME NEW r \in Seqs, status'[r] # "NEW"
                 PROVE  Len(request[r].prompt) <= Len(token_ids'[r])
      BY <1>1 DEF PromptsKept
    <3>1. CASE r = s
      BY <2>2, <2>5, <3>1
    <3>2. CASE r # s
      <4>1. status[r] # "NEW"
        BY <1>1, <1>3, <2>2, <3>2
      <4> QED BY <2>4, <3>2, <4>1 DEF PromptsKept
    <3> QED BY <3>1, <3>2
  <2> QED BY <2>11, <2>12
<1> QED BY <1>2, <1>3

(* So it does under every policy.                                          *)
LEMMA TokenEmitted ==
  ASSUME CoreInv, PromptsKept, NEW t \in Token, PostprocessOne(t)
  PROVE  /\ UNCHANGED Service!serviceVars \/ \E s \in Seqs : Service!Emit(s, t)
         /\ PromptsKept'
<1>1. pc = "post" /\ processed < Len(scheduled_seqs)
  BY DEF PostprocessOne
<1>2. PICK s \in Seqs :
        /\ s = scheduled_seqs[processed + 1]
        /\ ~ IsChunk(s, num_cached_tokens[s] + num_scheduled_tokens[s])
             => status[s] = "RUNNING"
  BY <1>1, NextOfBatch
<1> QED BY <1>2, ReachedEmits DEF CoreInv, Sound, BMInv

(* The engine starts where the service does.                               *)
LEMMA ServiceStarts ==
  ASSUME CoreInit
  PROVE  Service!ServiceInit /\ PromptsKept
<1>1. /\ status = [s \in Seqs |-> "NEW"] /\ token_ids = [s \in Seqs |-> <<>>]
      /\ request \in [Seqs -> Requests]
  BY DEF CoreInit, BMInit
<1>2. \A s \in Seqs : SubSeq(token_ids[s], Len(request[s].prompt) + 1, Len(token_ids[s]))
                        = <<>>
  <2> SUFFICES ASSUME NEW s \in Seqs
               PROVE  SubSeq(token_ids[s], Len(request[s].prompt) + 1, Len(token_ids[s]))
                        = <<>>
    OBVIOUS
  <2>1. request[s].prompt \in Seq(Token)
    BY <1>1, FeasibleAssumption, PromptsAssumption
  <2>2. Len(request[s].prompt) \in Nat /\ token_ids[s] = <<>> /\ Len(token_ids[s]) = 0
        /\ token_ids[s] \in Seq(Token)
    BY <1>1, <2>1, LenProperties
  <2> QED BY <2>2, SubSeqEmpty
<1> QED BY <1>1, <1>2 DEF Service!ServiceInit, PromptsKept
-----------------------------------------------------------------------------

(* The inductive invariant: besides the property itself, what a label      *)
(* promises.  A block that carries one holds the last BlockSize tokens of  *)
(* the prefix it names, whether a sequence holds the block or not, so that *)
(* one which finds it in the index can read it.                            *)
LabelComputed(b) ==
  hash[b] # NoHash =>
    \A o \in 0 .. BlockSize - 1 :
      kv[b][o] = SubSeq(hash[b], 1, Len(hash[b]) - BlockSize + o + 1)

ReadsOwn(s, p) ==
  kv[PrefillSlot(s, p)[1]][PrefillSlot(s, p)[2]] = SubSeq(token_ids[s], 1, p)

PrefixCached(s) == \A p \in 1 .. Computed(s) : ReadsOwn(s, p)

CacheTyped == kv \in [Blocks -> [0 .. BlockSize - 1 -> Seq(Token)]]

CacheInv ==
  /\ CacheTyped
  /\ \A b \in Blocks : LabelComputed(b)
  /\ \A s \in Seqs : PrefixCached(s)

(* The block of a table and the slot in it that hold position p.           *)
LEMMA SlotOf ==
  ASSUME NEW p \in Nat, p > 0
  PROVE  LET i == (p - 1) \div BlockSize + 1
             o == (p - 1) % BlockSize
         IN  /\ i \in Nat /\ i > 0 /\ o \in 0 .. BlockSize - 1
             /\ (i - 1) * BlockSize \in Nat
             /\ p = (i - 1) * BlockSize + o + 1
             /\ i * BlockSize = (i - 1) * BlockSize + BlockSize
             /\ p <= i * BlockSize
<1> DEFINE k == (p - 1) \div BlockSize
           o == (p - 1) % BlockSize
<1>1. BlockSize \in Nat /\ BlockSize > 1 /\ p - 1 \in Nat
  BY BlockSizeAssumption
<1>2. k \in Nat /\ o \in 0 .. BlockSize - 1 /\ p - 1 = k * BlockSize + o
  BY <1>1
<1> HIDE DEF k, o
<1>3. k + 1 \in Nat /\ k + 1 > 0 /\ (k + 1) - 1 = k
  BY <1>2
<1>4. k * BlockSize \in Nat /\ (k + 1) * BlockSize = k * BlockSize + BlockSize
  BY <1>2, TimesBlockSize
<1>5. p = k * BlockSize + o + 1 /\ p <= (k + 1) * BlockSize
  BY <1>1, <1>2, <1>4
<1> QED BY <1>2, <1>3, <1>4, <1>5 DEF k, o

(* The position that lies at offset o of the i-th block.                   *)
LEMMA SlotAt ==
  ASSUME NEW i \in Nat, i > 0, NEW o \in 0 .. BlockSize - 1,
         NEW p, p = (i - 1) * BlockSize + o + 1
  PROVE  /\ p \in Nat /\ p > 0 /\ p <= i * BlockSize
         /\ (p - 1) \div BlockSize + 1 = i /\ (p - 1) % BlockSize = o
<1>1. BlockSize \in Nat /\ BlockSize > 1 /\ o \in Nat /\ o < BlockSize
  BY BlockSizeAssumption
<1>2. PICK k \in Nat : k = i - 1
  OBVIOUS
<1>3. k * BlockSize \in Nat /\ i * BlockSize = k * BlockSize + BlockSize
  BY <1>2, TimesBlockSize
<1>4. p - 1 = k * BlockSize + o /\ p - 1 \in Nat /\ p \in Nat /\ p > 0 /\ p <= i * BlockSize
  BY <1>1, <1>2, <1>3
<1>5. (p - 1) \div BlockSize = k
  BY <1>1, <1>3, <1>4, DivUnique
<1>6. p - 1 = ((p - 1) \div BlockSize) * BlockSize + ((p - 1) % BlockSize)
      /\ (p - 1) % BlockSize \in Nat
  BY <1>1, <1>4
<1>7. (p - 1) % BlockSize = o
  BY <1>1, <1>3, <1>4, <1>5, <1>6
<1> QED BY <1>2, <1>4, <1>5, <1>7

(* Two positions with the same place are one.                              *)
LEMMA SlotInjective ==
  ASSUME NEW p \in Nat, p > 0, NEW q \in Nat, q > 0,
         (p - 1) \div BlockSize + 1 = (q - 1) \div BlockSize + 1,
         (p - 1) % BlockSize = (q - 1) % BlockSize
  PROVE  p = q
BY SlotOf

(* The blocks that n tokens lie in come before the n-th block boundary.    *)
LEMMA SlotInTable ==
  ASSUME NEW p \in Nat, p > 0, NEW n \in Nat, p <= n * BlockSize
  PROVE  (p - 1) \div BlockSize + 1 \in 1 .. n
<1> DEFINE i == (p - 1) \div BlockSize + 1
           o == (p - 1) % BlockSize
<1>1. /\ i \in Nat /\ i > 0 /\ o \in 0 .. BlockSize - 1
      /\ (i - 1) * BlockSize \in Nat /\ p = (i - 1) * BlockSize + o + 1
  BY SlotOf
<1> HIDE DEF i, o
<1>2. PICK k \in Nat : k = i - 1
  BY <1>1
<1>3. ~ (n <= k)
  <2>1. n <= k => n * BlockSize <= k * BlockSize /\ n * BlockSize \in Nat
    BY TimesBlockSize
  <2> QED BY <1>1, <1>2, <2>1
<1>4. i \in 1 .. n
  BY <1>1, <1>2, <1>3
<1> QED BY <1>4 DEF i

(* A prefix of a prefix.                                                   *)
LEMMA PrefixOfPrefix ==
  ASSUME NEW T, NEW q \in Seq(T), NEW n \in 0 .. Len(q), NEW p \in 0 .. n
  PROVE  /\ SubSeq(SubSeq(q, 1, n), 1, p) = SubSeq(q, 1, p)
         /\ SubSeq(q, 1, p) \in Seq(T)
BY LenProperties

(* An appended token leaves the prefixes as they were.                     *)
LEMMA PrefixOfAppend ==
  ASSUME NEW T, NEW q \in Seq(T), NEW t \in T, NEW p \in 0 .. Len(q)
  PROVE  SubSeq(Append(q, t), 1, p) = SubSeq(q, 1, p)
BY LenProperties

(* How much of a sequence is computed.                                     *)
LEMMA ComputedOutside ==
  ASSUME NEW s \in Seqs, pc # "post", num_cached_tokens[s] \in Nat
  PROVE  Computed(s) = num_cached_tokens[s]
BY DEF Computed

(* During postprocess() the batch ahead counts as computed.                *)
LEMMA ComputedInside ==
  ASSUME BMInv, NEW s \in Seqs, pc = "post"
  PROVE  Computed(s) = IF s \in Pending THEN num_cached_tokens[s] + num_scheduled_tokens[s]
                       ELSE num_cached_tokens[s]
<1>1. num_cached_tokens[s] \in Nat
  BY DEF BMInv, BMTypeOK
<1>2. (\E i \in processed + 1 .. Len(scheduled_seqs) : scheduled_seqs[i] = s)
        <=> s \in Pending
  BY DEF Pending
<1> QED BY <1>1, <1>2 DEF Computed

(* A computed position lies in the table.                                  *)
LEMMA CachedInTable ==
  ASSUME BMInv, NEW s \in Seqs, NEW p \in 1 .. num_cached_tokens[s]
  PROVE  /\ p \in Nat /\ p > 0 /\ p <= Len(token_ids[s])
         /\ (p - 1) \div BlockSize + 1 \in DOMAIN block_table[s]
<1>1. /\ num_cached_tokens[s] \in Nat /\ block_table[s] \in Seq(Blocks)
      /\ Len(token_ids[s]) \in Nat
      /\ num_cached_tokens[s] <= Len(token_ids[s])
      /\ num_cached_tokens[s] <= Len(block_table[s]) * BlockSize
  BY DEF BMInv, BMTypeOK, TablesLabelled
<1>2. Len(block_table[s]) \in Nat /\ DOMAIN block_table[s] = 1 .. Len(block_table[s])
  BY <1>1, LenProperties
<1>3. Len(block_table[s]) * BlockSize \in Nat
  BY <1>2, TimesBlockSize
<1>4. p \in Nat /\ p > 0 /\ p <= Len(block_table[s]) * BlockSize /\ p <= Len(token_ids[s])
  BY <1>1, <1>3
<1> QED BY <1>2, <1>4, SlotInTable

(* A position whose block, content and prefix a step leaves alone.         *)
LEMMA ReadsStill ==
  ASSUME NEW s \in Seqs, NEW p, ReadsOwn(s, p), kv' = kv,
         block_table'[s][(p - 1) \div BlockSize + 1] =
           block_table[s][(p - 1) \div BlockSize + 1],
         SubSeq(token_ids'[s], 1, p) = SubSeq(token_ids[s], 1, p)
  PROVE  ReadsOwn(s, p)'
BY DEF ReadsOwn, PrefillSlot

(* A step between two forward passes: labels are only taken away, and what *)
(* a sequence has computed it keeps, loses, or finds in the cache.         *)
LEMMA BetweenPasses ==
  ASSUME BMInv, BMInv', CacheInv, pc # "post", pc' # "post", kv' = kv,
         \A b \in Blocks : hash'[b] = NoHash \/ hash'[b] = hash[b],
         \A s \in Seqs :
           \/ num_cached_tokens'[s] = 0
           \/ /\ num_cached_tokens'[s] = num_cached_tokens[s]
              /\ token_ids'[s] = token_ids[s]
              /\ \A i \in DOMAIN block_table[s] : block_table'[s][i] = block_table[s][i]
           \/ \A p \in 1 .. num_cached_tokens'[s] : ReadsOwn(s, p)'
  PROVE  CacheInv'
<1> USE DEF CacheInv
<1>1. CacheTyped'
  BY DEF CacheTyped
<1>2. ASSUME NEW b \in Blocks PROVE LabelComputed(b)'
  BY DEF LabelComputed
<1>3. ASSUME NEW s \in Seqs PROVE PrefixCached(s)'
  <2>1. num_cached_tokens[s] \in Nat /\ num_cached_tokens'[s] \in Nat
    BY DEF BMInv, BMTypeOK
  <2>2. Computed(s) = num_cached_tokens[s]
    BY <2>1, ComputedOutside
  <2>3. Computed(s)' = num_cached_tokens'[s]
    BY <2>1 DEF Computed
  <2> SUFFICES ASSUME NEW p \in 1 .. num_cached_tokens'[s] PROVE ReadsOwn(s, p)'
    BY <2>3 DEF PrefixCached
  <2>4. CASE num_cached_tokens'[s] = 0
    BY <2>4
  <2>5. CASE /\ num_cached_tokens'[s] = num_cached_tokens[s]
             /\ token_ids'[s] = token_ids[s]
             /\ \A i \in DOMAIN block_table[s] : block_table'[s][i] = block_table[s][i]
    <3>1. ReadsOwn(s, p)
      BY <2>2, <2>5 DEF PrefixCached
    <3>2. (p - 1) \div BlockSize + 1 \in DOMAIN block_table[s]
      BY <2>5, CachedInTable
    <3> QED BY <2>5, <3>1, <3>2, ReadsStill
  <2> QED BY <2>4, <2>5
<1> QED BY <1>1, <1>2, <1>3

(* The step leaves the allocator alone.                                    *)
LEMMA BetweenPassesIdle ==
  ASSUME BMInv, BMInv', CacheInv, pc # "post", pc' # "post", kv' = kv,
         UNCHANGED bmVars
  PROVE  CacheInv'
<1>1. UNCHANGED <<hash, num_cached_tokens, token_ids, block_table>>
  BY DEF bmVars
<1> QED BY <1>1, BetweenPasses

(* An arrival has nothing computed.                                        *)
LEMMA AddRequestCache ==
  ASSUME Sound, BMInv', CacheInv, NEW s \in Seqs, AddRequest(s)
  PROVE  CacheInv'
<1>1. /\ pc = "idle" /\ status[s] = "NEW" /\ pc' = "idle" /\ kv' = kv
      /\ token_ids' = [token_ids EXCEPT ![s] = request[s].prompt]
      /\ UNCHANGED <<num_cached_tokens, block_table, hash>>
  BY DEF AddRequest, stepVars
<1>2. num_cached_tokens'[s] = 0
  <2>1. /\ block_table[s] = <<>> /\ num_cached_tokens[s] \in Nat
        /\ num_cached_tokens[s] <= Len(block_table[s]) * BlockSize
    BY <1>1 DEF Sound, TablesFit, TableFits, BMInv, BMTypeOK, TablesLabelled
  <2>2. Len(block_table[s]) * BlockSize = 0
    BY <2>1, EmptyBatch, BlockSizeAssumption
  <2> QED BY <1>1, <2>1, <2>2
<1>3. \A r \in Seqs : r # s => token_ids'[r] = token_ids[r]
  BY <1>1 DEF Sound, BMInv, BMTypeOK
<1> QED BY <1>1, <1>2, <1>3, BetweenPasses DEF Sound

(* A visit: the blocks found in the index hold the prefix they are labelled*)
(* with, which is the prefix of the sequence.                              *)
LEMMA VisitCache ==
  ASSUME Sound, BMInv', CacheInv, NEW s \in Seqs, status[s] = "WAITING",
         HasBlocks(s), AllocateOnFirstVisit(s), UNCHANGED <<token_ids, kv>>,
         pc = "prefill", pc' # "post"
  PROVE  CacheInv'
<1> USE DEF Sound
<1>1. CASE block_table[s] # <<>>
  <2>1. UNCHANGED bmVars
    BY <1>1 DEF AllocateOnFirstVisit, bmVars
  <2> QED BY <2>1, BetweenPassesIdle
<1>2. CASE block_table[s] = <<>>
  <2> DEFINE k == num_cached_blocks(s)
             cached == CachedIds(s)
             table == cached \o FreshIds(s)
  <2>1. can_allocate(s) /\ allocate(s) /\ token_ids[s] # <<>> /\ token_ids[s] \in Seq(Token)
    BY <1>2 DEF HasBlocks, AllocateOnFirstVisit, TablesFit, TableFits, BMInv, BMTypeOK
  <2>2. /\ block_table' = [block_table EXCEPT ![s] = table]
        /\ num_cached_tokens' = [num_cached_tokens EXCEPT ![s] = k * BlockSize]
        /\ \A b \in Blocks : hash'[b] = NoHash \/ hash'[b] = hash[b]
    BY <2>1 DEF allocate, TakeFresh
  <2>3. /\ table \in Seq(Blocks) /\ Len(table) = num_blocks(s)
        /\ \A i \in 1 .. num_blocks(s) : i <= k => table[i] \in Blocks /\ hash[table[i]] = Chain(s, i)
    <3>1. /\ table \in Seq(Blocks) /\ Len(table) = num_blocks(s)
          /\ \A b \in Range(cached) : b \in Blocks
          /\ \A i \in 1 .. num_blocks(s) : i <= k => table[i] \in Range(cached) /\ hash[table[i]] = Chain(s, i)
      BY <2>1, AllocatedTable, BMParts
    <3> QED BY <3>1
  <2>4. num_blocks(s) \in Nat \ {0} /\ k \in 0 .. num_blocks(s) - 1
    BY <2>1, CachedBlocksHit DEF BMInv
  <2>5. /\ num_cached_tokens'[s] = k * BlockSize /\ block_table'[s] = table
        /\ \A r \in Seqs : r # s => /\ num_cached_tokens'[r] = num_cached_tokens[r]
                                    /\ block_table'[r] = block_table[r]
    BY <2>2 DEF BMInv, BMTypeOK
  <2>6. ASSUME NEW p \in 1 .. k * BlockSize PROVE ReadsOwn(s, p)'
    <3> DEFINE i == (p - 1) \div BlockSize + 1
               o == (p - 1) % BlockSize
               l == Len(token_ids[s])
    <3>1. k \in Nat /\ k * BlockSize \in Nat /\ k < num_blocks(s)
      BY <2>4, TimesBlockSize
    <3>2. p \in Nat /\ p > 0 /\ p <= k * BlockSize
      BY <3>1
    <3>3. i \in 1 .. k
      BY <3>1, <3>2, SlotInTable
    <3>4. /\ i \in Nat /\ i > 0 /\ o \in 0 .. BlockSize - 1
          /\ (i - 1) * BlockSize \in Nat /\ p = (i - 1) * BlockSize + o + 1
          /\ i * BlockSize = (i - 1) * BlockSize + BlockSize /\ p <= i * BlockSize
      BY <3>2, SlotOf
    <3> HIDE DEF i, o
    <3>5. i < num_blocks(s) /\ i * BlockSize <= l
      <4>1. i < num_blocks(s)
        BY <2>4, <3>1, <3>3
      <4> QED BY <3>4, <4>1, BlocksBeforeLast DEF BMInv
    <3>6. table[i] \in Blocks /\ hash[table[i]] = Chain(s, i)
      BY <2>3, <2>4, <3>1, <3>3
    <3>7. Chain(s, i) # NoHash /\ Len(Chain(s, i)) = i * BlockSize
      BY <3>4, <3>5, ChainProperties DEF BMInv
    <3> HIDE DEF table
    <3>8. kv[table[i]][o] = SubSeq(Chain(s, i), 1, i * BlockSize - BlockSize + o + 1)
      BY <3>4, <3>6, <3>7 DEF CacheInv, LabelComputed
    <3>9. i * BlockSize - BlockSize + o + 1 = p
      BY <3>4, BlockSizeAssumption
    <3>10. SubSeq(Chain(s, i), 1, p) = SubSeq(token_ids[s], 1, p)
      <4>1. l \in Nat /\ i * BlockSize \in 0 .. l /\ p \in 0 .. i * BlockSize
        BY <2>1, <3>2, <3>4, <3>5, LenProperties, BlockSizeAssumption
      <4> QED BY <2>1, <4>1, PrefixOfPrefix DEF Chain
    <3>11. kv'[block_table'[s][i]][o] = SubSeq(token_ids'[s], 1, p)
      BY <2>5, <3>8, <3>9, <3>10
    <3> QED BY <3>11 DEF ReadsOwn, PrefillSlot, i, o
  <2> HIDE DEF k, table
  <2> QED BY <2>2, <2>5, <2>6, BetweenPasses
<1> QED BY <1>1, <1>2

(* A visit of the FCFS prefill loop.                                       *)
LEMMA PrefillHeadCache ==
  ASSUME CoreInv, BMInv', CacheInv, PrefillHead
  PROVE  CacheInv'
<1>1. /\ pc = "prefill" /\ waiting # <<>> /\ pc' = "prefill"
      /\ HasBlocks(Head(waiting)) /\ AllocateOnFirstVisit(Head(waiting))
      /\ UNCHANGED <<token_ids, kv>>
  BY DEF PrefillHead, CanPrefillHead, AllocateOnFirstVisit
<1> QED BY <1>1, HeadWaits, VisitCache DEF CoreInv

(* A preempted sequence has nothing computed.                              *)
LEMMA PreemptCache ==
  ASSUME BMInv, BMInv', CacheInv, NEW s \in Seqs, deallocate(s),
         pc # "post", pc' # "post", UNCHANGED <<token_ids, hash, kv>>
  PROVE  CacheInv'
<1>1. /\ num_cached_tokens'[s] = 0
      /\ \A r \in Seqs : r # s => /\ num_cached_tokens'[r] = num_cached_tokens[r]
                                  /\ block_table'[r] = block_table[r]
  BY DeallocateEffect, BMParts
<1> QED BY <1>1, BetweenPasses

(* One of the two preemptions of the decode loop.                          *)
LEMMA DecodePreemptCache ==
  ASSUME CoreInv, BMInv', CacheInv, PreemptNewest \/ PreemptSelf
  PROVE  CacheInv'
<1> DEFINE victim == IF running # <<>> THEN running[Len(running)] ELSE cur
<1>1. /\ pc = "append" /\ pc' \in {"append", "decode"} /\ kv' = kv
      /\ UNCHANGED <<token_ids, hash>> /\ deallocate(victim)
  BY DEF PreemptNewest, PreemptSelf, preempt, stepVars
<1>2. PICK s \in Seqs : s = victim
  <2>1. running # <<>> => running[Len(running)] \in Seqs
    BY Shortened DEF CoreInv, Placed, Last
  <2>2. cur \in Seqs
    BY <1>1 DEF CoreInv, Placed
  <2> QED BY <2>1, <2>2
<1> QED BY <1>1, <1>2, PreemptCache DEF CoreInv, Sound

(* A block appended for the next token.                                    *)
LEMMA AppendCache ==
  ASSUME BMInv, BMInv', CacheInv, NEW s \in Seqs, may_append(s),
         pc # "post", pc' # "post", UNCHANGED <<token_ids, num_cached_tokens, kv>>
  PROVE  CacheInv'
<1>1. block_table[s] \in Seq(Blocks) /\ block_table \in [Seqs -> Seq(Blocks)]
  BY DEF BMInv, BMTypeOK
<1>2. CASE Len(token_ids[s]) % BlockSize = 1
  <2> DEFINE b == Head(free_block_ids)
  <2>1. block_table' = [block_table EXCEPT ![s] = Append(@, b)] /\ TakeFresh({b})
    BY <1>2 DEF may_append
  <2>2. \A c \in Blocks : hash'[c] = NoHash \/ hash'[c] = hash[c]
    BY <2>1 DEF TakeFresh
  <2> HIDE DEF b
  <2>3. \A r \in Seqs : \A i \in DOMAIN block_table[r] : block_table'[r][i] = block_table[r][i]
    <3>1. \A r \in Seqs : r # s => block_table'[r] = block_table[r]
      BY <1>1, <2>1
    <3>2. block_table'[s] = Append(block_table[s], b)
      BY <1>1, <2>1
    <3>3. \A i \in DOMAIN block_table[s] : Append(block_table[s], b)[i] = block_table[s][i]
      BY <1>1
    <3> QED BY <3>1, <3>2, <3>3
  <2> QED BY <2>2, <2>3, BetweenPasses
<1>3. CASE Len(token_ids[s]) % BlockSize # 1
  <2>1. UNCHANGED <<block_table, hash>>
    BY <1>3 DEF may_append
  <2> QED BY <2>1, BetweenPasses
<1> QED BY <1>2, <1>3

(* The forward pass.  A sequence of the batch holds blocks for all its     *)
(* tokens, and its pending ones end where it does, or before.              *)
LEMMA BatchFits ==
  ASSUME CoreInv, pc = "run", NEW s \in Batch
  PROVE  LET c == num_cached_tokens[s]
             n == num_scheduled_tokens[s]
             l == Len(token_ids[s])
         IN  /\ s \in Seqs /\ s \in Pending
             /\ c \in Nat /\ n \in Nat /\ n > 0 /\ l \in Nat /\ c + n <= l
             /\ Len(block_table[s]) = num_blocks(s)
             /\ ~ batch_is_prefill => n = 1 /\ c + 1 = l
<1> USE DEF CoreInv, Sound
<1>1. processed = 0 /\ Pending = Batch /\ s \in Seqs
  BY AllPending DEF BatchPlanned
<1>2. num_scheduled_tokens[s] > 0
  BY <1>1 DEF BatchPlanned
<1>3. /\ num_scheduled_tokens[s] \in Nat /\ num_cached_tokens[s] \in Nat
      /\ Len(token_ids[s]) \in Nat
  BY <1>1, LimitsAssumption DEF Fields, BMInv, BMTypeOK
<1>4. TableFits(s) /\ status[s] \in {"NEW", "WAITING", "RUNNING", "FINISHED"}
  BY <1>1 DEF TablesFit, Fields
<1>5. /\ Len(block_table[s]) = num_blocks(s)
      /\ num_cached_tokens[s] + num_scheduled_tokens[s] <= Len(token_ids[s])
      /\ status[s] = "RUNNING" =>
           num_cached_tokens[s] + num_scheduled_tokens[s] = Len(token_ids[s])
  <2>1. block_table[s] # <<>>
    BY <1>1, <1>2 DEF ScheduledHold
  <2> QED BY <1>2, <1>3, <1>4, <2>1 DEF TableFits
<1>6. ~ batch_is_prefill => num_scheduled_tokens[s] = 1 /\ status[s] = "RUNNING"
  BY <1>1 DEF BatchPlanned, Decoding
<1> QED BY <1>1, <1>2, <1>3, <1>5, <1>6

(* The position a pass computes for a sequence is pending, and is written  *)
(* to its place in the table, by a decode too.                             *)
LEMMA WritesInPlace ==
  ASSUME CoreInv, pc = "run", NEW s \in Batch
  PROVE  /\ Positions(s) = num_cached_tokens[s] + 1 ..
                             num_cached_tokens[s] + num_scheduled_tokens[s]
         /\ \A p \in Positions(s) : Slot(s, p) = PrefillSlot(s, p)
<1> DEFINE c == num_cached_tokens[s]
           n == num_scheduled_tokens[s]
           l == Len(token_ids[s])
<1>1. /\ c \in Nat /\ n \in Nat /\ n > 0 /\ l \in Nat /\ c + n <= l
      /\ Len(block_table[s]) = num_blocks(s)
      /\ ~ batch_is_prefill => n = 1 /\ c + 1 = l
  BY BatchFits
<1>2. CASE batch_is_prefill
  BY <1>2 DEF Positions, Slot
<1>3. CASE ~ batch_is_prefill
  <2>1. n = 1 /\ c + 1 = l /\ l > 0
    BY <1>1, <1>3
  <2>2. Positions(s) = c + 1 .. c + n
    <3>1. Positions(s) = {l}
      BY <1>3 DEF Positions
    <3> HIDE DEF c, n, l
    <3> QED BY <1>1, <2>1, <3>1
  <2>3. Slot(s, l) = PrefillSlot(s, l)
    <3> DEFINE i == (l - 1) \div BlockSize + 1
               o == (l - 1) % BlockSize
               m == num_blocks(s)
    <3>1. /\ i \in Nat /\ i > 0 /\ o \in 0 .. BlockSize - 1
          /\ (i - 1) * BlockSize \in Nat /\ l = (i - 1) * BlockSize + o + 1
      BY <1>1, <2>1, SlotOf
    <3>2. m \in Nat /\ l <= m * BlockSize /\ (m - 1) * BlockSize < l /\ m > 0
      BY <1>1, <2>1, BlocksForBounds DEF num_blocks
    <3>3. i \in 1 .. m
      BY <1>1, <2>1, <3>2, SlotInTable
    <3>4. PrefillSlot(s, l) = <<block_table[s][i], o>>
      BY DEF PrefillSlot
    <3>5. Slot(s, l) = <<block_table[s][m], l - (m - 1) * BlockSize - 1>>
      BY <1>1, <1>3 DEF Slot, DecodeSlot
    <3> HIDE DEF i, o, m, l
    <3>6. i = m
      <4>1. PICK j \in Nat : j = i - 1
        BY <3>1
      <4>2. PICK k \in Nat : k = m - 1
        BY <3>2
      <4>3. ~ (j < k)
        <5>1. j < k => j * BlockSize + BlockSize <= k * BlockSize /\ k * BlockSize \in Nat
          BY TimesBlockSize
        <5> QED BY <1>1, <3>1, <3>2, <4>1, <4>2, <5>1, BlockSizeAssumption
      <4> QED BY <3>1, <3>2, <3>3, <4>1, <4>2, <4>3
    <3>7. l - (m - 1) * BlockSize - 1 = o
      BY <3>1, <3>6
    <3> QED BY <3>4, <3>5, <3>6, <3>7
  <2>4. \A p \in Positions(s) : p = l
    BY <1>3 DEF Positions
  <2> QED BY <2>2, <2>3, <2>4
<1> QED BY <1>2, <1>3

(* What is written goes to blocks that carry no label and that nobody else *)
(* holds.                                                                  *)
LEMMA WritesToOwnBlock ==
  ASSUME CoreInv, pc = "run", NEW s \in Batch, NEW p \in Positions(s)
  PROVE  LET i == (p - 1) \div BlockSize + 1
         IN  /\ p \in Nat /\ p > 0 /\ p > num_cached_tokens[s] /\ p <= Len(token_ids[s])
             /\ i \in DOMAIN block_table[s] /\ block_table[s][i] \in Blocks
             /\ hash[block_table[s][i]] = NoHash
             /\ Holders(block_table[s][i]) = {s}
<1> DEFINE c == num_cached_tokens[s]
           n == num_scheduled_tokens[s]
           l == Len(token_ids[s])
           i == (p - 1) \div BlockSize + 1
           o == (p - 1) % BlockSize
           m == num_blocks(s)
<1>1. /\ s \in Seqs /\ c \in Nat /\ n \in Nat /\ n > 0 /\ l \in Nat /\ c + n <= l
      /\ Len(block_table[s]) = m
  BY BatchFits
<1>2. p \in c + 1 .. c + n
  BY WritesInPlace
<1>3. p \in Nat /\ p > 0 /\ p > c /\ p <= l /\ l > 0
  BY <1>1, <1>2
<1>4. m \in Nat /\ l <= m * BlockSize /\ m * BlockSize \in Nat
  BY <1>1, <1>3, BlocksForBounds, TimesBlockSize DEF num_blocks
<1>5. p <= m * BlockSize
  BY <1>1, <1>3, <1>4
<1>6. i \in 1 .. m
  BY <1>3, <1>4, <1>5, SlotInTable
<1>7. block_table[s] \in Seq(Blocks)
  BY <1>1 DEF CoreInv, Sound, BMInv, BMTypeOK
<1>8. i \in DOMAIN block_table[s] /\ block_table[s][i] \in Blocks
  BY <1>1, <1>6, <1>7, LenProperties
<1>9. ~ (i <= full_blocks(s))
  <2> DEFINE f == full_blocks(s)
  <2>1. f \in Nat /\ f * BlockSize <= c /\ f * BlockSize \in Nat
    BY <1>1, DivBlockSize, TimesBlockSize DEF full_blocks
  <2>2. /\ i \in Nat /\ i > 0 /\ o \in 0 .. BlockSize - 1
        /\ (i - 1) * BlockSize \in Nat /\ p = (i - 1) * BlockSize + o + 1
        /\ i * BlockSize = (i - 1) * BlockSize + BlockSize /\ p <= i * BlockSize
    BY <1>3, SlotOf
  <2> HIDE DEF f, i, o, c
  <2>3. i <= f => i * BlockSize <= f * BlockSize /\ i * BlockSize \in Nat
    BY <2>1, <2>2, TimesBlockSize
  <2>4. ~ (i <= f)
    BY <1>1, <1>3, <2>1, <2>2, <2>3
  <2> QED BY <2>4 DEF f
<1>10. hash[block_table[s][i]] = NoHash /\ Holders(block_table[s][i]) = {s}
  BY <1>1, <1>8, <1>9 DEF CoreInv, Sound, BMInv, TablesLabelled
<1> QED BY <1>3, <1>8, <1>10

(* So a pass never writes a slot that some sequence reads already, and     *)
(* writes each other slot for one sequence and one position only.          *)
LEMMA WrittenOnce ==
  ASSUME CoreInv, pc = "run", NEW w \in Writes
  PROVE  \E s \in Batch : \E p \in Positions(s) :
           /\ w.slot = PrefillSlot(s, p) /\ w.value = SubSeq(token_ids[s], 1, p)
           /\ w.slot[1] \in Blocks /\ hash[w.slot[1]] = NoHash
           /\ w.value \in Seq(Token)
           /\ \A r \in Seqs : \A q \in Nat :
                (/\ q > 0 /\ (q - 1) \div BlockSize + 1 \in DOMAIN block_table[r]
                 /\ PrefillSlot(r, q) = w.slot)
                   => r = s /\ q = p
<1>0. PICK s \in Batch :
        w \in {[slot |-> Slot(s, p), value |-> SubSeq(token_ids[s], 1, p)] : p \in Positions(s)}
  BY DEF Writes
<1>1. PICK p \in Positions(s) :
        w = [slot |-> Slot(s, p), value |-> SubSeq(token_ids[s], 1, p)]
  BY <1>0
<1>2. w.slot = PrefillSlot(s, p) /\ w.value = SubSeq(token_ids[s], 1, p)
  BY <1>1, WritesInPlace
<1> DEFINE i == (p - 1) \div BlockSize + 1
<1>3. /\ p \in Nat /\ p > 0 /\ p <= Len(token_ids[s])
      /\ i \in DOMAIN block_table[s] /\ block_table[s][i] \in Blocks
      /\ hash[block_table[s][i]] = NoHash /\ Holders(block_table[s][i]) = {s}
  BY WritesToOwnBlock
<1>4. w.slot[1] = block_table[s][i] /\ w.slot[2] = (p - 1) % BlockSize
  BY <1>2 DEF PrefillSlot
<1>5. s \in Seqs /\ token_ids[s] \in Seq(Token) /\ Len(token_ids[s]) \in Nat
      /\ IsInjective(block_table[s])
  BY BatchFits DEF CoreInv, Sound, BMInv, BMTypeOK, BlockAccounting
<1>6. w.value \in Seq(Token)
  BY <1>2, <1>3, <1>5, PrefixOfPrefix
<1>7. ASSUME NEW r \in Seqs, NEW q \in Nat, q > 0,
             (q - 1) \div BlockSize + 1 \in DOMAIN block_table[r],
             PrefillSlot(r, q) = w.slot
      PROVE  r = s /\ q = p
  <2> DEFINE j == (q - 1) \div BlockSize + 1
  <2>1. block_table[r][j] = block_table[s][i] /\ (q - 1) % BlockSize = (p - 1) % BlockSize
    BY <1>4, <1>7 DEF PrefillSlot
  <2>2. r \in Holders(block_table[s][i])
    BY <1>7, <2>1 DEF Holders, Range
  <2>3. r = s
    BY <1>3, <2>2
  <2>4. j = i
    BY <1>3, <1>5, <1>7, <2>1, <2>3 DEF IsInjective
  <2> QED BY <1>3, <1>7, <2>1, <2>3, <2>4, SlotInjective
<1> QED BY <1>2, <1>3, <1>4, <1>6, <1>7

(* The forward pass.                                                       *)
LEMMA RunModelCache ==
  ASSUME CoreInv, CacheInv, RunModel
  PROVE  CacheInv'
<1>1. /\ pc = "run" /\ pc' = "post" /\ kv' = KVWritten
      /\ UNCHANGED <<bmVars, seqVars, scheduled_seqs, processed>>
  BY DEF RunModel
<1>2. UNCHANGED <<token_ids, num_cached_tokens, block_table, hash, num_scheduled_tokens>>
  BY <1>1 DEF bmVars, seqVars
<1> DEFINE here(b, o) == {w \in Writes : w.slot = <<b, o>>}
<1>3. \A b \in Blocks : \A o \in 0 .. BlockSize - 1 :
        kv'[b][o] = IF here(b, o) = {} THEN kv[b][o]
                    ELSE (CHOOSE w \in here(b, o) : TRUE).value
  BY <1>1 DEF KVWritten
<1>4. \A b \in Blocks : \A o \in 0 .. BlockSize - 1 :
        \/ here(b, o) = {} /\ kv'[b][o] = kv[b][o]
        \/ \E w \in here(b, o) : kv'[b][o] = w.value
  <2> HIDE DEF here
  <2> QED BY <1>3
<1>5. CacheTyped'
  <2>1. \A b \in Blocks : \A o \in 0 .. BlockSize - 1 : kv'[b][o] \in Seq(Token)
    BY <1>1, <1>4, WrittenOnce DEF CacheInv, CacheTyped
  <2>2. kv' = [b \in Blocks |-> [o \in 0 .. BlockSize - 1 |-> kv'[b][o]]]
    BY <1>1 DEF KVWritten
  <2> QED BY <2>1, <2>2 DEF CacheTyped
<1>6. ASSUME NEW b \in Blocks PROVE LabelComputed(b)'
  <2>1. ASSUME hash[b] # NoHash, NEW o \in 0 .. BlockSize - 1
        PROVE  kv'[b][o] = kv[b][o]
    <3>1. ASSUME NEW w \in here(b, o) PROVE FALSE
      BY <1>1, <2>1, WrittenOnce
    <3> QED BY <1>4, <3>1
  <2> QED BY <1>2, <2>1 DEF CacheInv, LabelComputed
<1>7. ASSUME NEW s \in Seqs PROVE PrefixCached(s)'
  <2> DEFINE c == num_cached_tokens[s]
             n == num_scheduled_tokens[s]
  <2>1. c \in Nat /\ n \in Nat
    BY LimitsAssumption DEF CoreInv, Sound, BMInv, BMTypeOK, Fields
  <2>2. Computed(s)' = IF s \in Batch THEN c + n ELSE c
    <3>1. processed = 0 /\ Pending = Batch
      BY <1>1, AllPending DEF CoreInv, Sound, BatchPlanned
    <3>2. (\E i \in processed + 1 .. Len(scheduled_seqs) : scheduled_seqs[i] = s)
            <=> s \in Batch
      BY <3>1 DEF Pending
    <3> QED BY <1>1, <1>2, <2>1, <3>2 DEF Computed
  <2>3. SUFFICES ASSUME NEW p \in 1 .. Computed(s)' PROVE ReadsOwn(s, p)'
    BY DEF PrefixCached
  <2> DEFINE i == (p - 1) \div BlockSize + 1
             o == (p - 1) % BlockSize
             b == block_table[s][i]
  <2>4. p \in Nat /\ p > 0
    BY <2>1, <2>2
  <2>5. o \in 0 .. BlockSize - 1
    BY <2>4, SlotOf
  <2>6. SUFFICES kv'[b][o] = SubSeq(token_ids[s], 1, p)
    BY <1>2 DEF ReadsOwn, PrefillSlot
  <2>7. PrefillSlot(s, p) = <<b, o>>
    BY DEF PrefillSlot
  <2>8. CASE p \in 1 .. c
    <3>1. i \in DOMAIN block_table[s] /\ b \in Blocks
      <4>1. block_table[s] \in Seq(Blocks)
        BY DEF CoreInv, Sound, BMInv, BMTypeOK
      <4> QED BY <2>8, <4>1, CachedInTable, LenProperties DEF CoreInv, Sound
    <3>2. ASSUME NEW w \in here(b, o) PROVE FALSE
      <4>1. w \in Writes /\ w.slot = PrefillSlot(s, p)
        BY <2>7, <3>2
      <4>2. \E r \in Batch : \E q \in Positions(r) : s = r /\ p = q
        BY <1>1, <2>4, <3>1, <4>1, WrittenOnce
      <4>3. p > c
        BY <1>1, <4>2, WritesToOwnBlock
      <4> QED BY <2>1, <2>8, <4>3
    <3>3. kv'[b][o] = kv[b][o]
      BY <1>4, <2>5, <3>1, <3>2
    <3>4. ReadsOwn(s, p)
      <4>1. Computed(s) = c
        BY <1>1, <2>1, ComputedOutside
      <4> QED BY <2>8, <4>1 DEF CacheInv, PrefixCached
    <3>5. kv[b][o] = SubSeq(token_ids[s], 1, p)
      BY <3>4 DEF ReadsOwn, PrefillSlot
    <3> QED BY <3>3, <3>5
  <2>9. CASE p \notin 1 .. c
    <3>1. s \in Batch /\ p \in Positions(s)
      BY <1>1, <2>1, <2>2, <2>9, WritesInPlace
    <3>2. i \in DOMAIN block_table[s] /\ b \in Blocks
      BY <1>1, <3>1, WritesToOwnBlock
    <3>3. [slot |-> Slot(s, p), value |-> SubSeq(token_ids[s], 1, p)] \in here(b, o)
      BY <1>1, <2>7, <3>1, WritesInPlace DEF Writes
    <3>4. ASSUME NEW w \in here(b, o) PROVE w.value = SubSeq(token_ids[s], 1, p)
      <4>1. w \in Writes /\ w.slot = PrefillSlot(s, p)
        BY <2>7, <3>4
      <4> QED BY <1>1, <2>4, <3>2, <4>1, WrittenOnce
    <3>5. here(b, o) # {}
      BY <3>3
    <3>6. \E w \in here(b, o) : kv'[b][o] = w.value
      BY <1>4, <2>5, <3>2, <3>5
    <3> QED BY <3>4, <3>6
  <2> QED BY <2>8, <2>9
<1> QED BY <1>5, <1>6, <1>7 DEF CacheInv

(* The processing of the results.  The label that hash_blocks gives to a   *)
(* block is the prefix that was just computed into it.                     *)
LEMMA LabelsStay ==
  ASSUME CoreInv, CacheInv, pc = "post", processed < Len(scheduled_seqs),
         NEW s \in Seqs, s = scheduled_seqs[processed + 1],
         hash_blocks(s, num_scheduled_tokens[s]), kv' = kv
  PROVE  \A b \in Blocks : LabelComputed(b)'
<1> USE DEF CoreInv, Sound
<1> DEFINE n == num_scheduled_tokens[s]
           c == num_cached_tokens[s]
           l == Len(token_ids[s])
<1>1. /\ s \in Pending /\ n \in Nat /\ c \in Nat /\ l \in Nat
      /\ IsChunk(s, c + n) => n = 0 \/ (Len(block_table[s]) = num_blocks(s) /\ c + n < l)
      /\ ~ IsChunk(s, c + n) => Len(block_table[s]) = num_blocks(s) /\ c + n = l
  BY NextOfBatch DEF IsChunk
<1>2. CASE n = 0
  <2>1. hash_blocks(s, 0)
    BY <1>2
  <2>2. hash' = hash
    BY <2>1, NothingHashed
  <2> QED BY <2>2 DEF CacheInv, LabelComputed
<1>3. CASE n # 0
  <2>1. CanHash(s, n)
    BY <1>1, <1>3 DEF CanHash
  <2> DEFINE m == (c + n) \div BlockSize
  <2>2. /\ \A b \in Blocks : Holders(b) # {s} => hash'[b] = hash[b]
        /\ \A i \in DOMAIN block_table[s] :
             IF i <= m THEN hash'[block_table[s][i]] = Chain(s, i)
             ELSE hash'[block_table[s][i]] = NoHash
    BY <2>1, HashBlocksEffect, BMParts
  <2>3. Computed(s) = c + n
    BY <1>1, ComputedInside
  <2>4. m \in Nat /\ m * BlockSize <= c + n /\ m * BlockSize \in Nat /\ c + n <= l
    <3>1. c + n \in Nat /\ c + n <= l
      BY <1>1, <1>3
    <3>2. m \in Nat /\ m * BlockSize <= c + n
      BY <3>1, DivBlockSize
    <3> HIDE DEF m, c, n, l
    <3> QED BY <3>1, <3>2, TimesBlockSize
  <2> SUFFICES ASSUME NEW b \in Blocks PROVE LabelComputed(b)'
    OBVIOUS
  <2>5. CASE Holders(b) # {s}
    <3>1. hash'[b] = hash[b]
      BY <2>2, <2>5
    <3> QED BY <3>1 DEF CacheInv, LabelComputed
  <2>6. CASE Holders(b) = {s}
    <3>1. PICK i \in DOMAIN block_table[s] : b = block_table[s][i]
      BY <2>6 DEF Holders, Range
    <3>2. i \in Nat /\ i > 0
      <4>1. block_table[s] \in Seq(Blocks)
        BY DEF BMInv, BMTypeOK
      <4>2. DOMAIN block_table[s] = 1 .. Len(block_table[s])
        BY <4>1, LenProperties
      <4> QED BY <4>2
    <3>3. CASE ~ (i <= m)
      <4>1. hash'[b] = NoHash
        BY <2>2, <3>1, <3>3
      <4> QED BY <4>1 DEF LabelComputed
    <3>4. CASE i <= m
      <4>1. hash'[b] = Chain(s, i)
        BY <2>2, <3>1, <3>4
      <4>2. i * BlockSize \in Nat /\ i * BlockSize <= c + n /\ i * BlockSize <= l
        <5>1. i * BlockSize \in Nat /\ i * BlockSize <= m * BlockSize
          BY <2>4, <3>2, <3>4, TimesBlockSize
        <5> HIDE DEF m, c, n, l
        <5> QED BY <1>1, <2>4, <5>1
      <4>3. Len(Chain(s, i)) = i * BlockSize
        BY <3>2, <4>2, ChainProperties DEF BMInv
      <4>4. ASSUME NEW o \in 0 .. BlockSize - 1
            PROVE  kv[b][o] = SubSeq(Chain(s, i), 1, i * BlockSize - BlockSize + o + 1)
        <5> DEFINE p == (i - 1) * BlockSize + o + 1
        <5>1. /\ p \in Nat /\ p > 0 /\ p <= i * BlockSize
              /\ (p - 1) \div BlockSize + 1 = i /\ (p - 1) % BlockSize = o
          BY <3>2, SlotAt
        <5>2. i * BlockSize - BlockSize + o + 1 = p
          <6>1. PICK k \in Nat : k = i - 1 /\ k + 1 = i
            BY <3>2
          <6>2. i * BlockSize = k * BlockSize + BlockSize /\ k * BlockSize \in Nat
            BY <6>1, TimesBlockSize
          <6> QED BY <6>1, <6>2, BlockSizeAssumption
        <5> HIDE DEF p, c, n, l, m
        <5>3. p \in 1 .. Computed(s)
          BY <1>1, <2>3, <4>2, <5>1
        <5>4. ReadsOwn(s, p)
          BY <5>3 DEF CacheInv, PrefixCached
        <5>5. kv[b][o] = SubSeq(token_ids[s], 1, p)
          BY <3>1, <5>1, <5>4 DEF ReadsOwn, PrefillSlot
        <5>6. SubSeq(Chain(s, i), 1, p) = SubSeq(token_ids[s], 1, p)
          <6>1. token_ids[s] \in Seq(Token) /\ i * BlockSize \in 0 .. Len(token_ids[s])
                /\ p \in 0 .. i * BlockSize
            BY <4>2, <5>1 DEF BMInv, BMTypeOK, l
          <6> QED BY <6>1, PrefixOfPrefix DEF Chain
        <5> QED BY <5>2, <5>5, <5>6
      <4> QED BY <4>1, <4>3, <4>4 DEF LabelComputed
    <3> QED BY <3>3, <3>4
  <2> QED BY <2>5, <2>6
<1> QED BY <1>2, <1>3

(* The rest of the batch is as much computed as before, and the sequence   *)
(* processed keeps what was computed for it, or is released.               *)
LEMMA PostprocessOneCache ==
  ASSUME CoreInv, BMInv', CacheInv, NEW t \in Token, PostprocessOne(t)
  PROVE  CacheInv'
<1> USE DEF CoreInv, Sound
<1>1. pc = "post" /\ pc' = "post" /\ processed < Len(scheduled_seqs)
      /\ processed' = processed + 1 /\ UNCHANGED <<scheduled_seqs, kv>>
  BY DEF PostprocessOne
<1>2. PICK s \in Seqs : s = scheduled_seqs[processed + 1]
  BY <1>1, NextOfBatch
<1> DEFINE n == num_scheduled_tokens[s]
           c == num_cached_tokens[s]
           l == Len(token_ids[s])
<1>3. /\ hash_blocks(s, n)
      /\ num_scheduled_tokens' = [num_scheduled_tokens EXCEPT ![s] = 0]
      /\ \/ /\ token_ids' = token_ids \/ token_ids' = [token_ids EXCEPT ![s] = Append(@, t)]
            /\ num_cached_tokens' = [num_cached_tokens EXCEPT ![s] = c + n]
            /\ block_table' = block_table
         \/ /\ token_ids' = [token_ids EXCEPT ![s] = Append(@, t)]
            /\ deallocate(s)
  BY <1>2 DEF PostprocessOne
<1>4. /\ s \in Pending /\ n \in Nat /\ c \in Nat /\ l \in Nat /\ c + n <= l
  <2>1. /\ s \in Pending /\ n \in Nat /\ c \in Nat /\ l \in Nat
        /\ ~ IsChunk(s, c + n) => c + n = l
    BY <1>1, <1>2, NextOfBatch
  <2>2. IsChunk(s, c + n) => c + n < l
    BY DEF IsChunk
  <2> QED BY <2>1, <2>2
<1>5. /\ token_ids \in [Seqs -> Seq(Token)] /\ num_cached_tokens \in [Seqs -> Nat]
      /\ num_scheduled_tokens \in [Seqs -> 0 .. MaxBatchedTokens]
      /\ processed \in Nat /\ Len(scheduled_seqs) \in Nat
  BY LenProperties DEF BMInv, BMTypeOK, Fields
<1>6. /\ \A r \in Seqs : num_scheduled_tokens'[r] = IF r = s THEN 0 ELSE num_scheduled_tokens[r]
      /\ \A r \in Seqs : r # s => /\ token_ids'[r] = token_ids[r]
                                  /\ num_cached_tokens'[r] = num_cached_tokens[r]
                                  /\ block_table'[r] = block_table[r]
      /\ \/ /\ token_ids'[s] = token_ids[s] \/ token_ids'[s] = Append(token_ids[s], t)
            /\ num_cached_tokens'[s] = c + n
            /\ block_table'[s] = block_table[s]
         \/ num_cached_tokens'[s] = 0
  <2>1. deallocate(s) =>
          /\ num_cached_tokens'[s] = 0
          /\ \A r \in Seqs : r # s => /\ num_cached_tokens'[r] = num_cached_tokens[r]
                                      /\ block_table'[r] = block_table[r]
    BY DeallocateEffect, BMParts
  <2> QED BY <1>3, <1>5, <2>1
<1>7. \A b \in Blocks : LabelComputed(b)'
  BY <1>1, <1>2, <1>3, LabelsStay
<1>8. \A r \in Seqs : r # s => (r \in Pending' <=> r \in Pending)
  <2>1. Pending' = {scheduled_seqs[i] : i \in processed + 2 .. Len(scheduled_seqs)}
    <3>1. processed' + 1 = processed + 2
      BY <1>1, <1>5
    <3> QED BY <1>1, <3>1 DEF Pending
  <2>2. processed + 1 .. Len(scheduled_seqs) =
          {processed + 1} \cup (processed + 2 .. Len(scheduled_seqs))
    BY <1>1, <1>5
  <2> QED BY <1>2, <2>1, <2>2 DEF Pending
<1>9. ASSUME NEW r \in Seqs PROVE PrefixCached(r)'
  <2>1. Computed(r) = IF r \in Pending THEN num_cached_tokens[r] + num_scheduled_tokens[r]
                      ELSE num_cached_tokens[r]
    BY <1>1, ComputedInside
  <2>2. Computed(r)' = IF r \in Pending' THEN num_cached_tokens'[r] + num_scheduled_tokens'[r]
                       ELSE num_cached_tokens'[r]
    <3>1. (\E i \in processed' + 1 .. Len(scheduled_seqs') : scheduled_seqs'[i] = r)
            <=> r \in Pending'
      BY DEF Pending
    <3>2. num_cached_tokens'[r] \in Nat
      BY DEF BMInv, BMTypeOK
    <3> QED BY <1>1, <3>1, <3>2 DEF Computed
  <2> SUFFICES ASSUME NEW p \in 1 .. Computed(r)' PROVE ReadsOwn(r, p)'
    BY DEF PrefixCached
  <2>3. CASE r # s
    <3>1. Computed(r)' = Computed(r)
      BY <1>6, <1>8, <2>1, <2>2, <2>3
    <3>2. ReadsOwn(r, p)
      BY <3>1 DEF CacheInv, PrefixCached
    <3> QED BY <1>1, <1>6, <2>3, <3>2, ReadsStill
  <2>4. CASE r = s
    <3>1. num_cached_tokens'[s] \in Nat /\ num_scheduled_tokens'[s] = 0
      BY <1>6 DEF BMInv, BMTypeOK
    <3>2. Computed(s)' = num_cached_tokens'[s] /\ Computed(s) = c + n
      BY <1>4, <2>1, <2>2, <2>4, <3>1
    <3>3. CASE num_cached_tokens'[s] = 0
      BY <2>4, <3>2, <3>3
    <3>4. CASE /\ token_ids'[s] = token_ids[s] \/ token_ids'[s] = Append(token_ids[s], t)
               /\ num_cached_tokens'[s] = c + n
               /\ block_table'[s] = block_table[s]
      <4>1. p \in 1 .. c + n
        BY <2>4, <3>2, <3>4
      <4>2. ReadsOwn(s, p)
        BY <3>2, <4>1 DEF CacheInv, PrefixCached
      <4>3. SubSeq(token_ids'[s], 1, p) = SubSeq(token_ids[s], 1, p)
        <5>1. token_ids[s] \in Seq(Token) /\ p \in 0 .. Len(token_ids[s])
          BY <1>4, <1>5, <4>1
        <5> QED BY <3>4, <5>1, PrefixOfAppend
      <4> QED BY <1>1, <2>4, <3>4, <4>2, <4>3, ReadsStill
    <3> QED BY <1>6, <3>3, <3>4
  <2> QED BY <2>3, <2>4
<1>10. CacheTyped'
  BY <1>1 DEF CacheInv, CacheTyped
<1> QED BY <1>7, <1>9, <1>10 DEF CacheInv

(* The end of a step.                                                      *)
LEMMA EndStepCache ==
  ASSUME CoreInv, BMInv', CacheInv, EndStep
  PROVE  CacheInv'
<1>1. /\ pc = "post" /\ pc' = "idle" /\ processed = Len(scheduled_seqs)
      /\ UNCHANGED <<token_ids, num_cached_tokens, block_table, hash, kv>>
  BY DEF EndStep, bmVars
<1>2. ASSUME NEW s \in Seqs PROVE PrefixCached(s)'
  <2>1. num_cached_tokens[s] \in Nat /\ Len(scheduled_seqs) \in Nat
    BY LenProperties DEF CoreInv, Sound, BMInv, BMTypeOK, Fields
  <2>2. Computed(s) = num_cached_tokens[s]
    <3>1. Pending = {}
      BY <1>1, <2>1 DEF Pending
    <3> QED BY <1>1, <3>1, ComputedInside DEF CoreInv, Sound
  <2>3. Computed(s)' = num_cached_tokens[s]
    BY <1>1, <2>1 DEF Computed
  <2> QED BY <1>1, <2>2, <2>3, ReadsStill DEF CacheInv, PrefixCached
<1>3. CacheTyped' /\ \A b \in Blocks : LabelComputed(b)'
  BY <1>1 DEF CacheInv, CacheTyped, LabelComputed
<1> QED BY <1>2, <1>3 DEF CacheInv

(* The starts and the ends of the loops.                                   *)
LEMMA LoopEndCache ==
  ASSUME BMInv, BMInv', CacheInv,
         \/ StartStep("prefill") \/ StartStep("decode")
         \/ EndPrefill("decode") \/ EndPrefill("raised")
         \/ EndDecode("raised") \/ EndDecode("prefill") \/ PopRunning
  PROVE  CacheInv'
<1>1. pc # "post" /\ pc' # "post" /\ kv' = kv /\ UNCHANGED bmVars
  BY DEF StartStep, EndPrefill, EndDecode, PopRunning
<1> QED BY <1>1, BetweenPassesIdle

(* The steps that policies share.                                          *)
LEMMA CoreStepCache ==
  ASSUME CoreInv, BMInv', CacheInv, DecodePhase \/ RunAndPostprocess
  PROVE  CacheInv'
<1> USE DEF CoreInv, Sound
<1>1. CASE DecodeCur
  <2>1. /\ pc = "append" /\ pc' = "decode" /\ may_append(cur) /\ cur \in Seqs
        /\ UNCHANGED <<token_ids, num_cached_tokens, kv>>
    BY <1>1 DEF DecodeCur, Placed
  <2> QED BY <2>1, AppendCache
<1>2. CASE PopRunning \/ PreemptNewest \/ PreemptSelf
  BY <1>2, LoopEndCache, DecodePreemptCache
<1>3. CASE RunAndPostprocess
  BY <1>3, RunModelCache, PostprocessOneCache, EndStepCache DEF RunAndPostprocess
<1> QED BY <1>1, <1>2, <1>3 DEF DecodePhase

(* A step that changes nothing.                                            *)
LEMMA StutterCache ==
  ASSUME CacheInv, UNCHANGED vars
  PROVE  CacheInv'
<1>1. UNCHANGED <<bmVars, stepVars, seqVars, kv>>
  BY DEF vars
<1> QED BY <1>1 DEF CacheInv, CacheTyped, LabelComputed, PrefixCached, ReadsOwn,
                   PrefillSlot, Computed, bmVars, stepVars, seqVars

(* The start of the engine.                                                *)
LEMMA CacheInit == CoreInit => CacheInv
<1> SUFFICES ASSUME CoreInit PROVE CacheInv
  OBVIOUS
<1>1. CacheTyped
  BY EmptyBatch DEF CoreInit, CacheTyped
<1>2. \A b \in Blocks : LabelComputed(b)
  BY DEF CoreInit, BMInit, LabelComputed
<1>3. ASSUME NEW s \in Seqs PROVE PrefixCached(s)
  <2>1. Computed(s) = 0
    BY DEF CoreInit, BMInit, Computed
  <2> QED BY <2>1 DEF PrefixCached
<1> QED BY <1>1, <1>2, <1>3 DEF CacheInv

(* What the theorems say of the cache, and of the types of the variables.  *)
LEMMA CacheMatches == CacheInv => KVMatchesPrefix
BY DEF CacheInv, PrefixCached, ReadsOwn, KVMatchesPrefix

(* The types follow from the two invariants.                               *)
LEMMA EngineTyped == EngineInv /\ CacheInv => SchedulerTypeOK
BY DEF EngineInv, CoreInv, Sound, Exact, BMInv, Fields, Placed, CacheInv, CacheTyped,
       SchedulerTypeOK
=============================================================================
