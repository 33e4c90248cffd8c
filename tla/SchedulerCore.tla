--------------------------- MODULE SchedulerCore ----------------------------
(***************************************************************************)
(* What every scheduling policy of scheduler/ shares: the fields of a      *)
(* Sequence that scheduling uses, the two deques, preempt(), postprocess() *)
(* and the step of LLMEngine around them:                                  *)
(*                                                                         *)
(*    schedule() -> model_runner.call("run") -> postprocess()              *)
(*                                                                         *)
(* The engine step runs in an executor thread while other threads read     *)
(* the scheduler, so each iteration of the loops of schedule() and of      *)
(* postprocess() is an action of its own and pc is the place reached.      *)
(* A policy module adds its schedule().                                    *)
(*                                                                         *)
(* The forward pass is modelled by what it does to the KV cache: which     *)
(* slots prepare_prefill and prepare_decode make it write.  The value in a *)
(* slot is the prefix it was computed from.                                *)
(***************************************************************************)
EXTENDS BlockManager

CONSTANTS
  EOS,              (* config.eos                                          *)
  Requests,         (* [prompt, max_tokens, ignore_eos] of a client        *)
  MaxNumSeqs,       (* max_num_seqs                                        *)
  MaxBatchedTokens  (* max_num_batched_tokens                              *)

(* Sequence.counter hands out identities in order.                         *)
ASSUME SeqIdsAssumption == Seqs = 1 .. Cardinality(Seqs)
ASSUME LimitsAssumption ==
  MaxNumSeqs \in Nat \ {0} /\ MaxBatchedTokens \in Nat \ {0}
(* The longest table a request can need; no code checks it.                *)
ASSUME FeasibleAssumption ==
  \A r \in Requests :
    /\ r.prompt \in Prompts
    /\ r.max_tokens \in Nat \ {0}
    /\ BlocksFor(Len(r.prompt) + r.max_tokens - 1) <= NumBlocks
    /\ Len(r.prompt) + r.max_tokens <= MaxLen

VARIABLES
  request,              (* the request a sequence was made from            *)
  status,               (* Sequence.status, "NEW" before it is created     *)
  is_prefill,           (* Sequence.is_prefill                             *)
  num_scheduled_tokens, (* Sequence.num_scheduled_tokens                   *)
  waiting,              (* the deque of sequences awaiting prefill         *)
  running,              (* the deque of sequences in decode                *)
  pc,                   (* the place the engine step has reached           *)
  scheduled_seqs,       (* the batch                                       *)
  num_batched_tokens,   (* the tokens of the batch, in a prefill           *)
  batch_is_prefill,     (* the flag schedule() returns with the batch      *)
  cur,                  (* the sequence popped from running, 0 for none    *)
  processed,            (* how much of the batch postprocess has done      *)
  kv                    (* kv[b][o]: the prefix computed into slot o of b  *)

queueVars == <<waiting, running>>
stepVars  == <<pc, scheduled_seqs, num_batched_tokens, batch_is_prefill, cur,
               processed>>
seqVars   == <<request, status, is_prefill, num_scheduled_tokens>>
vars      == <<bmVars, queueVars, stepVars, seqVars, kv>>

NoSeq == 0
Smaller(a, b) == IF a <= b THEN a ELSE b

CoreInit ==
  /\ BMInit
  /\ request \in [Seqs -> Requests]
  /\ status = [s \in Seqs |-> "NEW"]
  /\ is_prefill = [s \in Seqs |-> TRUE]
  /\ num_scheduled_tokens = [s \in Seqs |-> 0]
  /\ waiting = <<>>
  /\ running = <<>>
  /\ pc = "idle"
  /\ scheduled_seqs = <<>>
  /\ num_batched_tokens = 0
  /\ batch_is_prefill = FALSE
  /\ cur = NoSeq
  /\ processed = 0
  /\ kv = [b \in Blocks |-> [o \in 0 .. BlockSize - 1 |-> <<>>]]

-----------------------------------------------------------------------------
(* LLMEngine.add_request: requests enter between two engine steps.         *)
AddRequest(s) ==
  /\ pc = "idle"
  /\ status[s] = "NEW"
  /\ \A r \in Seqs : r < s => status[r] # "NEW"
  /\ token_ids' = [token_ids EXCEPT ![s] = request[s].prompt]
  /\ status' = [status EXCEPT ![s] = "WAITING"]
  /\ waiting' = Append(waiting, s)
  /\ UNCHANGED <<num_cached_tokens, block_table, ref_count, hash,
                 hash_to_block_id, free_block_ids, used_block_ids, request,
                 is_prefill, num_scheduled_tokens, running, stepVars, kv>>

(* step() is called while is_finished() is false.                          *)
StartStep(phase) ==
  /\ pc = "idle"
  /\ waiting # <<>> \/ running # <<>>
  /\ pc' = phase
  /\ UNCHANGED <<bmVars, queueVars, seqVars, kv, scheduled_seqs,
                 num_batched_tokens, batch_is_prefill, cur, processed>>

-----------------------------------------------------------------------------
(* Mutant of remaining: a batch may exceed the budget by a token.          *)
remaining_one_over == MaxBatchedTokens - num_batched_tokens + 1

(* The prefill loop of schedule().                                         *)
remaining == MaxBatchedTokens - num_batched_tokens

(* Tokens left to compute, after the prefix cache if it has no table yet.  *)
num_tokens(s) ==
  Len(token_ids[s]) - IF block_table[s] = <<>>
                      THEN num_cached_blocks(s) * BlockSize
                      ELSE num_cached_tokens[s]

(* Mutant of HasBlocks: a sequence with a table is asked to allocate too.   *)
HasBlocks_anew(s) == can_allocate(s)

HasBlocks(s) == block_table[s] # <<>> \/ can_allocate(s)

(* Mutant of CanPrefillHead: the batch may hold any number of sequences.   *)
CanPrefillHead_unlimited ==
  /\ waiting # <<>>
  /\ remaining # 0
  /\ HasBlocks(Head(waiting))
  /\ remaining < num_tokens(Head(waiting)) => scheduled_seqs = <<>>

(* Only the first sequence of a batch may be prefilled in part.            *)
CanPrefillHead ==
  /\ waiting # <<>>
  /\ Len(scheduled_seqs) < MaxNumSeqs
  /\ remaining # 0
  /\ HasBlocks(Head(waiting))
  /\ remaining < num_tokens(Head(waiting)) => scheduled_seqs = <<>>

(* A sequence prefilled in part holds its blocks already.                  *)
AllocateOnFirstVisit(s) ==
  IF block_table[s] = <<>> THEN allocate(s)
  ELSE UNCHANGED <<num_cached_tokens, block_table, ref_count, hash,
                   hash_to_block_id, free_block_ids, used_block_ids>>

PrefillHead ==
  LET s == Head(waiting)
      n == Smaller(num_tokens(s), remaining)
  IN  /\ pc = "prefill"
      /\ CanPrefillHead
      /\ AllocateOnFirstVisit(s)
      /\ num_scheduled_tokens' = [num_scheduled_tokens EXCEPT ![s] = n]
      /\ num_batched_tokens' = num_batched_tokens + n
      /\ IF n = num_tokens(s)
         THEN /\ status' = [status EXCEPT ![s] = "RUNNING"]
              /\ waiting' = Tail(waiting)
              /\ running' = Append(running, s)
         ELSE UNCHANGED <<status, queueVars>>
      /\ scheduled_seqs' = Append(scheduled_seqs, s)
      /\ UNCHANGED <<token_ids, request, is_prefill, pc, batch_is_prefill, cur,
                     processed, kv>>

(* The loop ends; otherwise is where schedule() goes with an empty batch.  *)
EndPrefill(otherwise) ==
  /\ pc = "prefill"
  /\ ~ CanPrefillHead
  /\ pc' = IF scheduled_seqs # <<>> THEN "run" ELSE otherwise
  /\ batch_is_prefill' = TRUE
  /\ UNCHANGED <<bmVars, queueVars, seqVars, kv, scheduled_seqs,
                 num_batched_tokens, cur, processed>>

-----------------------------------------------------------------------------
(* The decode loop of schedule(): pop the oldest running sequence, preempt *)
(* the newest ones until a block is free for its next token, and preempt   *)
(* the popped one itself when no other is left.                            *)
CanDecode == running # <<>> /\ Len(scheduled_seqs) < MaxNumSeqs

PopRunning ==
  /\ pc = "decode"
  /\ CanDecode
  /\ cur' = Head(running)
  /\ running' = Tail(running)
  /\ pc' = "append"
  /\ UNCHANGED <<bmVars, seqVars, waiting, scheduled_seqs, num_batched_tokens,
                 batch_is_prefill, processed, kv>>

(* Mutant of preempt: the sequence is still marked as decoding.            *)
preempt_decoding(s) ==
  /\ status' = [status EXCEPT ![s] = "WAITING"]
  /\ UNCHANGED is_prefill
  /\ deallocate(s)
  /\ waiting' = <<s>> \o waiting

(* Mutant of preempt: the sequence queues behind the new requests.         *)
preempt_to_back(s) ==
  /\ status' = [status EXCEPT ![s] = "WAITING"]
  /\ is_prefill' = [is_prefill EXCEPT ![s] = TRUE]
  /\ deallocate(s)
  /\ waiting' = Append(waiting, s)

(* preempt(): the sequence keeps its tokens, loses its blocks and becomes  *)
(* the first one to be prefilled again.                                    *)
preempt(s) ==
  /\ status' = [status EXCEPT ![s] = "WAITING"]
  /\ is_prefill' = [is_prefill EXCEPT ![s] = TRUE]
  /\ deallocate(s)
  /\ waiting' = <<s>> \o waiting

PreemptNewest ==
  /\ pc = "append"
  /\ ~ can_append(cur)
  /\ running # <<>>
  /\ preempt(running[Len(running)])
  /\ running' = SubSeq(running, 1, Len(running) - 1)
  /\ UNCHANGED <<token_ids, hash, hash_to_block_id, request,
                 num_scheduled_tokens, stepVars, kv>>

(* Mutant of PreemptSelf: it does not wait until no other is left.         *)
PreemptSelf_first ==
  /\ pc = "append"
  /\ ~ can_append(cur)
  /\ preempt(cur)
  /\ cur' = NoSeq
  /\ pc' = "decode"
  /\ UNCHANGED <<token_ids, hash, hash_to_block_id, request,
                 num_scheduled_tokens, running, scheduled_seqs,
                 num_batched_tokens, batch_is_prefill, processed, kv>>

PreemptSelf ==
  /\ pc = "append"
  /\ ~ can_append(cur)
  /\ running = <<>>
  /\ preempt(cur)
  /\ cur' = NoSeq
  /\ pc' = "decode"
  /\ UNCHANGED <<token_ids, hash, hash_to_block_id, request,
                 num_scheduled_tokens, running, scheduled_seqs,
                 num_batched_tokens, batch_is_prefill, processed, kv>>

DecodeCur ==
  /\ pc = "append"
  /\ can_append(cur)
  /\ num_scheduled_tokens' = [num_scheduled_tokens EXCEPT ![cur] = 1]
  /\ is_prefill' = [is_prefill EXCEPT ![cur] = FALSE]
  /\ may_append(cur)
  /\ scheduled_seqs' = Append(scheduled_seqs, cur)
  /\ cur' = NoSeq
  /\ pc' = "decode"
  /\ UNCHANGED <<token_ids, num_cached_tokens, request, status, queueVars,
                 num_batched_tokens, batch_is_prefill, processed, kv>>

(* Mutant of Requeued: the batch replaces the deque.                       *)
Requeued_replacing == scheduled_seqs

(* running.extendleft(reversed(scheduled_seqs))                            *)
Requeued == scheduled_seqs \o running

(* The loop ends; the batch goes back to the front of running in order.    *)
EndDecode(otherwise) ==
  /\ pc = "decode"
  /\ ~ CanDecode
  /\ running' = Requeued
  /\ pc' = IF scheduled_seqs # <<>> THEN "run" ELSE otherwise
  /\ batch_is_prefill' = FALSE
  /\ UNCHANGED <<bmVars, seqVars, waiting, kv, scheduled_seqs,
                 num_batched_tokens, cur, processed>>

DecodePhase == PopRunning \/ PreemptNewest \/ PreemptSelf \/ DecodeCur

-----------------------------------------------------------------------------
(* The forward pass: position p of a sequence (from 1) is written into the *)
(* slot its table gives; a decode writes the last position, through the    *)
(* last block of the table.                                                *)
PrefillSlot(s, p) == <<block_table[s][(p - 1) \div BlockSize + 1], (p - 1) % BlockSize>>

(* Mutant of DecodeSlot: the slot after the last token.                    *)
DecodeSlot_next(s) ==
  <<block_table[s][Len(block_table[s])],
    Len(token_ids[s]) - (num_blocks(s) - 1) * BlockSize>>

DecodeSlot(s) ==
  <<block_table[s][Len(block_table[s])],
    Len(token_ids[s]) - (num_blocks(s) - 1) * BlockSize - 1>>

Positions(s) ==
  IF batch_is_prefill
  THEN num_cached_tokens[s] + 1 .. num_cached_tokens[s] + num_scheduled_tokens[s]
  ELSE {Len(token_ids[s])}

Slot(s, p) == IF batch_is_prefill THEN PrefillSlot(s, p) ELSE DecodeSlot(s)

Batch == Range(scheduled_seqs)

Writes ==
  UNION {{[slot |-> Slot(s, p), value |-> SubSeq(token_ids[s], 1, p)]
            : p \in Positions(s)} : s \in Batch}

(* Were two different writes to meet in a slot, one of the two sequences   *)
(* would read the other's: KVMatchesPrefix fails whichever comes last.     *)
KVWritten ==
  [b \in Blocks |-> [o \in 0 .. BlockSize - 1 |->
     LET here == {w \in Writes : w.slot = <<b, o>>}
     IN  IF here = {} THEN kv[b][o] ELSE (CHOOSE w \in here : TRUE).value]]

RunModel ==
  /\ pc = "run"
  /\ kv' = KVWritten
  /\ pc' = "post"
  /\ UNCHANGED <<bmVars, queueVars, seqVars, scheduled_seqs,
                 num_batched_tokens, batch_is_prefill, cur, processed>>

-----------------------------------------------------------------------------
(* Mutant of Ends: max_tokens is compared before the token is counted.     *)
Ends_one_late(s, t) ==
  \/ ~ request[s].ignore_eos /\ t = EOS
  \/ Len(token_ids[s]) - Len(request[s].prompt) = request[s].max_tokens

(* The termination test, on the sampled token t.                           *)
Ends(s, t) ==
  \/ ~ request[s].ignore_eos /\ t = EOS
  \/ Len(token_ids[s]) + 1 - Len(request[s].prompt) = request[s].max_tokens

(* Mutant of IsChunk: a chunk of a prefill gains a token as well.          *)
IsChunk_never(s, cached) == FALSE

(* The prompt is not fully processed yet.                                  *)
IsChunk(s, cached) == batch_is_prefill /\ cached < Len(token_ids[s])

(* One iteration of postprocess(): label the blocks that got full; a       *)
(* sequence with no pending token left gains the sampled token t, and is   *)
(* released when t ends it.                                                *)
PostprocessOne(t) ==
  LET s == scheduled_seqs[processed + 1]
      n == num_scheduled_tokens[s]
      cached == num_cached_tokens[s] + n
      advance == num_cached_tokens' = [num_cached_tokens EXCEPT ![s] = cached]
  IN  /\ pc = "post"
      /\ processed < Len(scheduled_seqs)
      /\ hash_blocks(s, n)
      /\ num_scheduled_tokens' = [num_scheduled_tokens EXCEPT ![s] = 0]
      /\ processed' = processed + 1
      /\ \/ /\ IsChunk(s, cached)
            /\ advance
            /\ UNCHANGED <<token_ids, status, running, block_table, ref_count,
                           free_block_ids, used_block_ids>>
         \/ /\ ~ IsChunk(s, cached)
            /\ token_ids' = [token_ids EXCEPT ![s] = Append(@, t)]
            /\ IF Ends(s, t)
               THEN /\ status' = [status EXCEPT ![s] = "FINISHED"]
                    /\ deallocate(s)
                    /\ running' = Without(running, {s})
               ELSE /\ advance
                    /\ UNCHANGED <<status, running, block_table, ref_count,
                                   free_block_ids, used_block_ids>>
      /\ UNCHANGED <<request, is_prefill, waiting, pc, scheduled_seqs,
                     num_batched_tokens, batch_is_prefill, cur, kv>>

EndStep ==
  /\ pc = "post"
  /\ processed = Len(scheduled_seqs)
  /\ pc' = "idle"
  /\ scheduled_seqs' = <<>>
  /\ num_batched_tokens' = 0
  /\ processed' = 0
  /\ UNCHANGED <<bmVars, queueVars, seqVars, kv, batch_is_prefill, cur>>

RunAndPostprocess == RunModel \/ (\E t \in Token : PostprocessOne(t)) \/ EndStep

-----------------------------------------------------------------------------
SchedulerTypeOK ==
  /\ BMTypeOK
  /\ request \in [Seqs -> Requests]
  /\ status \in [Seqs -> {"NEW", "WAITING", "RUNNING", "FINISHED"}]
  /\ is_prefill \in [Seqs -> BOOLEAN]
  /\ num_scheduled_tokens \in [Seqs -> 0 .. MaxBatchedTokens]
  /\ waiting \in Seq(Seqs)
  /\ running \in Seq(Seqs)
  /\ pc \in {"idle", "prefill", "decode", "append", "run", "post", "raised"}
  /\ scheduled_seqs \in Seq(Seqs)
  /\ num_batched_tokens \in 0 .. MaxBatchedTokens
  /\ batch_is_prefill \in BOOLEAN
  /\ cur \in Seqs \cup {NoSeq}
  /\ processed \in 0 .. Len(scheduled_seqs)
  /\ kv \in [Blocks -> [0 .. BlockSize - 1 -> Seq(Token)]]

(* Computed tokens: those postprocess has counted, and those the forward   *)
(* pass has just written for a sequence postprocess has not reached.       *)
Computed(s) ==
  num_cached_tokens[s] +
    IF pc = "post" /\ \E i \in processed + 1 .. Len(scheduled_seqs) :
                        scheduled_seqs[i] = s
    THEN num_scheduled_tokens[s] ELSE 0

(* Read through its table, the KV cache of a sequence holds, position by   *)
(* position, what its own prefix produces.  Attention never reads another  *)
(* sequence's tokens, however blocks were shared, evicted, reused and      *)
(* recomputed.                                                             *)
KVMatchesPrefix ==
  \A s \in Seqs : \A p \in 1 .. Computed(s) :
    LET slot == PrefillSlot(s, p)
    IN  kv[slot[1]][slot[2]] = SubSeq(token_ids[s], 1, p)

(* Where a sequence is during a step: the decode loop holds cur and the    *)
(* sequences it has accepted outside of both deques.                       *)
InDecodeLoop == pc \in {"decode", "append"}
Held ==
  (IF InDecodeLoop THEN scheduled_seqs ELSE <<>>) \o
  (IF cur # NoSeq THEN <<cur>> ELSE <<>>) \o running \o waiting

(* No request is lost or duplicated by scheduling, preemption or           *)
(* completion: each unfinished one is in exactly one place.                *)
NoRequestLost ==
  /\ IsInjective(Held)
  /\ Range(Held) = {s \in Seqs : status[s] \in {"WAITING", "RUNNING"}}
  /\ \A s \in Seqs : s \in Range(waiting) <=> status[s] = "WAITING"

(* The tokens scheduled for the sequences of q add up to n: upto[i] is     *)
(* what the first i of them take.                                          *)
AddsUpTo(q, n) ==
  \E upto \in [0 .. Len(q) -> 0 .. n] :
    /\ upto[0] = 0 /\ upto[Len(q)] = n
    /\ \A i \in 1 .. Len(q) : upto[i] = upto[i - 1] + num_scheduled_tokens[q[i]]

(* A batch keeps to the limits the KV cache, the CUDA graphs and the       *)
(* warm-up run were sized for, and holds a sequence once.                  *)
BatchWithinLimits ==
  /\ Len(scheduled_seqs) <= MaxNumSeqs
  /\ IsInjective(scheduled_seqs)
  /\ pc = "run" =>
       (IF batch_is_prefill THEN AddsUpTo(scheduled_seqs, num_batched_tokens)
        ELSE \A s \in Batch : num_scheduled_tokens[s] = 1)

(* A tensor-parallel worker gets token_ids only while is_prefill is set    *)
(* (Sequence.__getstate__); prepare_prefill slices them.                   *)
PrefillShipsTokens ==
  (pc = "run" /\ batch_is_prefill) => \A s \in Batch : is_prefill[s]

(* Seen by its clients, the engine is the service they were promised.      *)
Service ==
  INSTANCE InferenceService WITH
    accepted <- {s \in Seqs : status[s] # "NEW"},
    output   <- [s \in Seqs |-> SubSeq(token_ids[s], Len(request[s].prompt) + 1,
                                       Len(token_ids[s]))],
    finished <- {s \in Seqs : status[s] = "FINISHED"}

ImplementsService == Service!ServiceSpec

(* The same without the promise that every request is finished.            *)
KeepsServiceSafe ==
  Service!ServiceInit /\ [][Service!ServiceNext]_(Service!serviceVars)

(* Every step uses the allocator as its callers may, so what is shown of   *)
(* the allocator alone holds in the engine.                                *)
UsesBlockManager == BMSpec
=============================================================================
