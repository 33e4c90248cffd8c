--------------------------- MODULE ChunkedPrefill ---------------------------
(***************************************************************************)
(* The chunked-prefill policy, scheduler/chunked_prefill.py: prefill comes *)
(* first, no sequence gets more than a chunk of it at a visit, and a       *)
(* sequence prefilled in part goes to the back of the waiting deque with   *)
(* the blocks it holds.  Everything else is inherited from FCFS.           *)
(***************************************************************************)
EXTENDS SchedulerCore

CONSTANTS
  MaxPrefillChunk,  (* max_prefill_chunk                                   *)
  MinPrefillChunk   (* min_prefill_chunk                                   *)

ASSUME ChunkAssumption ==
  MaxPrefillChunk \in Nat \ {0} /\ MinPrefillChunk \in Nat

VARIABLE attempts   (* iterations the prefill loop may still make          *)

chunkedVars == <<vars, attempts>>

ChunkedInit == CoreInit /\ attempts = 0

StartChunkedStep ==
  /\ StartStep("prefill")
  /\ attempts' = Len(waiting) + 1

CanVisitHead ==
  /\ waiting # <<>>
  /\ Len(scheduled_seqs) < MaxNumSeqs
  /\ attempts > 0
  /\ remaining > 0
  /\ HasBlocks(Head(waiting))

(* num_tokens is what is left after the allocation of this visit.          *)
chunk(s) == Smaller(Smaller(num_tokens(s), remaining), MaxPrefillChunk)

TooSmall(s) == chunk(s) < MinPrefillChunk /\ scheduled_seqs # <<>>

(* Mutant of Rotated: the sequence leaves the deque for good.              *)
Rotated_dropping == Tail(waiting)

Rotated == Append(Tail(waiting), Head(waiting))

(* A sequence whose prompt is covered moves to running, another one goes   *)
(* to the back of waiting.                                                 *)
ChunkHead ==
  LET s == Head(waiting)
  IN  /\ pc = "prefill"
      /\ CanVisitHead
      /\ ~ TooSmall(s)
      /\ AllocateOnFirstVisit(s)
      /\ attempts' = attempts - 1
      /\ num_scheduled_tokens' = [num_scheduled_tokens EXCEPT ![s] = chunk(s)]
      /\ is_prefill' = [is_prefill EXCEPT ![s] = TRUE]
      /\ num_batched_tokens' = num_batched_tokens + chunk(s)
      /\ IF chunk(s) = num_tokens(s)
         THEN /\ status' = [status EXCEPT ![s] = "RUNNING"]
              /\ waiting' = Tail(waiting)
              /\ running' = Append(running, s)
         ELSE /\ waiting' = Rotated
              /\ UNCHANGED <<status, running>>
      /\ scheduled_seqs' = Append(scheduled_seqs, s)
      /\ UNCHANGED <<token_ids, request, pc, batch_is_prefill, cur, processed, kv>>

(* The loop breaks on a chunk that is too small -- after the allocation.   *)
BreakOnSmallChunk ==
  LET s == Head(waiting)
  IN  /\ pc = "prefill"
      /\ CanVisitHead
      /\ TooSmall(s)
      /\ AllocateOnFirstVisit(s)
      /\ attempts' = attempts - 1
      /\ pc' = "run"
      /\ batch_is_prefill' = TRUE
      /\ UNCHANGED <<token_ids, queueVars, seqVars, scheduled_seqs,
                     num_batched_tokens, cur, processed, kv>>

EndChunkedPrefill ==
  /\ pc = "prefill"
  /\ ~ CanVisitHead
  /\ pc' = IF scheduled_seqs # <<>> THEN "run" ELSE "decode"
  /\ batch_is_prefill' = TRUE
  /\ UNCHANGED <<bmVars, queueVars, seqVars, kv, scheduled_seqs,
                 num_batched_tokens, cur, processed, attempts>>

ChunkedStep ==
  \/ StartChunkedStep
  \/ ChunkHead
  \/ BreakOnSmallChunk
  \/ EndChunkedPrefill
  \/ (DecodePhase \/ EndDecode("raised") \/ RunAndPostprocess) /\ UNCHANGED attempts

ChunkedNext ==
  \/ \E s \in Seqs : AddRequest(s) /\ UNCHANGED attempts
  \/ ChunkedStep

ChunkedSpec ==
  ChunkedInit /\ [][ChunkedNext]_chunkedVars /\ WF_chunkedVars(ChunkedStep)

(* No visit of the prefill loop hands out more than a chunk, and the token *)
(* budget of the step bounds what is handed out in all, repeated visits    *)
(* included.                                                               *)
ChunksWithinBudget ==
  /\ num_batched_tokens <= MaxBatchedTokens
  /\ Len(scheduled_seqs) <= MaxNumSeqs
  /\ pc \in {"prefill", "run"} =>
       \A s \in Seqs :
         /\ num_scheduled_tokens[s] <= MaxPrefillChunk
         /\ num_cached_tokens[s] + num_scheduled_tokens[s] <= Len(token_ids[s])

(* "schedule() called with no work available" (chunked_prefill.py:129) is  *)
(* raised only when no sequence that holds its blocks awaits a prefill.    *)
RaisesOnlyWithoutWork ==
  pc = "raised" => \A s \in Range(waiting) : block_table[s] = <<>>
=============================================================================
