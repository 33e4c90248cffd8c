------------------------------ MODULE SLOAware ------------------------------
(***************************************************************************)
(* The SLO-aware policy, scheduler/slo_aware.py: every running sequence    *)
(* that can append decodes, urgent ones first; the others take blocks from *)
(* the accepted ones that are not urgent; prefill comes when no sequence   *)
(* decodes.  Targets are calibrated from the first completions.            *)
(*                                                                         *)
(* Time is abstracted to its effect: the clock may find any sequence       *)
(* urgent, or not.                                                         *)
(***************************************************************************)
EXTENDS SchedulerCore

CONSTANT CalibrationTarget   (* _calibration_target                        *)

ASSUME CalibrationAssumption == CalibrationTarget \in Nat \ {0}

VARIABLES
  to_scan,     (* what is left of the copy of running the first loop walks *)
  hi,          (* hi_decode, later hi_prefill                              *)
  lo,          (* lo_decode, later lo_prefill                              *)
  attempts,    (* iterations the prefill loop may still make               *)
  decoded,     (* keys of _last_decode_times                               *)
  ttfts,       (* length of _calibration_ttfts                             *)
  itls,        (* length of _calibration_itls                              *)
  calibrated   (* _calibrated                                              *)

loopVars        == <<to_scan, hi, lo, attempts>>
calibrationVars == <<decoded, ttfts, itls, calibrated>>
sloVars         == <<vars, loopVars, calibrationVars>>

SLOInit ==
  /\ CoreInit
  /\ to_scan = <<>>
  /\ hi = <<>>
  /\ lo = <<>>
  /\ attempts = 0
  /\ decoded = {}
  /\ ttfts = 0
  /\ itls = 0
  /\ calibrated = FALSE

(* schedule() takes every sequence out of running.  Its locals are empty   *)
(* between the steps.                                                      *)
StartSLOStep ==
  /\ pc = "idle"
  /\ waiting # <<>> \/ running # <<>>
  /\ pc' = "scan"
  /\ to_scan' = running
  /\ running' = <<>>
  /\ UNCHANGED <<bmVars, seqVars, waiting, kv, scheduled_seqs,
                 num_batched_tokens, batch_is_prefill, cur, processed,
                 hi, lo, attempts, calibrationVars>>

(* A sequence joins the urgent or the other half of the batch.             *)
Sort(s) == \/ hi' = Append(hi, s) /\ UNCHANGED lo
           \/ lo' = Append(lo, s) /\ UNCHANGED hi

(* The first loop, on a sequence that can append: it joins the batch.      *)
AcceptScanned ==
  LET s == Head(to_scan)
  IN  /\ pc = "scan"
      /\ to_scan # <<>>
      /\ can_append(s)
      /\ num_scheduled_tokens' = [num_scheduled_tokens EXCEPT ![s] = 1]
      /\ is_prefill' = [is_prefill EXCEPT ![s] = FALSE]
      /\ may_append(s)
      /\ Sort(s)
      /\ to_scan' = Tail(to_scan)
      /\ UNCHANGED <<token_ids, num_cached_tokens, request, status, queueVars,
                     stepVars, kv, attempts, calibrationVars>>

(* The first loop, on one that cannot: it is left to the second loop.      *)
DeferScanned ==
  LET s == Head(to_scan)
  IN  /\ pc = "scan"
      /\ to_scan # <<>>
      /\ ~ can_append(s)
      /\ running' = Append(running, s)
      /\ to_scan' = Tail(to_scan)
      /\ UNCHANGED <<bmVars, seqVars, waiting, stepVars, kv, hi, lo, attempts,
                     calibrationVars>>

EndScan ==
  /\ pc = "scan"
  /\ to_scan = <<>>
  /\ pc' = "settle"
  /\ UNCHANGED <<bmVars, seqVars, queueVars, kv, scheduled_seqs,
                 num_batched_tokens, batch_is_prefill, cur, processed,
                 loopVars, calibrationVars>>

-----------------------------------------------------------------------------
(* The second loop pops the deferred sequences.  One that can append by    *)
(* now goes nowhere.                                                       *)
DropDeferred ==
  /\ pc = "settle"
  /\ running # <<>>
  /\ can_append(Head(running))
  /\ running' = Tail(running)
  /\ UNCHANGED <<bmVars, seqVars, waiting, stepVars, kv, loopVars,
                 calibrationVars>>

(* Mutant of VictimOf: the sequence preempted is not the one that leaves   *)
(* the batch.                                                              *)
VictimOf_oldest == lo[1]

(* lo_decode.pop()                                                         *)
VictimOf == lo[Len(lo)]

(* The last accepted sequence that is not urgent makes room and is         *)
(* replaced in the batch ...                                               *)
PreemptLow ==
  /\ pc = "settle"
  /\ running # <<>>
  /\ ~ can_append(Head(running))
  /\ lo # <<>>
  /\ preempt(VictimOf)
  /\ cur' = Head(running)
  /\ running' = Tail(running)
  /\ lo' = Append(SubSeq(lo, 1, Len(lo) - 1), Head(running))
  /\ pc' = "take"
  /\ UNCHANGED <<token_ids, hash, hash_to_block_id, request,
                 num_scheduled_tokens, scheduled_seqs, num_batched_tokens,
                 batch_is_prefill, processed, kv, to_scan, hi, attempts,
                 calibrationVars>>

(* Mutant of TakeFreed: the sequence decodes without a block for its token.*)
TakeFreed_nothing ==
  /\ pc = "take"
  /\ num_scheduled_tokens' = [num_scheduled_tokens EXCEPT ![cur] = 1]
  /\ is_prefill' = [is_prefill EXCEPT ![cur] = FALSE]
  /\ cur' = NoSeq
  /\ pc' = "settle"
  /\ UNCHANGED <<bmVars, request, status, queueVars, scheduled_seqs,
                 num_batched_tokens, batch_is_prefill, processed, kv, loopVars,
                 calibrationVars>>

(* ... by the one that could not append, which now takes a block without   *)
(* asking again.                                                           *)
TakeFreed ==
  /\ pc = "take"
  /\ num_scheduled_tokens' = [num_scheduled_tokens EXCEPT ![cur] = 1]
  /\ is_prefill' = [is_prefill EXCEPT ![cur] = FALSE]
  /\ may_append(cur)
  /\ cur' = NoSeq
  /\ pc' = "settle"
  /\ UNCHANGED <<token_ids, num_cached_tokens, request, status, queueVars,
                 scheduled_seqs, num_batched_tokens, batch_is_prefill,
                 processed, kv, loopVars, calibrationVars>>

PreemptDeferred ==
  /\ pc = "settle"
  /\ running # <<>>
  /\ ~ can_append(Head(running))
  /\ lo = <<>>
  /\ preempt(Head(running))
  /\ running' = Tail(running)
  /\ UNCHANGED <<token_ids, hash, hash_to_block_id, request,
                 num_scheduled_tokens, stepVars, kv, loopVars, calibrationVars>>

(* With a batch the step decodes; without one it goes on to prefill.       *)
EndSettle ==
  /\ pc = "settle"
  /\ running = <<>>
  /\ hi' = <<>>
  /\ lo' = <<>>
  /\ IF hi \o lo # <<>>
     THEN /\ pc' = "run"
          /\ scheduled_seqs' = hi \o lo
          /\ running' = hi \o lo
          /\ decoded' = decoded \cup Range(hi \o lo)
          /\ UNCHANGED attempts
     ELSE /\ pc' = "prefill"
          /\ attempts' = Len(waiting) + 1
          /\ UNCHANGED <<scheduled_seqs, running, decoded>>
  /\ batch_is_prefill' = FALSE
  /\ UNCHANGED <<bmVars, seqVars, waiting, kv, num_batched_tokens, cur,
                 processed, to_scan, ttfts, itls, calibrated>>

-----------------------------------------------------------------------------
(* Prefill in order of arrival, whatever the number of sequences.          *)
CanVisitHead ==
  /\ waiting # <<>>
  /\ remaining > 0
  /\ attempts > 0
  /\ HasBlocks(Head(waiting))

(* A sequence whose prompt is covered moves to running; one that the       *)
(* budget cuts goes to the back of waiting and ends the batch.             *)
SLOPrefillHead ==
  LET s == Head(waiting)
      chunk == Smaller(num_tokens(s), remaining)
  IN  /\ pc = "prefill"
      /\ CanVisitHead
      /\ AllocateOnFirstVisit(s)
      /\ attempts' = attempts - 1
      /\ num_scheduled_tokens' = [num_scheduled_tokens EXCEPT ![s] = chunk]
      /\ is_prefill' = [is_prefill EXCEPT ![s] = TRUE]
      /\ num_batched_tokens' = num_batched_tokens + chunk
      /\ IF chunk = num_tokens(s)
         THEN /\ status' = [status EXCEPT ![s] = "RUNNING"]
              /\ waiting' = Tail(waiting)
              /\ running' = Append(running, s)
         ELSE /\ waiting' = Append(Tail(waiting), s)
              /\ UNCHANGED <<status, running>>
      /\ Sort(s)
      /\ UNCHANGED <<token_ids, request, pc, scheduled_seqs, batch_is_prefill,
                     cur, processed, kv, to_scan, calibrationVars>>

EndSLOPrefill ==
  /\ pc = "prefill"
  /\ ~ CanVisitHead
  /\ pc' = IF hi \o lo # <<>> THEN "run" ELSE "raised"
  /\ scheduled_seqs' = hi \o lo
  /\ batch_is_prefill' = TRUE
  /\ hi' = <<>>
  /\ lo' = <<>>
  /\ attempts' = 0
  /\ UNCHANGED <<bmVars, queueVars, seqVars, kv, num_batched_tokens, cur,
                 processed, to_scan, calibrationVars>>

-----------------------------------------------------------------------------
Finished == {s \in Batch : status[s] = "FINISHED"}

(* Mutant of DecodedIn: the time of a prefill is taken for a decode's.     *)
DecodedIn_any == Batch

(* Sequences whose last decode time postprocess() sets.                    *)
DecodedIn == IF batch_is_prefill THEN {} ELSE Batch

(* The end of postprocess(): a finished sequence that decoded is a sample  *)
(* of the time to the first token, one with more than one token is one of  *)
(* the time between tokens; with enough samples, both lists are indexed by *)
(* half the length of the first one.                                       *)
Track ==
  LET timed == decoded \cup DecodedIn
      multi == {s \in Finished : Len(token_ids[s]) - Len(request[s].prompt) > 1}
  IN  /\ decoded' = timed \ Finished
      /\ IF calibrated THEN UNCHANGED <<ttfts, itls>>
         ELSE /\ ttfts' = ttfts + Cardinality(Finished \cap timed)
              /\ itls' = itls + Cardinality(multi)
      /\ calibrated' = (calibrated \/ (ttfts' >= CalibrationTarget /\ itls' > 0))

SLOStep ==
  \/ StartSLOStep
  \/ AcceptScanned
  \/ DeferScanned
  \/ EndScan
  \/ DropDeferred
  \/ PreemptLow
  \/ TakeFreed
  \/ PreemptDeferred
  \/ EndSettle
  \/ SLOPrefillHead
  \/ EndSLOPrefill
  \/ (RunModel \/ \E t \in Token : PostprocessOne(t))
       /\ UNCHANGED <<loopVars, calibrationVars>>
  \/ EndStep /\ Track /\ UNCHANGED loopVars

SLONext ==
  \/ \E s \in Seqs : AddRequest(s) /\ UNCHANGED <<loopVars, calibrationVars>>
  \/ SLOStep

SLOSpec == SLOInit /\ [][SLONext]_sloVars /\ WF_sloVars(SLOStep)

-----------------------------------------------------------------------------
(* Where a sequence is during a step: accepted and unscanned sequences are *)
(* in locals of schedule() only.                                           *)
Places ==
  (IF pc \in {"scan", "settle", "take"} THEN hi \o lo \o to_scan ELSE <<>>) \o
  running \o waiting

(* However sequences move between the deques and the lists of the two      *)
(* loops, none is in two places, so none is ever decoded twice in a step   *)
(* or prefilled while it decodes, and every waiting one awaits a prefill.  *)
HeldOnce ==
  /\ IsInjective(Places)
  /\ \A s \in Range(Places) : status[s] \in {"WAITING", "RUNNING"}
  /\ \A s \in Seqs : status[s] = "WAITING" <=> s \in Range(waiting)

(* A batch computes for a sequence what its table has room for: the slot   *)
(* of a decode is in the last block, and a prefill ends inside the prompt. *)
BatchFitsTables ==
  pc = "run" =>
    /\ IsInjective(scheduled_seqs)
    /\ num_batched_tokens <= MaxBatchedTokens
    /\ \A s \in Batch :
         /\ Len(block_table[s]) = num_blocks(s)
         /\ num_cached_tokens[s] + num_scheduled_tokens[s] <= Len(token_ids[s])
         /\ ~ batch_is_prefill =>
              num_cached_tokens[s] + num_scheduled_tokens[s] = Len(token_ids[s])

(* _auto_calibrate indexes both lists of samples by half the length of the *)
(* first: whenever it is reached the second list is empty, and it returns, *)
(* or long enough.                                                         *)
CalibrationInRange ==
  ttfts >= CalibrationTarget => (itls = 0 \/ ttfts \div 2 < itls)

(* is_finished() -- "check if all requests are done" (base.py:45), the     *)
(* absence of waiting and running sequences -- is true only when every     *)
(* accepted request is finished.                                           *)
EmptyMeansDone ==
  (pc = "idle" /\ waiting = <<>> /\ running = <<>>) =>
    \A s \in Seqs : status[s] \in {"NEW", "FINISHED"}
=============================================================================
