--------------------------- MODULE EngineFailure ----------------------------
(***************************************************************************)
(* The engine when a step raises: model_runner.call("run") fails in the    *)
(* executor (a CUDA error, a batch that does not fit the shared-memory     *)
(* segment, no captured graph for its size), _engine_loop of               *)
(* serve/async_engine.py logs the exception, closes the streams and goes   *)
(* on.  Nothing undoes what schedule() did: the sequences of the batch     *)
(* keep their status, their place in running and their blocks, and         *)
(* postprocess() never runs for them.  The scheduler is that of FCFS.      *)
(***************************************************************************)
EXTENDS FCFS

CONSTANT MaxFailures   (* bound: failures of the forward pass              *)

ASSUME MaxFailuresAssumption == MaxFailures \in Nat

VARIABLES
  failures,   (* failures so far                                           *)
  later       (* the requests accepted after the last failure              *)

failureVars == <<vars, failures, later>>

FailureInit == FCFSInit /\ failures = 0 /\ later = {}

(* Mutant of Abandoned: the blocks of the batch are freed, its tables kept.*)
Abandoned_freeing ==
  LET lost == UNION {Range(block_table[s]) : s \in Batch}
  IN  /\ pc' = "idle"
      /\ scheduled_seqs' = <<>>
      /\ num_batched_tokens' = 0
      /\ used_block_ids' = used_block_ids \ lost
      /\ free_block_ids' = free_block_ids \o SetToSeq(lost)
      /\ UNCHANGED <<token_ids, num_cached_tokens, block_table, ref_count,
                     hash, hash_to_block_id, queueVars, seqVars,
                     batch_is_prefill, cur, processed>>

(* The batch is dropped and the step is over.                              *)
Abandoned ==
  /\ pc' = "idle"
  /\ scheduled_seqs' = <<>>
  /\ num_batched_tokens' = 0
  /\ UNCHANGED <<bmVars, queueVars, seqVars, batch_is_prefill, cur, processed>>

(* The exception comes before the kernels of the forward pass, or after    *)
(* them, from the sampler or the copy of the tokens to the host.           *)
ModelFails ==
  /\ pc = "run"
  /\ failures < MaxFailures
  /\ kv' \in {kv, KVWritten}
  /\ Abandoned
  /\ failures' = failures + 1
  /\ later' = {}

(* The assertion at the end of schedule() is an exception like any other.  *)
AssertionFails ==
  /\ pc = "raised"
  /\ Abandoned
  /\ UNCHANGED <<kv, failures, later>>

AddToFailed(s) ==
  /\ AddRequest(s)
  /\ later' = later \cup {s}
  /\ UNCHANGED failures

EngineGoesOn == EngineStep /\ UNCHANGED <<failures, later>>

(* Mutant of LoopGoesOn: an exception ends the loop.                       *)
LoopGoesOn_uncaught == EngineGoesOn

LoopGoesOn == AssertionFails \/ EngineGoesOn

FailureNext == (\E s \in Seqs : AddToFailed(s)) \/ LoopGoesOn \/ ModelFails

(* has_work holds until the deques are empty, whatever was raised.         *)
FailureSpec ==
  FailureInit /\ [][FailureNext]_failureVars /\ WF_failureVars(LoopGoesOn)

-----------------------------------------------------------------------------
(* Every accepted request is finished, although a failed step is not       *)
(* undone: a decode that is scheduled again takes one more block, which may *)
(* empty the pool and make schedule() itself raise.                        *)
ServedDespiteFailures == \A s \in Seqs : status[s] = "WAITING" ~> status[s] = "FINISHED"

(* "Cancel any stuck requests" (async_engine.py:254): what a failed step   *)
(* leaves behind does no harm to a request accepted after it, whose cached *)
(* and computed blocks hold its own prefix.                                *)
LaterRequestsUnharmed ==
  \A s \in later : \A p \in 1 .. Computed(s) :
    LET slot == PrefillSlot(s, p)
    IN  kv[slot[1]][slot[2]] = SubSeq(token_ids[s], 1, p)
=============================================================================
