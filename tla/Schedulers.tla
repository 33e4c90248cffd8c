----------------------------- MODULE Schedulers -----------------------------
(***************************************************************************)
(* The schedulers an engine can be started with, scheduler/__init__.py:    *)
(* OnlineEngine builds the one that is asked for by name and hands it the  *)
(* block manager and the deques of the built-in one.  Here are the three   *)
(* whose state is that of SchedulerCore; the priority and the SLO-aware    *)
(* scheduler keep more and have modules of their own.                      *)
(***************************************************************************)
EXTENDS FCFS, DecodeFirst, ChunkedPrefill

VARIABLE scheduler_name

schedulersVars == <<chunkedVars, scheduler_name>>

SCHEDULER_REGISTRY == {"fcfs", "decode_first", "chunked_prefill"}

(* The scheduler is swapped before the first request, and never again.     *)
SchedulersInit == ChunkedInit /\ scheduler_name \in SCHEDULER_REGISTRY

PolicyStep ==
  /\ \/ scheduler_name = "fcfs" /\ EngineStep /\ UNCHANGED attempts
     \/ scheduler_name = "decode_first" /\ DecodeFirstStep /\ UNCHANGED attempts
     \/ scheduler_name = "chunked_prefill" /\ ChunkedStep
  /\ UNCHANGED scheduler_name

SchedulersNext ==
  \/ \E s \in Seqs : AddRequest(s) /\ UNCHANGED <<attempts, scheduler_name>>
  \/ PolicyStep

(* generate() and the engine loop step as long as there is work.           *)
SchedulersSpec ==
  SchedulersInit /\ [][SchedulersNext]_schedulersVars /\ WF_schedulersVars(PolicyStep)

-----------------------------------------------------------------------------
(* A batch keeps to the limits the KV cache, the CUDA graphs and the       *)
(* warm-up were sized for; only a chunked batch may hold a sequence twice. *)
EveryBatchWithinLimits ==
  IF scheduler_name = "chunked_prefill" THEN ChunksWithinBudget ELSE BatchWithinLimits

(* Requests are served in order of arrival, by decode-first too:           *)
(* preemption puts a sequence back where it came from.                     *)
ServedInOrder == scheduler_name # "chunked_prefill" => ArrivalOrder

(* Where prompts are prefilled in order, the oldest unfinished request     *)
(* that holds a computed token never loses its blocks.                     *)
OldestNeverPreempted ==
  [][scheduler_name # "chunked_prefill" => KeepsOldest]_schedulersVars

(* Every request is finished: schedule() never gets to the assertion or    *)
(* the exception at its end, and preemption does not undo progress for     *)
(* ever.  (Chunked prefill does raise: see RaisesOnlyWithoutWork.)         *)
AllServed ==
  \A s \in Seqs :
    (scheduler_name # "chunked_prefill" /\ status[s] = "WAITING")
      ~> status[s] = "FINISHED"
=============================================================================
