-------------------------------- MODULE FCFS --------------------------------
(***************************************************************************)
(* The first-come first-served policy: scheduler/fcfs.py, and the built-in *)
(* engine/scheduler.py it was migrated from.  Waiting sequences are        *)
(* prefilled first, in order of arrival; with no prefill to do, running    *)
(* sequences decode.                                                       *)
(***************************************************************************)
EXTENDS SchedulerCore

FCFSInit == CoreInit

EngineStep ==
  \/ StartStep("prefill")
  \/ PrefillHead
  \/ EndPrefill("decode")
  \/ DecodePhase
  \/ EndDecode("raised")
  \/ RunAndPostprocess

FCFSNext == (\E s \in Seqs : AddRequest(s)) \/ EngineStep

(* generate() and the engine loop step as long as there is work.           *)
FCFSSpec == FCFSInit /\ [][FCFSNext]_vars /\ WF_vars(EngineStep)

(* Requests are served in order of arrival: whatever was preempted, every  *)
(* sequence in decode is older than every sequence awaiting prefill, and   *)
(* each deque is in order.                                                 *)
ArrivalOrder == \A i, j \in DOMAIN Held : i < j => Held[i] < Held[j]

(* The oldest unfinished request that holds a computed token never loses   *)
(* its blocks before it is finished.                                       *)
KeepsOldest ==
  \A s \in Seqs :
    (block_table[s] # <<>> /\ block_table'[s] = <<>> /\ status'[s] # "FINISHED")
       => \E r \in 1 .. s - 1 : status[r] # "FINISHED"
=============================================================================
