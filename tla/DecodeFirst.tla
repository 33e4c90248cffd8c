----------------------------- MODULE DecodeFirst ----------------------------
(***************************************************************************)
(* The decode-first policy, scheduler/decode_first.py: running sequences   *)
(* decode, and waiting ones are prefilled only in a step where no sequence *)
(* could decode -- also when the decode loop just preempted all of them.   *)
(***************************************************************************)
EXTENDS SchedulerCore

DecodeFirstInit == CoreInit

DecodeFirstStep ==
  \/ StartStep("decode")
  \/ DecodePhase
  \/ EndDecode("prefill")
  \/ PrefillHead
  \/ EndPrefill("raised")
  \/ RunAndPostprocess

DecodeFirstNext == (\E s \in Seqs : AddRequest(s)) \/ DecodeFirstStep

DecodeFirstSpec ==
  DecodeFirstInit /\ [][DecodeFirstNext]_vars /\ WF_vars(DecodeFirstStep)
=============================================================================
