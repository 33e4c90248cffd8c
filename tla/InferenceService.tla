-------------------------- MODULE InferenceService --------------------------
(***************************************************************************)
(* What the engine promises its clients, whatever the scheduling policy:   *)
(* an accepted request gains one token at a time, keeps every token it     *)
(* gained, stops exactly at an end-of-sequence token or at its max_tokens, *)
(* and does get there.  Batching, chunking, preemption and prefix sharing  *)
(* are not visible at this level.                                          *)
(***************************************************************************)
EXTENDS Integers, Sequences

CONSTANTS
  Seqs,      (* identities of requests, in arrival order                   *)
  Token,     (* the vocabulary                                             *)
  EOS,       (* the end-of-sequence token                                  *)
  Requests   (* the requests clients make                                  *)

VARIABLES
  accepted,  (* the requests accepted so far                               *)
  request,   (* the parameters of an accepted request                      *)
  output,    (* the tokens generated for it                                *)
  finished   (* the requests that are complete                             *)

serviceVars == <<accepted, request, output, finished>>

Stops(s, t) ==
  \/ t = EOS /\ ~ request[s].ignore_eos
  \/ Len(output[s]) + 1 = request[s].max_tokens

ServiceInit ==
  /\ accepted = {}
  /\ request \in [Seqs -> Requests]
  /\ output = [s \in Seqs |-> <<>>]
  /\ finished = {}

Accept(s) ==
  /\ s \notin accepted
  /\ accepted' = accepted \cup {s}
  /\ UNCHANGED <<request, output, finished>>

Emit(s, t) ==
  /\ s \in accepted \ finished
  /\ output' = [output EXCEPT ![s] = Append(@, t)]
  /\ finished' = IF Stops(s, t) THEN finished \cup {s} ELSE finished
  /\ UNCHANGED <<accepted, request>>

EmitSome(s) == \E t \in Token : Emit(s, t)

ServiceNext == \E s \in Seqs : Accept(s) \/ EmitSome(s)

ServiceSpec ==
  /\ ServiceInit
  /\ [][ServiceNext]_serviceVars
  /\ \A s \in Seqs : WF_serviceVars(EmitSome(s))
=============================================================================
