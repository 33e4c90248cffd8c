----------------------------- MODULE MCSLOAware -----------------------------
(* Three requests on four blocks of two tokens: sequences that need a      *)
(* block at the same decode and one that does not, one that is done with   *)
(* its first token, and a token budget that holds three short prompts or   *)
(* cuts a longer one.                                                      *)
EXTENDS SLOAware

MCSeqs == 1 .. 3
MCToken == {0, 1}
MCRequests ==
  {[prompt |-> <<0, 0>>, max_tokens |-> 3, ignore_eos |-> FALSE],
   [prompt |-> <<0, 0, 0>>, max_tokens |-> 2, ignore_eos |-> FALSE],
   [prompt |-> <<0, 0, 1, 0>>, max_tokens |-> 4, ignore_eos |-> FALSE],
   [prompt |-> <<0>>, max_tokens |-> 3, ignore_eos |-> FALSE]}
MCPrompts == {r.prompt : r \in MCRequests}
=============================================================================
