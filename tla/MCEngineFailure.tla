--------------------------- MODULE MCEngineFailure --------------------------
(* Two requests, prompts that end in the first, at the end of the first    *)
(* and inside the second of three blocks of two tokens, and one failure of *)
(* any prefill or decode.                                                  *)
EXTENDS EngineFailure

MCSeqs == 1 .. 2
MCToken == {0, 1}
MCRequests ==
  {[prompt |-> <<0, 0, 0>>, max_tokens |-> 3, ignore_eos |-> FALSE],
   [prompt |-> <<0, 0>>, max_tokens |-> 3, ignore_eos |-> TRUE],
   [prompt |-> <<0, 0, 0, 0>>, max_tokens |-> 2, ignore_eos |-> FALSE],
   [prompt |-> <<0>>, max_tokens |-> 2, ignore_eos |-> FALSE]}
MCPrompts == {r.prompt : r \in MCRequests}
=============================================================================
