-------------------------- MODULE MCChunkedPrefill --------------------------
(* Three requests on three blocks of two tokens, chunks of two tokens and  *)
(* a budget of four: a visit may be cut by the chunk, by the budget or by *)
(* the end of the prompt, and two long prompts do not fit together.        *)
EXTENDS ChunkedPrefill

MCSeqs == 1 .. 3
MCToken == {0, 1}
MCRequests ==
  {[prompt |-> <<0, 0, 0>>, max_tokens |-> 3, ignore_eos |-> FALSE],
   [prompt |-> <<0, 0, 1, 0, 0>>, max_tokens |-> 2, ignore_eos |-> TRUE],
   [prompt |-> <<0>>, max_tokens |-> 2, ignore_eos |-> FALSE]}
MCPrompts == {r.prompt : r \in MCRequests}
=============================================================================
