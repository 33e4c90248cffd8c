---------------------------- MODULE MCSchedulers ----------------------------
(* Three requests that compete for three blocks of two tokens: prompts     *)
(* that share a block, that end inside one and that need the whole pool,   *)
(* one with a single token, and a token budget below the longest prompt.   *)
(* The budget is two chunks of two tokens: a chunked step may visit the    *)
(* same sequence twice, or be cut short by a chunk that is too small.      *)
EXTENDS Schedulers

MCSeqs == 1 .. 3
MCToken == {0, 1}
MCRequests ==
  {[prompt |-> <<0, 0, 0>>, max_tokens |-> 3, ignore_eos |-> FALSE],
   [prompt |-> <<0, 0, 1, 0, 0>>, max_tokens |-> 2, ignore_eos |-> TRUE],
   [prompt |-> <<0>>, max_tokens |-> 2, ignore_eos |-> FALSE]}
MCPrompts == {r.prompt : r \in MCRequests}
=============================================================================
