----------------------------- MODULE MCPriority -----------------------------
(* Three requests of two priorities on three blocks of two tokens, and a   *)
(* budget of two: a prompt prefilled in part leaves a block to a shorter   *)
(* one, and holds the blocks a longer one waits for.  How an output ends   *)
(* is left to the other policies: here all are as long as asked for.       *)
EXTENDS Priority

MCSeqs == 1 .. 3
MCToken == {0}
MCRequests ==
  {[prompt |-> <<0, 0, 0, 0, 0>>, max_tokens |-> 1, ignore_eos |-> TRUE],
   [prompt |-> <<0, 0, 0>>, max_tokens |-> 3, ignore_eos |-> TRUE],
   [prompt |-> <<0, 0>>, max_tokens |-> 2, ignore_eos |-> TRUE]}
MCPrompts == {r.prompt : r \in MCRequests}
MCLevels == {LOW, HIGH}
=============================================================================
