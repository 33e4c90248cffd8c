---------------------------- MODULE MCModelRunner ---------------------------
(* Three ranks with four query and two key heads each; the files list the  *)
(* tensors of a layer by name.  Two calls with batches of four and of      *)
(* three sequences, which both replay the graph of four rows, reading one  *)
(* or two blocks: a row, and columns of the tables, stay from before.      *)
EXTENDS ModelRunner

ByName ==
  <<"embed_tokens", "down_proj", "gate_proj", "up_proj", "k_proj", "o_proj",
    "q_proj", "v_proj", "lm_head">>
MCCheckpoints == {ByName}
MCBatches == {<<1, 2, 1, 1>>, <<1, 1, 1>>}
=============================================================================
