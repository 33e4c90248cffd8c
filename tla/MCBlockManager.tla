--------------------------- MODULE MCBlockManager ---------------------------
(* A small instance of the allocator: two-token blocks, a vocabulary of    *)
(* two tokens, prompts that share a first block, and a pool that two       *)
(* sequences exhaust.  Sequences are interchangeable.                      *)
EXTENDS BlockManager

MCToken == {0, 1}
MCPrompts == {<<0, 0, 0>>, <<0, 0, 1, 0>>, <<0, 0, 0, 0, 0>>}
MCSymmetry == Permutations(Seqs)
=============================================================================
