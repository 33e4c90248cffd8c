--------------------------- MODULE WeightSharding ---------------------------
(***************************************************************************)
(* Tensor parallelism: how load_model (utils/loader.py) splits the tensors *)
(* of a checkpoint over the ranks (the weight_loader methods of            *)
(* layers/linear.py and layers/embed_head.py), and what the forward pass   *)
(* of models/qwen3.py combines.  All decoder layers are alike; one stands  *)
(* for them.  A tensor is split along one dimension, and only that one is  *)
(* modelled: an entry of a parameter is the place of the checkpoint it was *)
(* copied from.  Parameters every rank holds whole (the norms) are left    *)
(* out.                                                                    *)
(***************************************************************************)
EXTENDS Integers, FiniteSets, Sequences

CONSTANTS
  WorldSize,          (* tensor_parallel_size                              *)
  NumHeads,           (* num_attention_heads                               *)
  NumKVHeads,         (* num_key_value_heads                               *)
  HeadDim,            (* head_dim                                          *)
  IntermediateSize,   (* intermediate_size                                 *)
  VocabSize           (* vocab_size                                        *)

Divides(d, n) == n % d = 0

(* The assertions of divide(), Qwen3Attention and VocabParallelEmbedding,  *)
(* and what grouped-query attention asks of a model.                       *)
ASSUME ModelAssumption ==
  /\ {WorldSize, NumHeads, NumKVHeads, HeadDim, IntermediateSize, VocabSize}
       \subseteq Nat \ {0}
  /\ Divides(WorldSize, NumKVHeads) /\ Divides(NumKVHeads, NumHeads)
  /\ Divides(WorldSize, IntermediateSize) /\ Divides(WorldSize, VocabSize)

VARIABLES
  loaded,   (* the tensors a rank has loaded                               *)
  param     (* the parameters of a rank, row by row (column by column for  *)
            (* the row-parallel ones)                                      *)

shardVars == <<loaded, param>>

Ranks == 0 .. WorldSize - 1
Empty == <<"empty", 0>>     (* torch.empty                                 *)

(* The names of the checkpoint, and the parameter each goes into.          *)
packed_modules_mapping ==
  [q_proj |-> "qkv_proj", k_proj |-> "qkv_proj", v_proj |-> "qkv_proj",
   gate_proj |-> "gate_up_proj", up_proj |-> "gate_up_proj"]
Weights ==
  DOMAIN packed_modules_mapping
    \cup {"o_proj", "down_proj", "embed_tokens", "lm_head"}
param_name(w) ==
  IF w \in DOMAIN packed_modules_mapping THEN packed_modules_mapping[w] ELSE w
Params == {"qkv_proj", "o_proj", "gate_up_proj", "down_proj", "embed_tokens", "lm_head"}

(* divide(n, tp_size)                                                      *)
Share(n) == n \div WorldSize

num_heads    == Share(NumHeads)
num_kv_heads == Share(NumKVHeads)
q_size       == num_heads * HeadDim
kv_size      == num_kv_heads * HeadDim
num_embeddings_per_partition == Share(VocabSize)

(* The split dimension of a parameter on one rank.                         *)
param_size ==
  [qkv_proj     |-> Share((NumHeads + 2 * NumKVHeads) * HeadDim),
   o_proj       |-> Share(NumHeads * HeadDim),
   gate_up_proj |-> Share(2 * IntermediateSize),
   down_proj    |-> Share(IntermediateSize),
   embed_tokens |-> num_embeddings_per_partition,
   lm_head      |-> num_embeddings_per_partition]

Rows(p) == 0 .. param_size[p] - 1

(* Where a tensor begins in its parameter.                                 *)
shard_offset(w) ==
  CASE w = "k_proj"  -> q_size
    [] w = "v_proj"  -> q_size + kv_size
    [] w = "up_proj" -> Share(IntermediateSize)
    [] OTHER         -> 0

(* How much of it a rank takes.                                            *)
shard_size(w) ==
  CASE w = "q_proj"                   -> q_size
    [] w \in {"k_proj", "v_proj"}     -> kv_size
    [] w \in {"gate_proj", "up_proj"} -> Share(IntermediateSize)
    [] OTHER                          -> param_size[param_name(w)]

(* Mutant of start_idx: every rank takes the first share.                  *)
start_idx_first(r, w) == 0

(* Where its share begins in the tensor; chunk(tp_size)[tp_rank] the same. *)
start_idx(r, w) == r * shard_size(w)

Into(w) == shard_offset(w) .. shard_offset(w) + shard_size(w) - 1

ShardInit ==
  /\ loaded = [r \in Ranks |-> {}]
  /\ param = [r \in Ranks |-> [p \in Params |-> [x \in Rows(p) |-> Empty]]]

(* weight_loader: copy the share of the rank into its place.               *)
LoadWeight(r, w) ==
  /\ w \notin loaded[r]
  /\ loaded' = [loaded EXCEPT ![r] = @ \cup {w}]
  /\ param' = [param EXCEPT ![r][param_name(w)] =
                 [x \in Rows(param_name(w)) |->
                    IF x \in Into(w) THEN <<w, start_idx(r, w) + x - shard_offset(w)>>
                    ELSE param[r][param_name(w)][x]]]

ShardNext == \E r \in Ranks, w \in Weights : LoadWeight(r, w)

ShardSpec == ShardInit /\ [][ShardNext]_shardVars

-----------------------------------------------------------------------------
(* The forward pass.  qkv.split and view: dimension d of a local head.     *)
QueryRow(r, j, d) == param[r]["qkv_proj"][j * HeadDim + d]
KeyRow(r, j, d)   == param[r]["qkv_proj"][q_size + j * HeadDim + d]
ValueRow(r, j, d) == param[r]["qkv_proj"][q_size + kv_size + j * HeadDim + d]

(* Mutant of KVHeadOf: the key heads are taken in turn.                    *)
KVHeadOf_in_turn(j) == j % num_kv_heads

(* flash_attn: local query head j reads the keys and values of this head.  *)
KVHeadOf(j) == j \div (num_heads \div num_kv_heads)

(* gate_up.chunk(2): what activation c of the MLP is made from.            *)
GateRow(r, c) == param[r]["gate_up_proj"][c]
UpRow(r, c)   == param[r]["gate_up_proj"][c + param_size["gate_up_proj"] \div 2]

vocab_start_idx(r) == num_embeddings_per_partition * r

(* Mutant of EmbeddingRows: the mask leaves the start of the part out.     *)
EmbeddingRows_open(t) ==
  {param[r]["embed_tokens"][t - vocab_start_idx(r)] :
     r \in {q \in Ranks : /\ t > vocab_start_idx(q)
                          /\ t < vocab_start_idx(q) + num_embeddings_per_partition}}

(* The mask and the all_reduce of the embedding: the rows summed for token *)
(* t, of the ranks whose part it is in.                                    *)
EmbeddingRows(t) ==
  {param[r]["embed_tokens"][t - vocab_start_idx(r)] :
     r \in {q \in Ranks : /\ t >= vocab_start_idx(q)
                          /\ t < vocab_start_idx(q) + num_embeddings_per_partition}}

(* The logits gathered on rank 0: the ranks' parts one after the other.    *)
LogitRow(t) ==
  param[t \div num_embeddings_per_partition]["lm_head"]
       [t % num_embeddings_per_partition]

-----------------------------------------------------------------------------
Loaded == \A r \in Ranks : loaded[r] = Weights

(* Every local query head is a head of the model, whole, and attends with  *)
(* the key and value head of its group in the model, although five tensors *)
(* share two parameters and come in the order of the files.                *)
HeadsGrouped ==
  Loaded =>
    \A r \in Ranks, j \in 0 .. num_heads - 1 :
      \E h \in 0 .. NumHeads - 1 :
        LET g == h \div (NumHeads \div NumKVHeads)
        IN  \A d \in 0 .. HeadDim - 1 :
              /\ QueryRow(r, j, d) = <<"q_proj", h * HeadDim + d>>
              /\ KeyRow(r, KVHeadOf(j), d) = <<"k_proj", g * HeadDim + d>>
              /\ ValueRow(r, KVHeadOf(j), d) = <<"v_proj", g * HeadDim + d>>

(* The all_reduce after a row-parallel layer sums every product of the     *)
(* unsplit layer once: a column meets the feature it belongs to, and each  *)
(* feature is on one rank.                                                 *)
FeaturesMeetColumns ==
  Loaded =>
    /\ \A f \in 0 .. NumHeads * HeadDim - 1 :
         \E r \in Ranks : \E c \in Rows("o_proj") :
           /\ param[r]["qkv_proj"][c] = <<"q_proj", f>>
           /\ param[r]["o_proj"][c] = <<"o_proj", f>>
    /\ \A f \in 0 .. IntermediateSize - 1 :
         \E r \in Ranks : \E c \in Rows("down_proj") :
           /\ GateRow(r, c) = <<"gate_proj", f>>
           /\ UpRow(r, c) = <<"up_proj", f>>
           /\ param[r]["down_proj"][c] = <<"down_proj", f>>

(* A token is embedded by one rank, with its own row, and the gathered     *)
(* logits are in the order of the vocabulary.                              *)
VocabularyInOrder ==
  Loaded =>
    \A t \in 0 .. VocabSize - 1 :
      /\ EmbeddingRows(t) = {<<"embed_tokens", t>>}
      /\ LogitRow(t) = <<"lm_head", t>>
=============================================================================
