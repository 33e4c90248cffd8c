------------------------- MODULE ModelRunnerProofs --------------------------
(***************************************************************************)
(* For every number of ranks, batch and order of the files: the ranks run  *)
(* the same collectives in the same order when exit() comes between steps, *)
(* a worker opens the segment while it is there, and a replayed graph      *)
(* touches what its batch owns.  Loading implements ShardSpec, so what is  *)
(* proved of the shares holds for the ranks of an engine.                  *)
(***************************************************************************)
EXTENDS ModelRunner, FiniteSetTheorems, TLAPS

-----------------------------------------------------------------------------
(* Loading.  The inductive invariant says what a loaded share looks like.  *)
(* That a share is not overwritten by a later one rests on two facts of    *)
(* the layout: a share lies inside its parameter, and the shares of one    *)
(* parameter are disjoint.                                                 *)

(* Division with remainder: what the quotient and the remainder are.       *)
LEMMA DivMod ==
  ASSUME NEW n \in Nat, NEW d \in Nat \ {0}
  PROVE  /\ n \div d \in Nat
         /\ n % d \in 0 .. d - 1
         /\ n = d * (n \div d) + (n % d)
BY SMT

(* They are the only ones.                                                 *)
LEMMA DivUnique ==
  ASSUME NEW d \in Nat \ {0}, NEW q \in Nat, NEW i \in 0 .. d - 1
  PROVE  /\ (d * q + i) \div d = q
         /\ (d * q + i) % d = i
BY SMT

(* An exact quotient.                                                      *)
LEMMA DivExact ==
  ASSUME NEW d \in Nat \ {0}, NEW q \in Nat
  PROVE  (d * q) \div d = q
<1>1. (d * q + 0) \div d = q
  BY DivUnique
<1> QED BY <1>1

(* A divisor of a number that is not zero.                                 *)
LEMMA DivPositive ==
  ASSUME NEW n \in Nat \ {0}, NEW d \in Nat \ {0}, n % d = 0
  PROVE  n \div d \in Nat \ {0} /\ n = d * (n \div d)
BY DivMod

(* Products of numbers that are not zero are not zero.                     *)
LEMMA TimesPositive ==
  ASSUME NEW a \in Nat \ {0}, NEW b \in Nat \ {0}
  PROVE  a * b \in Nat \ {0}
BY SMT

(* A product with a larger factor.                                         *)
LEMMA TimesMonotone ==
  ASSUME NEW d \in Nat, NEW a \in Int, NEW b \in Int, a <= b
  PROVE  d * a <= d * b
<1>1. d * (b - a) >= 0
  BY SMT
<1> QED BY <1>1, SMT

(* Place i of share q, of a shares of d places each.                       *)
LEMMA PlaceInShare ==
  ASSUME NEW d \in Nat, NEW a \in Nat, NEW q \in 0 .. a - 1, NEW i \in 0 .. d - 1
  PROVE  d * q + i \in 0 .. d * a - 1
<1>1. d * (q + 1) <= d * a
  BY TimesMonotone
<1>2. d * (q + 1) = d * q + d /\ d * q \in Nat /\ d * a \in Nat
  BY SMT
<1> QED BY <1>1, <1>2, SMT

(* The share a place is in.                                                *)
LEMMA ShareOfPlace ==
  ASSUME NEW d \in Nat \ {0}, NEW a \in Nat \ {0}, NEW n \in 0 .. d * a - 1
  PROVE  /\ n \div d \in 0 .. a - 1
         /\ n % d \in 0 .. d - 1
         /\ n = d * (n \div d) + (n % d)
<1> DEFINE q == n \div d
           i == n % d
<1>1. n \in Nat /\ d * a \in Nat /\ n < d * a
  BY SMT
<1>2. q \in Nat /\ i \in 0 .. d - 1 /\ n = d * q + i
  BY <1>1, DivMod
<1>3. q < a
  <2> HIDE DEF q, i
  <2> SUFFICES ASSUME a <= q PROVE FALSE
    BY <1>2
  <2>1. d * a <= d * q
    BY <1>2, TimesMonotone
  <2>2. d * q \in Nat
    BY <1>2, SMT
  <2> QED BY <2>1, <2>2, <1>1, <1>2, SMT
<1> QED BY <1>2, <1>3

-----------------------------------------------------------------------------
(* The sizes.                                                              *)

Group == NumHeads \div NumKVHeads

(* The heads of a rank, by the heads that share a key head.                *)
LEMMA HeadCounts ==
  /\ num_kv_heads \in Nat \ {0} /\ NumKVHeads = WorldSize * num_kv_heads
  /\ Group \in Nat \ {0}        /\ NumHeads = NumKVHeads * Group
  /\ num_heads \in Nat \ {0}    /\ NumHeads = WorldSize * num_heads
  /\ num_heads = num_kv_heads * Group
  /\ num_heads \div num_kv_heads = Group
<1> DEFINE k == num_kv_heads
<1>1. k \in Nat \ {0} /\ NumKVHeads = WorldSize * k
  BY ModelAssumption, DivPositive DEF num_kv_heads, Share, Divides
<1>2. Group \in Nat \ {0} /\ NumHeads = NumKVHeads * Group
  BY ModelAssumption, DivPositive DEF Group, Divides
<1> HIDE DEF k
<1>3. k * Group \in Nat \ {0}
  BY <1>1, <1>2, TimesPositive
<1>4. NumHeads = WorldSize * (k * Group)
  <2>1. \A a, b, c \in Nat : (a * b) * c = a * (b * c)
    BY SMT
  <2> QED BY <2>1, <1>1, <1>2, ModelAssumption
<1>5. num_heads = k * Group
  BY <1>3, <1>4, DivExact, ModelAssumption DEF num_heads, Share
<1>6. (k * Group) \div k = Group
  BY <1>1, <1>2, DivExact
<1> QED BY <1>1, <1>2, <1>3, <1>4, <1>5, <1>6 DEF k

(* The parameters of a rank are as long as the shares in them.             *)
LEMMA Sizes ==
  /\ q_size \in Nat \ {0} /\ kv_size \in Nat \ {0}
  /\ Share(IntermediateSize) \in Nat \ {0}
  /\ num_embeddings_per_partition \in Nat \ {0}
  /\ NumHeads * HeadDim = q_size * WorldSize
  /\ IntermediateSize = Share(IntermediateSize) * WorldSize
  /\ VocabSize = num_embeddings_per_partition * WorldSize
  /\ param_size["qkv_proj"] = q_size + 2 * kv_size
  /\ param_size["o_proj"] = q_size
  /\ param_size["gate_up_proj"] = 2 * Share(IntermediateSize)
  /\ param_size["down_proj"] = Share(IntermediateSize)
  /\ param_size["embed_tokens"] = num_embeddings_per_partition
  /\ param_size["lm_head"] = num_embeddings_per_partition
<1> DEFINE W == WorldSize
           S == Share(IntermediateSize)
           V == num_embeddings_per_partition
<1>1. W \in Nat \ {0} /\ HeadDim \in Nat \ {0} /\ IntermediateSize \in Nat \ {0}
  BY ModelAssumption
<1>2. S \in Nat \ {0} /\ IntermediateSize = W * S
  BY ModelAssumption, DivPositive DEF Share, Divides
<1>3. V \in Nat \ {0} /\ VocabSize = W * V
  BY ModelAssumption, DivPositive DEF num_embeddings_per_partition, Share, Divides
<1>4. q_size \in Nat \ {0} /\ kv_size \in Nat \ {0}
  BY <1>1, HeadCounts, TimesPositive DEF q_size, kv_size
<1> HIDE DEF W, S, V
<1>5. \A a, b, c \in Nat : (a * b) * c = a * (b * c) /\ a * b = b * a
  BY SMT
<1>6. NumHeads * HeadDim = W * q_size
  <2>1. NumHeads = W * num_heads
    BY HeadCounts DEF W
  <2> QED BY <1>1, <1>5, <2>1, HeadCounts DEF q_size
<1>7. (NumHeads + 2 * NumKVHeads) * HeadDim = W * (q_size + 2 * kv_size)
  <2>1. NumHeads = W * num_heads /\ NumKVHeads = W * num_kv_heads
    BY HeadCounts DEF W
  <2>2. \A w, n, m, h \in Nat :
          (w * n + 2 * (w * m)) * h = w * (n * h + 2 * (m * h))
    BY SMT
  <2> QED BY <1>1, <2>1, <2>2, HeadCounts DEF q_size, kv_size
<1>8. 2 * IntermediateSize = W * (2 * S)
  BY <1>1, <1>2, SMT
<1>9. Share(W * q_size) = q_size
  BY <1>1, <1>4, DivExact DEF Share, W
<1>10. Share(W * (q_size + 2 * kv_size)) = q_size + 2 * kv_size
  <2>1. q_size + 2 * kv_size \in Nat
    BY <1>4
  <2> QED BY <1>1, <2>1, DivExact DEF Share, W
<1>11. Share(W * (2 * S)) = 2 * S
  <2>1. 2 * S \in Nat
    BY <1>2
  <2> QED BY <1>1, <2>1, DivExact DEF Share, W
<1>12. /\ param_size["qkv_proj"] = q_size + 2 * kv_size
       /\ param_size["o_proj"] = q_size
       /\ param_size["gate_up_proj"] = 2 * S
       /\ param_size["down_proj"] = S
       /\ param_size["embed_tokens"] = V
       /\ param_size["lm_head"] = V
  BY <1>6, <1>7, <1>8, <1>9, <1>10, <1>11 DEF param_size, S, V
<1>13. W * q_size = q_size * W /\ W * S = S * W /\ W * V = V * W
  BY <1>1, <1>2, <1>3, <1>4, <1>5
<1> QED BY <1>2, <1>3, <1>4, <1>6, <1>12, <1>13 DEF W, S, V

-----------------------------------------------------------------------------
(* The layout.                                                             *)

(* The parameter each weight is loaded into.                               *)
LEMMA NamesOfWeights ==
  /\ Weights = {"q_proj", "k_proj", "v_proj", "gate_proj", "up_proj",
                "o_proj", "down_proj", "embed_tokens", "lm_head"}
  /\ \A w \in {"q_proj", "k_proj", "v_proj"} : param_name(w) = "qkv_proj"
  /\ \A w \in {"gate_proj", "up_proj"} : param_name(w) = "gate_up_proj"
  /\ \A w \in {"o_proj", "down_proj", "embed_tokens", "lm_head"} : param_name(w) = w
BY DEF Weights, packed_modules_mapping, param_name

(* Where each share lies.                                                  *)
LEMMA Places ==
  LET S == Share(IntermediateSize)
  IN  /\ Into("q_proj") = 0 .. q_size - 1
      /\ Into("k_proj") = q_size .. q_size + kv_size - 1
      /\ Into("v_proj") = q_size + kv_size .. q_size + kv_size + kv_size - 1
      /\ Into("gate_proj") = 0 .. S - 1
      /\ Into("up_proj") = S .. S + S - 1
      /\ \A p \in {"o_proj", "down_proj", "embed_tokens", "lm_head"} :
           Into(p) = 0 .. param_size[p] - 1
<1>1. \A p \in {"o_proj", "down_proj", "embed_tokens", "lm_head"} :
        /\ param_size[p] \in Nat
        /\ shard_offset(p) = 0
        /\ shard_size(p) = param_size[p]
  BY Sizes, NamesOfWeights DEF shard_offset, shard_size
<1> QED BY <1>1, Sizes DEF Into, shard_offset, shard_size

(* A share lies in its parameter.                                          *)
LEMMA IntoRows ==
  ASSUME NEW w \in Weights
  PROVE  Into(w) \subseteq Rows(param_name(w)) /\ param_name(w) \in Params
<1>1. CASE w \in {"q_proj", "k_proj", "v_proj"}
  <2>1. Rows(param_name(w)) = 0 .. q_size + 2 * kv_size - 1
    BY <1>1, Sizes, NamesOfWeights DEF Rows
  <2>2. Into(w) \subseteq 0 .. q_size + 2 * kv_size - 1
    BY <1>1, Sizes, Places, SMTT(30)
  <2> QED BY <1>1, <2>1, <2>2, NamesOfWeights DEF Params
<1>2. CASE w \in {"gate_proj", "up_proj"}
  <2>1. Rows(param_name(w)) = 0 .. 2 * Share(IntermediateSize) - 1
    BY <1>2, Sizes, NamesOfWeights DEF Rows
  <2>2. Into(w) \subseteq 0 .. 2 * Share(IntermediateSize) - 1
    BY <1>2, Sizes, Places, SMTT(30)
  <2> QED BY <1>2, <2>1, <2>2, NamesOfWeights DEF Params
<1>3. CASE w \in {"o_proj", "down_proj", "embed_tokens", "lm_head"}
  BY <1>3, Places, NamesOfWeights DEF Rows, Params
<1> QED BY <1>1, <1>2, <1>3, NamesOfWeights

(* The shares of a parameter are disjoint.                                 *)
LEMMA IntoDisjoint ==
  ASSUME NEW w \in Weights, NEW v \in Weights, w # v, param_name(w) = param_name(v)
  PROVE  Into(w) \cap Into(v) = {}
<1>1. CASE w \in {"q_proj", "k_proj", "v_proj"}
  <2>1. v \in {"q_proj", "k_proj", "v_proj"}
    BY <1>1, NamesOfWeights
  <2>2. /\ Into("q_proj") \cap Into("k_proj") = {}
        /\ Into("q_proj") \cap Into("v_proj") = {}
        /\ Into("k_proj") \cap Into("v_proj") = {}
    BY Sizes, Places
  <2> QED BY <1>1, <2>1, <2>2
<1>2. CASE w \in {"gate_proj", "up_proj"}
  <2>1. v \in {"gate_proj", "up_proj"}
    BY <1>2, NamesOfWeights
  <2>2. Into("gate_proj") \cap Into("up_proj") = {}
    BY Sizes, Places
  <2> QED BY <1>2, <2>1, <2>2
<1>3. CASE w \in {"o_proj", "down_proj", "embed_tokens", "lm_head"}
  BY <1>3, NamesOfWeights
<1> QED BY <1>1, <1>2, <1>3, NamesOfWeights

-----------------------------------------------------------------------------
(* The inductive invariant: a loaded share is in its place.                *)
SharesInPlace ==
  /\ loaded \in [Ranks -> SUBSET Weights]
  /\ param = [r \in Ranks |-> [p \in Params |-> param[r][p]]]
  /\ \A r \in Ranks : \A w \in loaded[r] : \A x \in Into(w) :
       param[r][param_name(w)][x] = <<w, start_idx(r, w) + x - shard_offset(w)>>

(* Nothing is loaded at the start.                                         *)
LEMMA SharesInPlaceInit == ShardInit => SharesInPlace
BY DEF ShardInit, SharesInPlace

(* A load puts a share where it belongs.                                   *)
LEMMA SharesInPlaceNext == SharesInPlace /\ [ShardNext]_shardVars => SharesInPlace'
<1> SUFFICES ASSUME SharesInPlace, [ShardNext]_shardVars PROVE SharesInPlace'
  OBVIOUS
<1>1. CASE UNCHANGED shardVars
  BY <1>1 DEF SharesInPlace, shardVars
<1>2. ASSUME NEW r \in Ranks, NEW w \in Weights, LoadWeight(r, w)
      PROVE  SharesInPlace'
  <2> DEFINE n == param_name(w)
  <2>1. n \in Params
    BY IntoRows
  <2>2. loaded' \in [Ranks -> SUBSET Weights]
    BY <1>2 DEF SharesInPlace, LoadWeight
  <2>3. param' = [q \in Ranks |-> [p \in Params |-> param'[q][p]]]
    BY <1>2, <2>1 DEF SharesInPlace, LoadWeight
  <2>4. \A x \in Into(w) : param'[r][n][x] = <<w, start_idx(r, w) + x - shard_offset(w)>>
    BY <1>2, <2>1, IntoRows DEF SharesInPlace, LoadWeight
  <2>5. \A q \in Ranks, p \in Params :
          q # r \/ p # n => param'[q][p] = param[q][p]
    BY <1>2, <2>1 DEF SharesInPlace, LoadWeight
  <2>6. \A x \in Rows(n) : x \notin Into(w) => param'[r][n][x] = param[r][n][x]
    BY <1>2, <2>1 DEF SharesInPlace, LoadWeight
  <2>7. ASSUME NEW q \in Ranks, NEW v \in loaded'[q], NEW x \in Into(v)
        PROVE  param'[q][param_name(v)][x] = <<v, start_idx(q, v) + x - shard_offset(v)>>
    <3>1. CASE q = r /\ v = w
      BY <2>4, <3>1
    <3>2. CASE ~ (q = r /\ v = w)
      <4>1. v \in loaded[q] /\ v \in Weights
        BY <1>2, <3>2 DEF SharesInPlace, LoadWeight
      <4>2. param[q][param_name(v)][x] = <<v, start_idx(q, v) + x - shard_offset(v)>>
        BY <4>1 DEF SharesInPlace
      <4>3. CASE q # r \/ param_name(v) # n
        BY <4>1, <4>2, <4>3, <2>5, IntoRows
      <4>4. CASE q = r /\ param_name(v) = n
        <5>1. x \in Rows(n) /\ x \notin Into(w)
          BY <3>2, <4>1, <4>4, IntoRows, IntoDisjoint
        <5> QED BY <5>1, <4>2, <4>4, <2>6
      <4> QED BY <4>3, <4>4
    <3> QED BY <3>1, <3>2
  <2> QED BY <2>2, <2>3, <2>7 DEF SharesInPlace, start_idx, shard_size, shard_offset, Into
<1> QED BY <1>1, <1>2 DEF ShardNext

(* Every share loaded lies where the parallel layer reads it.              *)
THEOREM SharesStayInPlace == ShardSpec => []SharesInPlace
BY SharesInPlaceInit, SharesInPlaceNext, PTL DEF ShardSpec

-----------------------------------------------------------------------------
(* What the forward pass finds once everything is loaded.                  *)

(* Query head j of rank r is head r * num_heads + j of the model, and      *)
(* belongs to the group of its key head.                                   *)
LEMMA HeadsMeet ==
  ASSUME NEW r \in Ranks, NEW j \in 0 .. num_heads - 1
  PROVE  /\ KVHeadOf(j) \in 0 .. num_kv_heads - 1
         /\ num_heads * r + j \in 0 .. NumHeads - 1
         /\ (num_heads * r + j) \div Group = num_kv_heads * r + KVHeadOf(j)
<1>1. r \in 0 .. WorldSize - 1 /\ WorldSize \in Nat
  BY ModelAssumption DEF Ranks
<1>2. num_heads * r + j \in 0 .. num_heads * WorldSize - 1
  BY <1>1, HeadCounts, PlaceInShare
<1>3. num_heads * WorldSize = WorldSize * num_heads
  BY <1>1, HeadCounts
<1>4. KVHeadOf(j) = j \div Group
  BY HeadCounts DEF KVHeadOf
<1>5. num_heads = Group * num_kv_heads
  BY HeadCounts
<1>6. /\ j \div Group \in 0 .. num_kv_heads - 1
      /\ j % Group \in 0 .. Group - 1
      /\ j = Group * (j \div Group) + (j % Group)
  <2>1. Group \in Nat \ {0} /\ num_kv_heads \in Nat \ {0}
    BY HeadCounts
  <2>2. j \in 0 .. Group * num_kv_heads - 1
    BY <1>5
  <2> QED BY <2>1, <2>2, ShareOfPlace
<1> DEFINE q == num_kv_heads * r + j \div Group
<1>7. num_heads * r + j = Group * q + (j % Group)
  <2>1. \A g, k, a, b, c \in Nat : (g * k) * a + (g * b + c) = g * (k * a + b) + c
    BY SMT
  <2>2. /\ Group \in Nat /\ num_kv_heads \in Nat /\ r \in Nat
        /\ j \div Group \in Nat /\ j % Group \in Nat
    BY <1>1, <1>6, HeadCounts
  <2>3. (Group * num_kv_heads) * r + (Group * (j \div Group) + (j % Group))
          = Group * q + (j % Group)
    <3> DEFINE b == j \div Group
               c == j % Group
    <3>1. b \in Nat /\ c \in Nat
      BY <2>2
    <3> HIDE DEF b, c
    <3>2. (Group * num_kv_heads) * r + (Group * b + c) = Group * (num_kv_heads * r + b) + c
      BY <2>1, <2>2, <3>1
    <3> QED BY <3>2 DEF b, c
  <2> QED BY <1>5, <1>6, <2>3
<1>8. q \in Nat
  BY <1>1, <1>6, HeadCounts
<1> HIDE DEF q
<1>9. (Group * q + (j % Group)) \div Group = q
  BY <1>6, <1>8, HeadCounts, DivUnique
<1> QED BY <1>2, <1>3, <1>4, <1>6, <1>7, <1>9, HeadCounts DEF q

(* Attention: every local query head is a whole head of the model and      *)
(* reads the keys and values of its own group.                             *)
THEOREM HeadsAreGrouped == ShardSpec => []HeadsGrouped
<1>1. SharesInPlace => HeadsGrouped
  <2> SUFFICES ASSUME SharesInPlace, Loaded, NEW r \in Ranks, NEW j \in 0 .. num_heads - 1
               PROVE  \E h \in 0 .. NumHeads - 1 :
                        LET g == h \div (NumHeads \div NumKVHeads)
                        IN  \A d \in 0 .. HeadDim - 1 :
                              /\ QueryRow(r, j, d) = <<"q_proj", h * HeadDim + d>>
                              /\ KeyRow(r, KVHeadOf(j), d) = <<"k_proj", g * HeadDim + d>>
                              /\ ValueRow(r, KVHeadOf(j), d) = <<"v_proj", g * HeadDim + d>>
    BY DEF HeadsGrouped
  <2> DEFINE h == num_heads * r + j
             i == KVHeadOf(j)
             g == num_kv_heads * r + i
  <2>1. h \in 0 .. NumHeads - 1 /\ i \in 0 .. num_kv_heads - 1
    BY HeadsMeet
  <2>2. h \div (NumHeads \div NumKVHeads) = g
    BY HeadsMeet DEF Group
  <2>3. r \in Nat /\ HeadDim \in Nat \ {0}
    BY ModelAssumption DEF Ranks
  <2>4. \A w \in {"q_proj", "k_proj", "v_proj"} : \A x \in Into(w) :
          param[r]["qkv_proj"][x] = <<w, start_idx(r, w) + x - shard_offset(w)>>
    BY NamesOfWeights DEF SharesInPlace, Loaded
  <2>5. \A d \in 0 .. HeadDim - 1 :
          /\ QueryRow(r, j, d) = <<"q_proj", h * HeadDim + d>>
          /\ KeyRow(r, i, d) = <<"k_proj", g * HeadDim + d>>
          /\ ValueRow(r, i, d) = <<"v_proj", g * HeadDim + d>>
    <3> HIDE DEF i
    <3> TAKE d \in 0 .. HeadDim - 1
    <3>1. /\ HeadDim * j + d \in 0 .. HeadDim * num_heads - 1
          /\ HeadDim * i + d \in 0 .. HeadDim * num_kv_heads - 1
      BY <2>1, <2>3, HeadCounts, PlaceInShare
    <3>2. q_size = HeadDim * num_heads /\ kv_size = HeadDim * num_kv_heads
      BY <2>3, HeadCounts DEF q_size, kv_size
    <3>3. j * HeadDim = HeadDim * j /\ i * HeadDim = HeadDim * i
      BY <2>1, <2>3, HeadCounts
    <3>4. /\ j * HeadDim + d \in Into("q_proj")
          /\ q_size + i * HeadDim + d \in Into("k_proj")
          /\ q_size + kv_size + i * HeadDim + d \in Into("v_proj")
      <4> DEFINE a == HeadDim * j + d
                 b == HeadDim * i + d
      <4>1. a \in 0 .. q_size - 1 /\ b \in 0 .. kv_size - 1
        BY <3>1, <3>2
      <4>2. /\ j * HeadDim + d = a
            /\ q_size + i * HeadDim + d = q_size + b
            /\ q_size + kv_size + i * HeadDim + d = q_size + kv_size + b
        BY <2>1, <2>3, <3>3, Sizes, HeadCounts
      <4>3. q_size \in Nat /\ kv_size \in Nat
        BY Sizes
      <4> HIDE DEF a, b
      <4>4. /\ a \in Into("q_proj")
            /\ q_size + b \in Into("k_proj")
            /\ q_size + kv_size + b \in Into("v_proj")
        BY <4>1, <4>3, Places
      <4> QED BY <4>2, <4>4
    <3>5. /\ start_idx(r, "q_proj") = r * q_size /\ shard_offset("q_proj") = 0
          /\ start_idx(r, "k_proj") = r * kv_size /\ shard_offset("k_proj") = q_size
          /\ start_idx(r, "v_proj") = r * kv_size
          /\ shard_offset("v_proj") = q_size + kv_size
      BY DEF start_idx, shard_size, shard_offset
    <3>6. /\ r * q_size + (j * HeadDim + d) - 0 = h * HeadDim + d
          /\ r * kv_size + (q_size + i * HeadDim + d) - q_size = g * HeadDim + d
          /\ r * kv_size + (q_size + kv_size + i * HeadDim + d) - (q_size + kv_size)
               = g * HeadDim + d
      <4>1. \A a, n, m, e \in Nat : a * (n * e) + m * e = (n * a + m) * e
        BY SMT
      <4>2. r * q_size + j * HeadDim = h * HeadDim
        BY <4>1, <2>3, HeadCounts DEF q_size
      <4>3. r * kv_size + i * HeadDim = g * HeadDim
        BY <4>1, <2>1, <2>3, HeadCounts DEF kv_size
      <4>4. /\ r * q_size \in Nat /\ r * kv_size \in Nat
            /\ j * HeadDim \in Nat /\ i * HeadDim \in Nat
            /\ h * HeadDim \in Nat /\ g * HeadDim \in Nat
        BY <2>1, <2>3, HeadCounts, Sizes
      <4> QED BY <4>2, <4>3, <4>4, Sizes
    <3> QED BY <2>4, <3>4, <3>5, <3>6 DEF QueryRow, KeyRow, ValueRow
  <2> QED BY <2>1, <2>2, <2>5
<1> QED BY <1>1, SharesStayInPlace, PTL

(* The row-parallel layers: every feature is on one rank and meets the     *)
(* column it belongs to.                                                   *)
THEOREM FeaturesDoMeetColumns == ShardSpec => []FeaturesMeetColumns
<1>1. SharesInPlace => FeaturesMeetColumns
  <2> SUFFICES ASSUME SharesInPlace, Loaded PROVE FeaturesMeetColumns
    BY DEF FeaturesMeetColumns
  <2>1. \A r \in Ranks, w \in Weights : \A x \in Into(w) :
          param[r][param_name(w)][x] = <<w, start_idx(r, w) + x - shard_offset(w)>>
    BY DEF SharesInPlace, Loaded
  <2>2. ASSUME NEW f \in 0 .. NumHeads * HeadDim - 1
        PROVE  \E r \in Ranks : \E c \in Rows("o_proj") :
                 /\ param[r]["qkv_proj"][c] = <<"q_proj", f>>
                 /\ param[r]["o_proj"][c] = <<"o_proj", f>>
    <3> DEFINE r == f \div q_size
               c == f % q_size
    <3>1. r \in Ranks /\ c \in 0 .. q_size - 1 /\ f = q_size * r + c
      <4>1. f \in 0 .. q_size * WorldSize - 1 /\ q_size \in Nat \ {0}
        BY Sizes
      <4> QED BY <4>1, ShareOfPlace, ModelAssumption DEF Ranks
    <3> HIDE DEF r, c
    <3>2. c \in Into("q_proj") /\ c \in Into("o_proj") /\ c \in Rows("o_proj")
      BY <3>1, Places, Sizes DEF Rows
    <3>3. /\ start_idx(r, "q_proj") + c - shard_offset("q_proj") = f
          /\ start_idx(r, "o_proj") + c - shard_offset("o_proj") = f
      <4>1. /\ start_idx(r, "q_proj") = r * q_size /\ shard_offset("q_proj") = 0
            /\ start_idx(r, "o_proj") = r * q_size /\ shard_offset("o_proj") = 0
        BY Sizes, NamesOfWeights DEF start_idx, shard_size, shard_offset
      <4>2. r * q_size = q_size * r /\ q_size * r \in Nat
        BY <3>1, Sizes DEF Ranks
      <4> QED BY <3>1, <4>1, <4>2, Sizes
    <3> QED BY <2>1, <3>1, <3>2, <3>3, NamesOfWeights
  <2>3. ASSUME NEW f \in 0 .. IntermediateSize - 1
        PROVE  \E r \in Ranks : \E c \in Rows("down_proj") :
                 /\ GateRow(r, c) = <<"gate_proj", f>>
                 /\ UpRow(r, c) = <<"up_proj", f>>
                 /\ param[r]["down_proj"][c] = <<"down_proj", f>>
    <3> DEFINE S == Share(IntermediateSize)
               r == f \div S
               c == f % S
    <3>0. S \in Nat \ {0}
      BY Sizes
    <3>1. r \in Ranks /\ c \in 0 .. S - 1 /\ f = S * r + c
      <4>1. f \in 0 .. S * WorldSize - 1
        BY Sizes
      <4> HIDE DEF S
      <4> QED BY <3>0, <4>1, ShareOfPlace, ModelAssumption DEF Ranks
    <3> HIDE DEF r, c
    <3>2. /\ c \in Into("gate_proj") /\ c + S \in Into("up_proj")
          /\ c \in Into("down_proj") /\ c \in Rows("down_proj")
      BY <3>1, Places, Sizes, SMTT(30) DEF Rows
    <3>3. param_size["gate_up_proj"] \div 2 = S
      BY Sizes, DivExact
    <3>4. /\ start_idx(r, "gate_proj") + c - shard_offset("gate_proj") = f
          /\ start_idx(r, "up_proj") + (c + S) - shard_offset("up_proj") = f
          /\ start_idx(r, "down_proj") + c - shard_offset("down_proj") = f
      <4>1. /\ start_idx(r, "gate_proj") = r * S /\ shard_offset("gate_proj") = 0
            /\ start_idx(r, "up_proj") = r * S /\ shard_offset("up_proj") = S
            /\ start_idx(r, "down_proj") = r * S /\ shard_offset("down_proj") = 0
        BY Sizes, NamesOfWeights DEF start_idx, shard_size, shard_offset
      <4> HIDE DEF S
      <4>2. r * S = S * r /\ S * r \in Nat
        BY <3>0, <3>1 DEF Ranks
      <4> QED BY <3>0, <3>1, <4>1, <4>2
    <3> QED BY <2>1, <3>1, <3>2, <3>3, <3>4, NamesOfWeights DEF GateRow, UpRow
  <2> QED BY <2>2, <2>3 DEF FeaturesMeetColumns
<1> QED BY <1>1, SharesStayInPlace, PTL

(* The vocabulary: one rank embeds a token, with its own row, and the      *)
(* gathered logits are in order.                                           *)
THEOREM VocabularyIsInOrder == ShardSpec => []VocabularyInOrder
<1>1. SharesInPlace => VocabularyInOrder
  <2> SUFFICES ASSUME SharesInPlace, Loaded, NEW t \in 0 .. VocabSize - 1
               PROVE  EmbeddingRows(t) = {<<"embed_tokens", t>>} /\ LogitRow(t) = <<"lm_head", t>>
    BY DEF VocabularyInOrder
  <2> DEFINE n == num_embeddings_per_partition
             r == t \div n
             x == t % n
  <2>1. n \in Nat \ {0} /\ VocabSize = n * WorldSize
    BY Sizes
  <2> HIDE DEF n
  <2>2. r \in Ranks /\ x \in 0 .. n - 1 /\ t = n * r + x
    BY <2>1, ShareOfPlace, ModelAssumption DEF Ranks
  <2> HIDE DEF r, x
  <2>3. n * r \in Nat /\ r \in Nat /\ r * n = n * r
    BY <2>1, <2>2 DEF Ranks
  <2>4. \A w \in {"embed_tokens", "lm_head"} : param[r][w][x] = <<w, t>>
    <3> TAKE w \in {"embed_tokens", "lm_head"}
    <3>1. x \in Into(w) /\ w \in Weights /\ param_name(w) = w
      BY <2>2, Places, Sizes, NamesOfWeights DEF n
    <3>2. param[r][w][x] = <<w, start_idx(r, w) + x - shard_offset(w)>>
      BY <2>2, <3>1 DEF SharesInPlace, Loaded
    <3>3. start_idx(r, w) = r * n /\ shard_offset(w) = 0
      BY Sizes, NamesOfWeights DEF n, start_idx, shard_size, shard_offset
    <3> QED BY <2>1, <2>2, <2>3, <3>2, <3>3
  <2>5. \A q \in Ranks : t >= n * q /\ t < n * q + n <=> q = r
    <3> TAKE q \in Ranks
    <3>1. q \in Nat /\ n * q \in Nat
      BY <2>1 DEF Ranks
    <3>2. CASE q = r
      BY <2>1, <2>2, <2>3, <3>2
    <3>3. CASE q < r
      <4>1. n * (q + 1) <= n * r
        BY <2>1, <2>3, <3>1, <3>3, TimesMonotone
      <4>2. n * (q + 1) = n * q + n
        BY <2>1, <3>1
      <4> QED BY <2>1, <2>2, <2>3, <3>1, <3>3, <4>1, <4>2
    <3>4. CASE q > r
      <4>1. n * (r + 1) <= n * q
        BY <2>1, <2>3, <3>1, <3>4, TimesMonotone
      <4>2. n * (r + 1) = n * r + n
        BY <2>1, <2>3
      <4> QED BY <2>1, <2>2, <2>3, <3>1, <3>4, <4>1, <4>2
    <3> QED BY <2>3, <3>1, <3>2, <3>3, <3>4
  <2>6. \A q \in Ranks : vocab_start_idx(q) = n * q
    BY DEF vocab_start_idx, n
  <2>7. EmbeddingRows(t) = {param[r]["embed_tokens"][t - n * r]}
    BY <2>2, <2>5, <2>6 DEF EmbeddingRows, n
  <2>8. t - n * r = x
    BY <2>1, <2>2, <2>3
  <2>9. LogitRow(t) = param[r]["lm_head"][x]
    BY DEF LogitRow, n, r, x
  <2> QED BY <2>4, <2>7, <2>8, <2>9
<1> QED BY <1>1, SharesStayInPlace, PTL

-----------------------------------------------------------------------------
(* The types, with the calls that can be where.                            *)
Collectives == {"warmup", "barrier", "run", "exit"} \X Nat
RunCalls ==
  [method : {"run"}, id : Nat, is_prefill : BOOLEAN, batch : Batches]
Calls == {NoCall, Exit} \cup RunCalls

ZeroPlaces ==
  {"load", "warmup", "barrier", "ready", "write", "set", "run", "collect"}
WorkerPlaces ==
  {"load", "warmup", "barrier", "open", "wait", "clear", "run", "exit", "leave", "gone"}
Calling == {"write", "set", "run", "collect"}

Typed ==
  /\ files \in Checkpoints
  /\ loaded \in [Ranks -> SUBSET Weights]
  /\ pc \in [Ranks -> ZeroPlaces \cup WorkerPlaces]
  /\ pc[0] \in ZeroPlaces
  /\ \A w \in Workers : pc[w] \in WorkerPlaces
  /\ stopper \in {"no", "write", "set", "barrier", "join", "done"}
  /\ to_set \in [{"executor", "stopper"} -> 1 .. WorldSize]
  /\ calls \in Nat
  /\ raced \in BOOLEAN
  /\ shm \in Calls
  /\ event \in [Workers -> BOOLEAN]
  /\ call \in [Ranks -> Calls]
  /\ queued \in [Ranks -> Seq(Collectives)]
  /\ pc[0] \in Calling => call[0] \in RunCalls
  /\ pc[0] = "set" \/ stopper = "set" => shm # NoCall
  /\ \A w \in Workers :
       /\ event[w] => shm # NoCall
       /\ pc[w] = "clear" => call[w] # NoCall
       /\ pc[w] = "run" => call[w] \in RunCalls

(* The calls and their methods.                                            *)
LEMMA Methods ==
  /\ NoCall.method = "none" /\ Exit.method = "exit"
  /\ \A c \in RunCalls : c.method = "run" /\ c.id \in Nat /\ c.batch \in Batches
  /\ \A c \in Calls : c.method = "run" => c \in RunCalls
  /\ \A c \in Calls : c # NoCall => c.method \in {"run", "exit"}
  /\ \A c \in Calls : c.method = "exit" => c = Exit
BY DEF NoCall, Exit, RunCalls, Calls

(* Rank 0 is a rank and not a worker.                                      *)
LEMMA ZeroIsARank == 0 \in Ranks /\ 0 \notin Workers /\ Workers \subseteq Ranks
BY ModelAssumption DEF Ranks, Workers

(* The workers are numbered from 1.                                        *)
LEMMA WorkersAreNumbers == Workers = 1 .. WorldSize - 1 /\ WorldSize \in Nat \ {0}
BY ModelAssumption DEF Ranks, Workers

(* A rank that has not loaded everything has a tensor to load.             *)
LEMMA NextTensor ==
  ASSUME NEW f \in Checkpoints, NEW L \in SUBSET Weights, L # Weights
  PROVE  f[Cardinality(L) + 1] \in Weights
<1>1. IsFiniteSet(Weights)
  <2>1. \A x, y, z : IsFiniteSet({x, y, z})
    <3> TAKE x, y, z
    <3>1. IsFiniteSet({x} \cup {y}) /\ IsFiniteSet({z})
      BY FS_Singleton, FS_Union
    <3>2. IsFiniteSet(({x} \cup {y}) \cup {z})
      BY <3>1, FS_Union
    <3>3. {x, y, z} = ({x} \cup {y}) \cup {z}
      OBVIOUS
    <3> QED BY <3>2, <3>3
  <2> DEFINE A == {"q_proj", "k_proj", "v_proj"}
             B == {"gate_proj", "up_proj", "o_proj"}
             C == {"down_proj", "embed_tokens", "lm_head"}
  <2>2. Weights = (A \cup B) \cup C
    BY NamesOfWeights
  <2>3. IsFiniteSet(A) /\ IsFiniteSet(B) /\ IsFiniteSet(C)
    BY <2>1
  <2> HIDE DEF A, B, C
  <2> QED BY <2>2, <2>3, FS_Union
<1>2. Cardinality(L) \in Nat /\ Cardinality(L) < Cardinality(Weights)
  BY <1>1, FS_Subset, FS_CardinalityType
<1>3. f \in Seq(Weights) /\ Len(f) = Cardinality(Weights)
  BY CheckpointsAssumption
<1> QED BY <1>2, <1>3

(* The start of the ranks.                                                 *)
LEMMA TypedInit == RunnerInit => Typed
<1> SUFFICES ASSUME RunnerInit PROVE Typed
  OBVIOUS
<1>1. loaded \in [Ranks -> SUBSET Weights]
  BY DEF RunnerInit, ShardInit
<1>2. pc \in [Ranks -> ZeroPlaces \cup WorkerPlaces] /\ \A r \in Ranks : pc[r] = "load"
  BY DEF RunnerInit, ZeroPlaces, WorkerPlaces
<1>3. to_set \in [{"executor", "stopper"} -> 1 .. WorldSize]
  BY ModelAssumption DEF RunnerInit
<1>4. call \in [Ranks -> Calls] /\ shm \in Calls
  BY DEF RunnerInit, Calls
<1>5. queued \in [Ranks -> Seq(Collectives)] /\ event \in [Workers -> BOOLEAN]
  BY DEF RunnerInit
<1>6. \A w \in Workers : ~ event[w]
  BY DEF RunnerInit
<1> QED
  BY <1>1, <1>2, <1>3, <1>4, <1>5, <1>6, ZeroIsARank
  DEF RunnerInit, Typed, ZeroPlaces, WorkerPlaces, Calling

(* A step of the ranks keeps the types.                                    *)
LEMMA TypedNext == Typed /\ [RunnerNext]_runVars => Typed'
<1> SUFFICES ASSUME Typed, [RunnerNext]_runVars PROVE Typed'
  OBVIOUS
<1> USE ZeroIsARank DEF Typed, ZeroPlaces, WorkerPlaces, Calling
<1>1. CASE UNCHANGED runVars
  BY <1>1 DEF runVars, shardVars, shmVars, boundVars
<1>2. ASSUME NEW r \in Ranks, Load(r) PROVE Typed'
  BY <1>2, NextTensor DEF Load, LoadWeight, shmVars, boundVars
<1>3. ASSUME NEW r \in Ranks, WarmUp(r) PROVE Typed'
  <2>1. <<"warmup", 0>> \in Collectives
    BY DEF Collectives
  <2> QED BY <1>3, <2>1 DEF WarmUp, Queue, Goto, shardVars, shmVars, boundVars
<1>4. ASSUME NEW r \in Ranks, MeetBarrier(r) PROVE Typed'
  <2>1. <<"barrier", 0>> \in Collectives
    BY DEF Collectives
  <2> QED BY <1>4, <2>1 DEF MeetBarrier, Queue, Goto, shardVars, boundVars
<1>5. ASSUME NEW r \in Ranks, PassBarrier(r) PROVE Typed'
  BY <1>5 DEF PassBarrier, Goto, Workers, shardVars, shmVars, boundVars
<1>6. ASSUME NEW r \in Ranks, QueueRun(r) PROVE Typed'
  <2>1. call[r].id \in Nat
    BY <1>6, Methods DEF QueueRun, Workers
  <2>2. <<"run", call[r].id>> \in Collectives
    BY <2>1 DEF Collectives
  <2> QED BY <1>6, <2>2 DEF QueueRun, Queue, Goto, Workers, shardVars, shmVars, boundVars
<1>7. ASSUME NEW w \in Workers, OpenShm(w) PROVE Typed'
  BY <1>7 DEF OpenShm, Goto, shardVars, shmVars, boundVars
<1>8. ASSUME NEW w \in Workers, ReadShm(w) PROVE Typed'
  BY <1>8 DEF ReadShm, Goto, shardVars, shmVars, boundVars
<1>9. ASSUME NEW w \in Workers, ClearEvent(w) PROVE Typed'
  <2>1. call[w].method \in {"run", "exit"} /\ (call[w].method = "run" => call[w] \in RunCalls)
    BY <1>9, Methods DEF ClearEvent
  <2> QED BY <1>9, <2>1 DEF ClearEvent, Goto, shardVars, boundVars
<1>10. ASSUME NEW w \in Workers, ExitOnWorker(w) PROVE Typed'
  <2>1. <<"exit", 0>> \in Collectives
    BY DEF Collectives
  <2> QED BY <1>10, <2>1 DEF ExitOnWorker, Queue, Goto, shardVars, shmVars, boundVars
<1>11. ASSUME NEW w \in Workers, Leave(w) PROVE Typed'
  BY <1>11 DEF Leave, Goto, shardVars, shmVars, boundVars
<1>12. ASSUME NEW p \in BOOLEAN, NEW b \in Batches, BeginRun(p, b) PROVE Typed'
  <2>1. Run(calls + 1, p, b) \in RunCalls /\ Run(calls + 1, p, b) \in Calls
    BY DEF Run, RunCalls, Calls
  <2> QED BY <1>12, <2>1 DEF BeginRun, Goto, shardVars, shmVars
<1>13. CASE WriteRun
  BY <1>13, Methods, ModelAssumption DEF WriteRun, Write, Goto, shardVars, boundVars
<1>14. CASE SetForRun
  <2>1. to_set["executor"] \in 1 .. WorldSize - 1
    BY <1>14, WorkersAreNumbers DEF SetForRun, SetNext
  <2>2. to_set' \in [{"executor", "stopper"} -> 1 .. WorldSize]
    <3>1. to_set["executor"] + 1 \in 1 .. WorldSize
      BY <2>1, WorkersAreNumbers
    <3> QED BY <1>14, <3>1 DEF SetForRun, SetNext
  <2>3. event' \in [Workers -> BOOLEAN]
    BY <1>14 DEF SetForRun, SetNext
  <2> QED BY <1>14, <2>2, <2>3 DEF SetForRun, SetNext, shardVars, boundVars
<1>15. CASE RunOnRankZero
  BY <1>15 DEF RunOnRankZero, Goto, shardVars, shmVars, boundVars
<1>16. CASE Collect
  BY <1>16 DEF Collect, Goto, shardVars, shmVars, boundVars
<1>17. CASE BeginExit
  BY <1>17 DEF BeginExit, shardVars, shmVars
<1>18. CASE WriteExit
  BY <1>18, Methods, ModelAssumption DEF WriteExit, Write, Calls, shardVars, boundVars
<1>19. CASE SetForExit
  <2>1. to_set["stopper"] \in 1 .. WorldSize - 1
    BY <1>19, WorkersAreNumbers DEF SetForExit, SetNext
  <2>2. to_set' \in [{"executor", "stopper"} -> 1 .. WorldSize]
    <3>1. to_set["stopper"] + 1 \in 1 .. WorldSize
      BY <2>1, WorkersAreNumbers
    <3> QED BY <1>19, <3>1 DEF SetForExit, SetNext
  <2>3. event' \in [Workers -> BOOLEAN]
    BY <1>19 DEF SetForExit, SetNext
  <2> QED BY <1>19, <2>2, <2>3 DEF SetForExit, SetNext, shardVars, boundVars
<1>20. CASE ExitOnRankZero
  <2>1. <<"exit", 0>> \in Collectives
    BY DEF Collectives
  <2> QED BY <1>20, <2>1 DEF ExitOnRankZero, Queue, shardVars, shmVars, boundVars
<1>21. CASE Unlink
  BY <1>21 DEF Unlink, shardVars, boundVars
<1>22. CASE Join
  BY <1>22 DEF Join, shardVars, shmVars, boundVars
<1> QED
  BY <1>1, <1>2, <1>3, <1>4, <1>5, <1>6, <1>7, <1>8, <1>9, <1>10, <1>11, <1>12,
     <1>13, <1>14, <1>15, <1>16, <1>17, <1>18, <1>19, <1>20, <1>21, <1>22
  DEF RunnerNext, RankStep, WorkerStep, ExecutorStep, StopperStep

(* The types hold throughout.                                              *)
LEMMA AlwaysTyped == RunnerSpec => []Typed
BY TypedInit, TypedNext, PTL DEF RunnerSpec

(* The variables have their types: a worker never takes an empty segment   *)
(* for a call.                                                             *)
THEOREM RunnerTypes == RunnerSpec => []RunnerTypeOK
<1>1. Typed => RunnerTypeOK
  BY Methods, ZeroIsARank
     DEF Typed, RunnerTypeOK, ZeroPlaces, WorkerPlaces, Calls, Workers
<1> QED BY <1>1, AlwaysTyped, PTL

-----------------------------------------------------------------------------
(* Loading: the ranks of an engine load as ShardSpec says, so the shares   *)
(* combine to the unsplit model whatever order the files come in.          *)
LEMMA StepsLoad == Typed /\ [RunnerNext]_runVars => [ShardNext]_shardVars
<1> SUFFICES ASSUME Typed, RunnerNext PROVE [ShardNext]_shardVars
  BY DEF runVars
<1>1. ASSUME NEW r \in Ranks, Load(r) PROVE ShardNext
  BY <1>1, NextTensor DEF Load, Typed, ShardNext
<1>2. ASSUME NEW r \in Ranks, WarmUp(r) \/ MeetBarrier(r) \/ PassBarrier(r) \/ QueueRun(r)
      PROVE  UNCHANGED shardVars
  BY <1>2 DEF WarmUp, MeetBarrier, PassBarrier, QueueRun
<1>3. ASSUME NEW w \in Workers, WorkerStep(w) PROVE UNCHANGED shardVars
  BY <1>3 DEF WorkerStep, OpenShm, ReadShm, ClearEvent, ExitOnWorker, Leave
<1>4. ASSUME NEW p \in BOOLEAN, NEW b \in Batches, BeginRun(p, b) PROVE UNCHANGED shardVars
  BY <1>4 DEF BeginRun
<1>5. CASE ExecutorStep
  BY <1>5 DEF ExecutorStep, WriteRun, SetForRun, RunOnRankZero, Collect
<1>6. CASE BeginExit \/ StopperStep
  BY <1>6 DEF BeginExit, StopperStep, WriteExit, SetForExit, ExitOnRankZero, Unlink, Join
<1> QED BY <1>1, <1>2, <1>3, <1>4, <1>5, <1>6 DEF RunnerNext, RankStep

(* Each rank loads its weights as WeightSharding says.                     *)
THEOREM RunnerLoadsShares == RunnerSpec => ShardSpec
<1>1. RunnerInit => ShardInit
  BY DEF RunnerInit
<1> QED BY <1>1, StepsLoad, AlwaysTyped, PTL DEF RunnerSpec, ShardSpec

(* What holds of the shares holds on the ranks of an engine.               *)
THEOREM RunnerSharesCombine ==
  RunnerSpec => [](HeadsGrouped /\ FeaturesMeetColumns /\ VocabularyInOrder)
BY RunnerLoadsShares, HeadsAreGrouped, FeaturesDoMeetColumns, VocabularyIsInOrder, PTL

-----------------------------------------------------------------------------
(* The captured graphs.                                                    *)

(* There is a graph for every batch up to max_num_seqs exactly when        *)
(* max_num_seqs is at most 8 or a multiple of 16; for the others next()    *)
(* raises when a decode of the largest batch looks for its graph.          *)
GraphsSuffice == MaxNumSeqs <= 8 \/ MaxNumSeqs % 16 = 0

(* A graph large enough has a smallest one that is.                        *)
LEMMA LeastGraph ==
  ASSUME GraphsSuffice, NEW n \in 1 .. MaxNumSeqs
  PROVE  \E x \in graph_bs : x \in Nat /\ x >= n /\ \A y \in graph_bs : y >= n => x <= y
<1>1. MaxNumSeqs \in Nat /\ n \in Nat /\ 1 <= n /\ n <= MaxNumSeqs
  BY BatchesAssumption
<1>2. \A y : y \in graph_bs <=>
        y \in {1, 2, 4, 8} \/ \E i \in 1 .. MaxNumSeqs \div 16 : y = 16 * i
  BY DEF graph_bs
<1>3. CASE n <= 8
  <2>1. \A i \in 1 .. MaxNumSeqs \div 16 : 16 * i \in Nat /\ 16 * i >= 16
    BY <1>1
  <2>2. CASE n <= 1
    <3>1. 1 \in graph_bs
      BY <1>2
    <3> QED BY <1>1, <1>2, <2>1, <2>2, <3>1
  <2>3. CASE n = 2
    <3>1. 2 \in graph_bs
      BY <1>2
    <3> QED BY <1>1, <1>2, <2>1, <2>3, <3>1
  <2>4. CASE n \in 3 .. 4
    <3>1. 4 \in graph_bs
      BY <1>2
    <3> QED BY <1>1, <1>2, <2>1, <2>4, <3>1
  <2>5. CASE n \in 5 .. 8
    <3>1. 8 \in graph_bs
      BY <1>2
    <3> QED BY <1>1, <1>2, <2>1, <2>5, <3>1
  <2> QED BY <1>1, <1>3, <2>2, <2>3, <2>4, <2>5
<1>4. CASE n > 8
  <2> DEFINE i == (n + 15) \div 16
             m == MaxNumSeqs \div 16
  <2>1. m \in Nat /\ MaxNumSeqs = 16 * m
    BY <1>1, <1>4 DEF GraphsSuffice
  <2>2. i \in Nat /\ 1 <= i /\ 16 * i >= n /\ 16 * i < n + 16
    BY <1>1
  <2> HIDE DEF i
  <2>3. i \in 1 .. m
    BY <1>1, <2>1, <2>2
  <2>4. 16 * i \in graph_bs
    BY <1>2, <2>3
  <2>5. \A y \in graph_bs : y >= n => 16 * i <= y
    BY <1>1, <1>2, <1>4, <2>1, <2>2
  <2> QED BY <2>2, <2>4, <2>5
<1> QED BY <1>1, <1>3, <1>4

(* run_model() finds a graph for every batch exactly when GraphsSuffice.   *)
THEOREM GraphForEveryBatch ==
  GraphsSuffice <=> \A n \in 1 .. MaxNumSeqs : \E x \in graph_bs : x >= n
<1>1. GraphsSuffice => \A n \in 1 .. MaxNumSeqs : \E x \in graph_bs : x >= n
  BY LeastGraph
<1>2. ASSUME ~ GraphsSuffice
      PROVE  MaxNumSeqs \in 1 .. MaxNumSeqs /\ \A x \in graph_bs : ~ (x >= MaxNumSeqs)
  <2>1. MaxNumSeqs \in Nat /\ MaxNumSeqs > 8 /\ MaxNumSeqs % 16 # 0
    BY <1>2, BatchesAssumption DEF GraphsSuffice
  <2>2. \A i \in 1 .. MaxNumSeqs \div 16 : 16 * i < MaxNumSeqs
    BY <2>1
  <2> QED BY <2>1, <2>2 DEF graph_bs
<1> QED BY <1>1, <1>2

(* The graph of a batch has a row for each of its sequences.               *)
LEMMA GraphHasRows ==
  ASSUME GraphsSuffice, NEW n \in 1 .. MaxNumSeqs
  PROVE  1 .. n \subseteq GraphRows(n) /\ GraphRows(n) \subseteq 1 .. MaxNumSeqs
<1>1. \E x \in graph_bs : x >= n /\ \A y \in graph_bs : y >= n => x <= y
  BY LeastGraph
<1>2. GraphFor(n) \in graph_bs /\ GraphFor(n) >= n
  BY <1>1 DEF GraphFor
<1>3. \A y \in graph_bs : y \in Int
  BY BatchesAssumption DEF graph_bs
<1> QED BY <1>2, <1>3, BatchesAssumption DEF GraphRows

(* A replay does what an eager run of its batch would, whatever the        *)
(* buffers held before.                                                    *)
LEMMA ReplayOfBuffers ==
  ASSUME GraphsSuffice, NEW c \in RunCalls, NEW g
  PROVE  Replay(c, Buffers(g, c.id, c.batch)) = Eager(c)
<1> DEFINE k == c.id
           b == c.batch
           B == Buffers(g, k, b)
           R == GraphRows(Len(b))
<1>1. k \in Nat /\ b \in Batches /\ b \in Seq(Nat \ {0}) /\ Len(b) \in 1 .. MaxNumSeqs
  BY Methods, BatchesAssumption
<1>2. 1 .. Len(b) \subseteq R /\ R \subseteq 1 .. MaxNumSeqs /\ DOMAIN b = 1 .. Len(b)
  BY <1>1, GraphHasRows
<1> HIDE DEF k, b
<1>3. \A i \in 1 .. MaxNumSeqs :
        /\ B[i].slot = IF i <= Len(b) THEN Slot(k, i) ELSE PAD
        /\ B[i].context_len = IF i <= Len(b) THEN b[i] ELSE 0
  BY DEF Buffers
<1>4. \A i \in 1 .. Len(b) : \A j \in 1 .. b[i] : B[i].table[j] = Block(k, i, j)
  <2> TAKE i \in 1 .. Len(b)
  <2> TAKE j \in 1 .. b[i]
  <2>1. j \in ColumnsOf(b) /\ j \in Columns
    BY <1>1, <1>2 DEF ColumnsOf, Columns
  <2>2. i \in 1 .. MaxNumSeqs /\ i <= Len(b) /\ j <= b[i]
    <3>1. MaxNumSeqs \in Nat /\ b[i] \in Nat
      BY <1>1, BatchesAssumption
    <3> QED BY <1>1, <3>1
  <2> QED BY <2>1, <2>2 DEF Buffers
<1> HIDE DEF B, R
<1>5. \A i \in 1 .. Len(b) : Slot(k, i) # PAD
  BY <1>1 DEF Slot, PAD
<1>6. {B[i].slot : i \in R} \ {PAD} = {Slot(k, i) : i \in DOMAIN b}
  <2>1. \A i \in R : B[i].slot # PAD => i \in 1 .. Len(b) /\ B[i].slot = Slot(k, i)
    BY <1>1, <1>2, <1>3
  <2>2. \A i \in 1 .. Len(b) : i \in R /\ B[i].slot = Slot(k, i) /\ Slot(k, i) # PAD
    BY <1>1, <1>2, <1>3, <1>5
  <2> QED BY <1>2, <2>1, <2>2
<1>7. UNION {{B[i].table[j] : j \in 1 .. B[i].context_len} : i \in R}
        = UNION {{Block(k, i, j) : j \in 1 .. b[i]} : i \in DOMAIN b}
  <2>1. \A i \in R : i \notin 1 .. Len(b) => 1 .. B[i].context_len = {}
    BY <1>1, <1>2, <1>3
  <2>2. \A i \in 1 .. Len(b) :
          /\ i \in R
          /\ {B[i].table[j] : j \in 1 .. B[i].context_len} = {Block(k, i, j) : j \in 1 .. b[i]}
    BY <1>1, <1>2, <1>3, <1>4, SMTT(30)
  <2> DEFINE X(i) == {B[i].table[j] : j \in 1 .. B[i].context_len}
             Y(i) == {Block(k, i, j) : j \in 1 .. b[i]}
  <2>3. \A i \in R : i \notin 1 .. Len(b) => X(i) = {}
    BY <2>1
  <2>4. \A i \in 1 .. Len(b) : i \in R /\ X(i) = Y(i)
    BY <2>2
  <2> HIDE DEF X, Y
  <2>5. UNION {X(i) : i \in R} = UNION {Y(i) : i \in DOMAIN b}
    <3>1. ASSUME NEW x PROVE (\E i \in R : x \in X(i)) <=> (\E i \in DOMAIN b : x \in Y(i))
      BY <1>2, <2>3, <2>4
    <3> QED BY <3>1
  <2> QED BY <2>5 DEF X, Y
<1> QED BY <1>6, <1>7 DEF Replay, Eager, B, R, k, b

(* A decode through a captured graph writes and reads what its batch owns. *)
THEOREM ReplaysAreEager == ASSUME GraphsSuffice PROVE RunnerSpec => []ReplayIsEager
<1> DEFINE Inv == ReplayIsEager /\ effect = [r \in Ranks |-> effect[r]]
<1>1. RunnerInit => Inv
  BY DEF RunnerInit, ReplayIsEager
<1>2. Inv /\ Typed /\ [RunnerNext]_runVars => Inv'
  <2> SUFFICES ASSUME Inv, Typed, [RunnerNext]_runVars PROVE Inv'
    OBVIOUS
  <2>1. CASE UNCHANGED effect
    BY <2>1 DEF ReplayIsEager
  <2>2. ASSUME NEW r \in Ranks, QueueRun(r) PROVE Inv'
    <3>1. call[r] \in RunCalls
      BY <2>2, ZeroIsARank DEF QueueRun, Typed, Calling, Workers, ZeroPlaces
    <3>2. effect' = [effect EXCEPT ![r] = Eager(call[r])]
      BY <2>2, <3>1, ReplayOfBuffers DEF QueueRun
    <3>3. Eager(call[r]).of = call[r]
      BY DEF Eager
    <3> QED BY <3>2, <3>3 DEF ReplayIsEager
  <2>3. ASSUME NEW r \in Ranks, Load(r) \/ WarmUp(r) \/ MeetBarrier(r) \/ PassBarrier(r)
        PROVE  UNCHANGED effect
    BY <2>3 DEF Load, WarmUp, MeetBarrier, PassBarrier, modelVars
  <2>4. ASSUME NEW w \in Workers, WorkerStep(w) PROVE UNCHANGED effect
    BY <2>4 DEF WorkerStep, OpenShm, ReadShm, ClearEvent, ExitOnWorker, Leave, modelVars
  <2>5. ASSUME NEW p \in BOOLEAN, NEW b \in Batches, BeginRun(p, b) PROVE UNCHANGED effect
    BY <2>5 DEF BeginRun, modelVars
  <2>6. CASE ExecutorStep \/ BeginExit \/ StopperStep
    BY <2>1, <2>6
    DEF ExecutorStep, WriteRun, SetForRun, RunOnRankZero, Collect, BeginExit, StopperStep,
        WriteExit, SetForExit, ExitOnRankZero, Unlink, Join, modelVars
  <2>7. CASE UNCHANGED runVars
    BY <2>1, <2>7 DEF runVars, modelVars
  <2> QED BY <2>1, <2>2, <2>3, <2>4, <2>5, <2>6, <2>7 DEF RunnerNext, RankStep
<1> QED BY <1>1, <1>2, AlwaysTyped, PTL DEF RunnerSpec

-----------------------------------------------------------------------------
(* The segment: it is there from the barrier of the start to the one of    *)
(* exit(), even when exit() comes in the middle of a step.                 *)
Opening ==
  /\ \A r \in Ranks :
       /\ pc[r] = "load" => Len(queued[r]) = 0
       /\ pc[r] = "warmup" => Len(queued[r]) = 1
       /\ pc[r] \in {"barrier", "open"} => Len(queued[r]) = 2
  /\ pc[0] \notin {"load", "warmup"} => Len(queued[0]) >= 2
  /\ pc[0] \in {"load", "warmup", "barrier"} => stopper = "no"
  /\ stopper \in {"barrier", "join", "done"} => Len(queued[0]) >= 3
  /\ Len(queued[0]) >= 2 /\ stopper \notin {"join", "done"} => linked
  /\ stopper \in {"join", "done"} => \A w \in Workers : Len(queued[w]) >= 3
  /\ \A w \in Workers :
       pc[w] \notin {"load", "warmup", "barrier"} => Len(queued[0]) >= 2

(* What queueing a collective changes.                                     *)
LEMMA Queued ==
  ASSUME Typed, NEW r \in Ranks, NEW c \in Collectives, Queue(r, c)
  PROVE  /\ Len(queued[r]) \in Nat
         /\ Len(queued'[r]) = Len(queued[r]) + 1
         /\ queued'[r][Len(queued[r]) + 1] = c
         /\ \A i \in 1 .. Len(queued[r]) : queued'[r][i] = queued[r][i]
         /\ \A q \in Ranks : q # r => queued'[q] = queued[q]
<1>1. queued[r] \in Seq(Collectives) /\ queued'[r] = Append(queued[r], c)
  BY DEF Typed, Queue
<1>2. \A q \in Ranks : q # r => queued'[q] = queued[q]
  BY DEF Typed, Queue
<1> QED BY <1>1, <1>2

(* The collectives a rank takes part in.                                   *)
LEMMA CollectivesAre ==
  /\ <<"warmup", 0>> \in Collectives /\ <<"barrier", 0>> \in Collectives
  /\ <<"exit", 0>> \in Collectives /\ \A k \in Nat : <<"run", k>> \in Collectives
BY DEF Collectives

(* The lengths of the queues are numbers.                                  *)
LEMMA LengthsAre == Typed => \A r \in Ranks : Len(queued[r]) \in Nat
BY DEF Typed

(* No segment is opened at the start.                                      *)
LEMMA OpeningInit == RunnerInit => Opening
BY ZeroIsARank DEF RunnerInit, Opening, Workers

(* A step keeps the segment where it is opened.                            *)
LEMMA OpeningNext == Typed /\ Opening /\ [RunnerNext]_runVars => Opening'
<1> SUFFICES ASSUME Typed, Opening, [RunnerNext]_runVars PROVE Opening'
  OBVIOUS
<1> USE ZeroIsARank, LengthsAre DEF Opening
<1>0. /\ pc \in [Ranks -> ZeroPlaces \cup WorkerPlaces] /\ pc[0] \in ZeroPlaces
      /\ \A w \in Workers : pc[w] \in WorkerPlaces
  BY DEF Typed
<1>1. CASE UNCHANGED runVars
  BY <1>1 DEF runVars, shmVars
<1>2. ASSUME NEW r \in Ranks, Load(r) PROVE Opening'
  BY <1>2 DEF Load, shmVars
<1>3. ASSUME NEW r \in Ranks, WarmUp(r) PROVE Opening'
  <2>1. /\ Len(queued'[r]) = Len(queued[r]) + 1
        /\ \A q \in Ranks : q # r => queued'[q] = queued[q]
    BY <1>3, Queued, CollectivesAre DEF WarmUp
  <2>2. pc[r] = "load" /\ pc' = [pc EXCEPT ![r] = "warmup"]
    BY <1>3 DEF WarmUp, Goto
  <2>3. UNCHANGED <<stopper, linked>>
    BY <1>3 DEF WarmUp, shmVars
  <2>4. \A q \in Ranks : Len(queued'[q]) \in Nat /\ Len(queued'[q]) >= Len(queued[q])
    BY <2>1
  <2>5. r = 0 => stopper = "no" /\ Len(queued'[0]) = 1
    <3>1. Len(queued[r]) = 0
      BY <2>2
    <3>2. r = 0 => stopper = "no"
      BY <2>2
    <3> QED BY <2>1, <3>1, <3>2
  <2>6. Len(queued'[r]) = 1
    <3>1. Len(queued[r]) = 0
      BY <2>2
    <3> QED BY <2>1, <3>1
  <2> QED BY <1>0, <2>1, <2>2, <2>3, <2>4, <2>5, <2>6
<1>4. ASSUME NEW r \in Ranks, MeetBarrier(r) PROVE Opening'
  <2>1. /\ Len(queued'[r]) = Len(queued[r]) + 1
        /\ \A q \in Ranks : q # r => queued'[q] = queued[q]
    BY <1>4, Queued, CollectivesAre DEF MeetBarrier
  <2>2. pc[r] = "warmup" /\ pc' = [pc EXCEPT ![r] = "barrier"]
    BY <1>4 DEF MeetBarrier, Goto
  <2>3. stopper' = stopper /\ linked' = (linked \/ r = 0)
    BY <1>4 DEF MeetBarrier
  <2>4. \A q \in Ranks : Len(queued'[q]) \in Nat /\ Len(queued'[q]) >= Len(queued[q])
    BY <2>1
  <2>5. r = 0 => stopper = "no" /\ Len(queued'[0]) = 2
    <3>1. Len(queued[r]) = 1
      BY <2>2
    <3>2. r = 0 => stopper = "no"
      BY <2>2
    <3> QED BY <2>1, <3>1, <3>2
  <2>6. Len(queued'[r]) = 2
    <3>1. Len(queued[r]) = 1
      BY <2>2
    <3> QED BY <2>1, <3>1
  <2>7. r # 0 => /\ pc'[0] = pc[0] /\ queued'[0] = queued[0] /\ (linked => linked')
    <3>1. linked => linked'
      BY <2>3, Zenon
    <3>2. r # 0 => pc'[0] = pc[0] /\ queued'[0] = queued[0]
      BY <2>1, <2>2, <1>0
    <3> QED BY <3>1, <3>2
  <2>8. \A q \in Ranks :
          /\ pc'[q] = "load" => Len(queued'[q]) = 0
          /\ pc'[q] = "warmup" => Len(queued'[q]) = 1
          /\ pc'[q] \in {"barrier", "open"} => Len(queued'[q]) = 2
    <3> TAKE q \in Ranks
    <3>1. CASE q = r
      BY <1>0, <2>2, <2>6, <3>1
    <3>2. CASE q # r
      <4>1. pc'[q] = pc[q] /\ queued'[q] = queued[q]
        BY <1>0, <2>1, <2>2, <3>2
      <4> QED BY <4>1
    <3> QED BY <3>1, <3>2
  <2>9. CASE r = 0
    BY <1>0, <2>2, <2>3, <2>4, <2>5, <2>8, <2>9
  <2>10. CASE r # 0
    BY <1>0, <2>2, <2>3, <2>4, <2>7, <2>8, <2>10
  <2> QED BY <2>9, <2>10
<1>5. ASSUME NEW r \in Ranks, PassBarrier(r) PROVE Opening'
  BY <1>0, <1>5 DEF PassBarrier, Complete, Goto, shmVars, Workers
<1>6. ASSUME NEW r \in Ranks, QueueRun(r) PROVE Opening'
  <2>1. call[r].id \in Nat
    BY <1>6, Methods DEF QueueRun, Typed, Workers, Calling
  <2>2. /\ Len(queued'[r]) = Len(queued[r]) + 1
        /\ \A q \in Ranks : q # r => queued'[q] = queued[q]
    BY <1>6, <2>1, Queued, CollectivesAre DEF QueueRun
  <2>3. /\ pc[r] = "run"
        /\ pc' = [pc EXCEPT ![r] = IF r = 0 THEN "collect" ELSE "wait"]
    BY <1>6 DEF QueueRun, Goto
  <2>4. UNCHANGED <<stopper, linked>>
    BY <1>6 DEF QueueRun, shmVars
  <2>5. \A q \in Ranks : Len(queued'[q]) \in Nat /\ Len(queued'[q]) >= Len(queued[q])
    BY <2>2
  <2>6. Len(queued[0]) >= 2
    BY <2>3 DEF Workers
  <2> QED BY <1>0, <2>2, <2>3, <2>4, <2>5, <2>6
<1>7. ASSUME NEW w \in Workers, OpenShm(w) PROVE Opening'
  BY <1>0, <1>7 DEF OpenShm, Goto, shmVars
<1>8. ASSUME NEW w \in Workers, ReadShm(w) PROVE Opening'
  BY <1>0, <1>8 DEF ReadShm, Goto, shmVars
<1>9. ASSUME NEW w \in Workers, ClearEvent(w) PROVE Opening'
  <2>1. call[w].method \in {"run", "exit"}
    BY <1>9, Methods DEF ClearEvent, Typed
  <2> QED BY <1>0, <1>9, <2>1 DEF ClearEvent, Goto
<1>10. ASSUME NEW w \in Workers, ExitOnWorker(w) PROVE Opening'
  BY <1>0, <1>10, Queued, CollectivesAre, SMTT(30) DEF ExitOnWorker, Goto, shmVars
<1>11. ASSUME NEW w \in Workers, Leave(w) PROVE Opening'
  BY <1>0, <1>11 DEF Leave, Goto, shmVars
<1>12. ASSUME NEW p \in BOOLEAN, NEW b \in Batches, BeginRun(p, b) PROVE Opening'
  BY <1>0, <1>12 DEF BeginRun, Goto, shmVars
<1>13. CASE WriteRun
  BY <1>0, <1>13 DEF WriteRun, Write, Goto
<1>14. CASE SetForRun
  BY <1>14 DEF SetForRun, SetNext
<1>15. CASE RunOnRankZero
  BY <1>0, <1>15 DEF RunOnRankZero, Goto, shmVars
<1>16. CASE Collect
  BY <1>0, <1>16 DEF Collect, Goto, shmVars
<1>17. CASE BeginExit
  BY <1>17 DEF BeginExit, shmVars
<1>18. CASE WriteExit
  BY <1>18 DEF WriteExit, Write
<1>19. CASE SetForExit
  BY <1>19 DEF SetForExit, SetNext
<1>20. CASE ExitOnRankZero
  BY <1>0, <1>20, Queued, CollectivesAre, SMTT(30) DEF ExitOnRankZero, shmVars, ZeroPlaces
<1>21. CASE Unlink
  BY <1>21 DEF Unlink, Complete, Workers
<1>22. CASE Join
  BY <1>22 DEF Join, shmVars
<1> QED
  BY <1>1, <1>2, <1>3, <1>4, <1>5, <1>6, <1>7, <1>8, <1>9, <1>10, <1>11, <1>12,
     <1>13, <1>14, <1>15, <1>16, <1>17, <1>18, <1>19, <1>20, <1>21, <1>22
  DEF RunnerNext, RankStep, WorkerStep, ExecutorStep, StopperStep

(* A segment that is opened is there throughout.                           *)
LEMMA AlwaysOpening == RunnerSpec => []Opening
BY OpeningInit, OpeningNext, AlwaysTyped, PTL DEF RunnerSpec

(* A worker opens the segment after rank 0 has created it and before rank  *)
(* 0 unlinks it, at whatever moment exit() is called.                      *)
THEOREM SegmentThere == RunnerSpec => []OpenedWhileThere
<1>1. Typed /\ Opening => OpenedWhileThere
  <2> SUFFICES ASSUME Typed, Opening, NEW w \in Workers, pc[w] = "open" PROVE linked
    BY DEF OpenedWhileThere
  <2>1. w \in Ranks /\ Len(queued[w]) = 2 /\ Len(queued[0]) >= 2
    BY ZeroIsARank DEF Opening
  <2>2. stopper \in {"join", "done"} => Len(queued[w]) >= 3
    BY DEF Opening
  <2> QED BY <2>1, <2>2 DEF Opening
<1> QED BY <1>1, AlwaysTyped, AlwaysOpening, PTL

-----------------------------------------------------------------------------
(* The ranks in step.  Done collectives are complete on every rank; the    *)
(* thread that calls has told a worker of the call in the segment when it  *)
(* has set the worker's event.                                             *)
Done == IF pc[0] \in Calling THEN calls + 1 ELSE calls + 2
Started == pc[0] \notin {"load", "warmup", "barrier"}
Told(w) ==
  \/ stopper = "no" /\ pc[0] \in {"set", "run", "collect"} /\ to_set["executor"] > w
  \/ stopper \notin {"no", "write"} /\ to_set["stopper"] > w

(* The collective in each place of the order.                              *)
Collective(i) ==
  IF i = 1 THEN <<"warmup", 0>>
  ELSE IF i = 2 THEN <<"barrier", 0>>
  ELSE IF i <= calls + 2 THEN <<"run", i - 2>>
  ELSE <<"exit", 0>>

InOrder(r) ==
  \A i \in 1 .. Len(queued[r]) :
    /\ queued[r][i] = Collective(i)
    /\ i > calls + 2 => stopper # "no"

RankZero ==
  /\ stopper # "no" => pc[0] = "ready"
  /\ ~ Started => calls = 0
  /\ pc[0] \in Calling => calls >= 1 /\ call[0].id = calls
  /\ pc[0] \in {"set", "run", "collect"} => shm = call[0]
  /\ stopper \notin {"no", "write"} => shm = Exit
  /\ pc[0] \in {"run", "collect"} => to_set["executor"] = WorldSize
  /\ stopper \in {"barrier", "join", "done"} => to_set["stopper"] = WorldSize
  /\ Len(queued[0]) = CASE pc[0] = "load"    -> 0
                        [] pc[0] = "warmup"  -> 1
                        [] pc[0] = "collect" -> Done + 1
                        [] OTHER -> IF stopper \in {"barrier", "join", "done"}
                                    THEN Done + 1 ELSE Done

(* Where a worker can be: behind the call in the segment or through with   *)
(* it, and never more than one collective ahead of what all have done.     *)
Worker(w) ==
  LET n == Len(queued[w])
  IN  \/ /\ ~ Started /\ ~ event[w]
         /\ pc[w] \in {"load", "warmup"} /\ n = IF pc[w] = "load" THEN 0 ELSE 1
      \/ /\ pc[w] \in {"barrier", "open", "wait"} /\ n = Done
         /\ pc[w] # "wait" => n = 2
         /\ event[w] => Told(w)
      \/ /\ pc[w] \in {"clear", "run", "exit"} /\ n = Done
         /\ Told(w) /\ call[w] = shm
         /\ pc[w] # "clear" => ~ event[w] /\ shm.method = pc[w]
      \/ /\ pc[w] \in {"wait", "leave", "gone"} /\ n = Done + 1
         /\ Told(w) /\ ~ event[w]
         /\ shm.method = IF pc[w] = "wait" THEN "run" ELSE "exit"

Lockstep ==
  /\ \A r \in Ranks : InOrder(r)
  /\ RankZero
  /\ \A w \in Workers : Worker(w)

(* The inductive invariant.                                                *)
InStep == (raced => stopper # "no") /\ (~ raced => Lockstep)

(* How many collectives rank 0 has entered.                                *)
LEMMA DoneIs ==
  ASSUME Typed, RankZero
  PROVE  /\ Done \in Nat /\ Done >= 2 /\ calls \in Nat
         /\ ~ Started => Done = 2 /\ calls = 0
         /\ pc[0] \in Calling => Done = calls + 1
         /\ pc[0] \notin Calling => Done = calls + 2
BY DEF Typed, RankZero, Done, Started, Calling

(* A worker that was told knows which thread called.                       *)
LEMMA ToldOf ==
  ASSUME Typed, RankZero, NEW w \in Workers, Told(w)
  PROVE  /\ Started
         /\ shm.method = "run" =>
              /\ stopper = "no" /\ pc[0] \in {"set", "run", "collect"}
              /\ Done = calls + 1 /\ calls >= 1 /\ shm.id = calls
         /\ shm.method = "exit" =>
              stopper \notin {"no", "write"} /\ pc[0] = "ready" /\ Done = calls + 2
<1>1. CASE stopper = "no" /\ pc[0] \in {"set", "run", "collect"}
  <2>1. shm \in RunCalls /\ shm = call[0]
    BY <1>1 DEF Typed, RankZero, Calling
  <2>2. shm.method = "run"
    BY <2>1, Methods
  <2> QED BY <1>1, <2>1, <2>2, DoneIs DEF RankZero, Started, Calling
<1>2. CASE stopper \notin {"no", "write"}
  <2>1. shm = Exit /\ pc[0] = "ready"
    BY <1>2 DEF RankZero
  <2>2. shm.method = "exit"
    BY <2>1, Methods
  <2> QED BY <1>2, <2>1, <2>2, DoneIs DEF Started, Calling
<1> QED BY <1>1, <1>2 DEF Told

(* Queueing the collective that is next in the order.                      *)
LEMMA NextInOrder ==
  ASSUME Typed, NEW r \in Ranks, NEW c \in Collectives, Queue(r, c), InOrder(r),
         UNCHANGED <<calls, stopper>>, c = Collective(Len(queued[r]) + 1),
         Len(queued[r]) + 1 > calls + 2 => stopper # "no"
  PROVE  InOrder(r)'
<1>1. /\ Len(queued[r]) \in Nat /\ Len(queued'[r]) = Len(queued[r]) + 1
      /\ queued'[r][Len(queued[r]) + 1] = c
      /\ \A i \in 1 .. Len(queued[r]) : queued'[r][i] = queued[r][i]
  BY Queued
<1>2. \A i : Collective(i)' = Collective(i)
  BY DEF Collective
<1>3. \A i \in 1 .. Len(queued'[r]) : i \in 1 .. Len(queued[r]) \/ i = Len(queued[r]) + 1
  BY <1>1
<1>4. ASSUME NEW i \in 1 .. Len(queued'[r])
      PROVE  queued'[r][i] = Collective(i)' /\ (i > calls' + 2 => stopper' # "no")
  BY <1>1, <1>2, <1>3 DEF InOrder
<1> QED BY <1>4 DEF InOrder

(* A step of one worker disturbs neither rank 0 nor the other workers.     *)
OnlyWorker(w) ==
  /\ UNCHANGED <<calls, stopper, to_set, shm>>
  /\ \A r \in Ranks \ {w} : pc'[r] = pc[r] /\ queued'[r] = queued[r] /\ call'[r] = call[r]
  /\ \A v \in Workers \ {w} : event'[v] = event[v]

(* A step of one worker is not seen by the others.                         *)
LEMMA WorkerAlone ==
  ASSUME Typed, NEW w \in Workers, OnlyWorker(w)
  PROVE  /\ Done' = Done /\ (Started' <=> Started) /\ (RankZero => RankZero')
         /\ \A v \in Workers : Told(v)' <=> Told(v)
         /\ \A v \in Workers \ {w} : Worker(v) => Worker(v)'
         /\ \A r \in Ranks \ {w} : InOrder(r) => InOrder(r)'
<1>1. pc'[0] = pc[0] /\ queued'[0] = queued[0] /\ call'[0] = call[0]
  BY ZeroIsARank DEF OnlyWorker
<1>2. Done' = Done /\ (Started' <=> Started)
  BY <1>1 DEF OnlyWorker, Done, Started
<1>3. \A v \in Workers : Told(v)' <=> Told(v)
  BY <1>1 DEF OnlyWorker, Told
<1>4. RankZero => RankZero'
  BY <1>1, <1>2 DEF OnlyWorker, RankZero
<1>5. \A v \in Workers \ {w} : Worker(v) => Worker(v)'
  <2> TAKE v \in Workers \ {w}
  <2>1. /\ pc'[v] = pc[v] /\ queued'[v] = queued[v] /\ call'[v] = call[v]
        /\ event'[v] = event[v] /\ shm' = shm
    BY ZeroIsARank DEF OnlyWorker
  <2> QED BY <1>2, <1>3, <2>1 DEF Worker
<1>6. \A r \in Ranks \ {w} : InOrder(r) => InOrder(r)'
  BY DEF OnlyWorker, InOrder, Collective
<1> QED BY <1>2, <1>3, <1>4, <1>5, <1>6

(* So only that worker is left to check.                                   *)
LEMMA WorkerKeepsLockstep ==
  ASSUME Typed, Lockstep, NEW w \in Workers, OnlyWorker(w), Worker(w)', InOrder(w)'
  PROVE  Lockstep'
BY WorkerAlone, ZeroIsARank DEF Lockstep

(* The steps of a worker.                                                  *)
LEMMA WorkerSteps ==
  ASSUME Typed, Opening, Lockstep, NEW w \in Workers,
         RankStep(w) \/ WorkerStep(w)
  PROVE  Lockstep'
<1> DEFINE n == Len(queued[w])
<1>1. /\ w \in Ranks /\ w # 0 /\ n \in Nat /\ RankZero /\ Worker(w) /\ InOrder(w)
      /\ Done \in Nat /\ Done >= 2 /\ calls \in Nat
      /\ pc \in [Ranks -> ZeroPlaces \cup WorkerPlaces] /\ event \in [Workers -> BOOLEAN]
      /\ call \in [Ranks -> Calls] /\ queued \in [Ranks -> Seq(Collectives)]
      /\ pc[w] \in WorkerPlaces
  BY ZeroIsARank, LengthsAre, DoneIs DEF Lockstep, Typed
<1>2. ASSUME Load(w) PROVE Lockstep'
  <2>1. OnlyWorker(w) /\ pc'[w] = pc[w] /\ queued' = queued /\ call' = call /\ event' = event
    BY <1>2 DEF Load, OnlyWorker, shmVars, boundVars
  <2>2. Worker(w)' /\ InOrder(w)'
    BY <1>1, <2>1, WorkerAlone DEF Worker, OnlyWorker, InOrder, Collective
  <2> QED BY <2>1, <2>2, WorkerKeepsLockstep
<1>3. ASSUME WarmUp(w) PROVE Lockstep'
  <2>1. OnlyWorker(w) /\ pc'[w] = "warmup" /\ event' = event
    BY <1>1, <1>3, Queued, CollectivesAre DEF WarmUp, Goto, OnlyWorker, shmVars, boundVars
  <2>2. pc[w] = "load" /\ n = 0 /\ Len(queued'[w]) = 1
    <3>1. pc[w] = "load" /\ n = 0
      BY <1>1, <1>3 DEF WarmUp, Opening
    <3>2. Len(queued'[w]) = n + 1
      BY <1>1, <1>3, Queued, CollectivesAre DEF WarmUp
    <3> HIDE DEF n
    <3> QED BY <3>1, <3>2
  <2>3. ~ Started /\ ~ event[w]
    BY <1>1, <2>2 DEF Worker
  <2>4. Worker(w)'
    BY <2>1, <2>2, <2>3, WorkerAlone DEF Worker
  <2>5. Collective(n + 1) = <<"warmup", 0>> /\ ~ (n + 1 > calls + 2)
    BY <1>1, <2>2 DEF Collective
  <2>6. InOrder(w)'
    BY <1>1, <1>3, <2>5, CollectivesAre, NextInOrder DEF WarmUp, boundVars
  <2> QED BY <2>1, <2>4, <2>6, WorkerKeepsLockstep
<1>4. ASSUME MeetBarrier(w) PROVE Lockstep'
  <2>1. OnlyWorker(w) /\ pc'[w] = "barrier" /\ event' = event
    BY <1>1, <1>4, Queued, CollectivesAre DEF MeetBarrier, Goto, OnlyWorker, boundVars
  <2>2. pc[w] = "warmup" /\ n = 1
    BY <1>1, <1>4 DEF MeetBarrier, Opening
  <2>3. Len(queued'[w]) = 2
    <3>1. Len(queued'[w]) = n + 1
      BY <1>1, <1>4, Queued, CollectivesAre DEF MeetBarrier
    <3> HIDE DEF n
    <3> QED BY <2>2, <3>1
  <2>4. ~ Started /\ ~ event[w] /\ Done = 2
    BY <1>1, <2>2, DoneIs DEF Worker
  <2>5. Worker(w)'
    BY <2>1, <2>3, <2>4, WorkerAlone DEF Worker
  <2>6. Collective(n + 1) = <<"barrier", 0>> /\ ~ (n + 1 > calls + 2)
    BY <1>1, <2>2 DEF Collective
  <2>7. InOrder(w)'
    BY <1>1, <1>4, <2>6, CollectivesAre, NextInOrder DEF MeetBarrier, boundVars
  <2> QED BY <2>1, <2>5, <2>7, WorkerKeepsLockstep
<1>5. ASSUME PassBarrier(w) \/ OpenShm(w) PROVE Lockstep'
  <2>1. /\ OnlyWorker(w) /\ UNCHANGED <<event, call, queued>>
        /\ \/ pc[w] = "barrier" /\ pc'[w] = "open"
           \/ pc[w] = "open" /\ pc'[w] = "wait"
    BY <1>1, <1>5 DEF PassBarrier, OpenShm, Goto, OnlyWorker, shmVars, boundVars
  <2>2. n = Done /\ n = 2 /\ (event[w] => Told(w))
    BY <1>1, <2>1 DEF Worker
  <2>3. Worker(w)'
    BY <2>1, <2>2, WorkerAlone DEF Worker
  <2>4. InOrder(w)'
    BY <1>1, <2>1 DEF InOrder, Collective, OnlyWorker
  <2> QED BY <2>1, <2>3, <2>4, WorkerKeepsLockstep
<1>6. ASSUME QueueRun(w) PROVE Lockstep'
  <2> DEFINE c == <<"run", call[w].id>>
  <2>1. OnlyWorker(w) /\ pc[w] = "run" /\ pc'[w] = "wait" /\ event' = event /\ Queue(w, c)
    <3>1. QueueRun(w) /\ call[w].id \in Nat
      BY <1>1, <1>6, Methods DEF QueueRun, Typed
    <3> QED BY <1>1, <3>1, Queued, CollectivesAre
        DEF QueueRun, Goto, OnlyWorker, shmVars, boundVars
  <2>2. n = Done /\ Told(w) /\ call[w] = shm /\ ~ event[w] /\ shm.method = "run"
    BY <1>1, <2>1 DEF Worker
  <2>3. /\ stopper = "no" /\ Done = calls + 1 /\ calls >= 1 /\ call[w].id = calls
    BY <1>1, <2>2, ToldOf
  <2>4. Len(queued'[w]) = n + 1 /\ c \in Collectives
    BY <1>1, <2>1, <2>3, Queued, CollectivesAre
  <2>5. Worker(w)'
    <3>1. shm' = shm /\ Done' = Done /\ Told(w)' /\ ~ event'[w]
      BY <2>1, <2>2, WorkerAlone DEF OnlyWorker
    <3> QED BY <2>1, <2>2, <2>4, <3>1 DEF Worker
  <2>6. Collective(n + 1) = c /\ ~ (n + 1 > calls + 2)
    BY <1>1, <2>2, <2>3 DEF Collective
  <2>7. InOrder(w)'
    BY <1>1, <2>1, <2>4, <2>6, NextInOrder DEF OnlyWorker
  <2> QED BY <2>1, <2>5, <2>7, WorkerKeepsLockstep
<1>7. ASSUME ReadShm(w) PROVE Lockstep'
  <2>1. /\ OnlyWorker(w) /\ UNCHANGED <<event, queued, shm>>
        /\ pc[w] = "wait" /\ event[w] /\ pc'[w] = "clear" /\ call'[w] = shm
    BY <1>1, <1>7 DEF ReadShm, Goto, OnlyWorker, shmVars, boundVars
  <2>2. n = Done /\ Told(w)
    BY <1>1, <2>1 DEF Worker
  <2>3. Worker(w)'
    BY <2>1, <2>2, WorkerAlone DEF Worker
  <2>4. InOrder(w)'
    BY <1>1, <2>1 DEF InOrder, Collective, OnlyWorker
  <2> QED BY <2>1, <2>3, <2>4, WorkerKeepsLockstep
<1>8. ASSUME ClearEvent(w) PROVE Lockstep'
  <2>1. /\ OnlyWorker(w) /\ UNCHANGED <<call, queued, shm>>
        /\ pc[w] = "clear" /\ ~ event'[w] /\ pc'[w] = call[w].method
    BY <1>1, <1>8 DEF ClearEvent, Goto, OnlyWorker, boundVars
  <2>2. n = Done /\ Told(w) /\ call[w] = shm /\ call[w].method \in {"run", "exit"}
    BY <1>1, <2>1, Methods DEF Worker, Typed
  <2>3. Worker(w)'
    BY <2>1, <2>2, WorkerAlone DEF Worker
  <2>4. InOrder(w)'
    BY <1>1, <2>1 DEF InOrder, Collective, OnlyWorker
  <2> QED BY <2>1, <2>3, <2>4, WorkerKeepsLockstep
<1>9. ASSUME ExitOnWorker(w) PROVE Lockstep'
  <2> DEFINE c == <<"exit", 0>>
  <2>1. /\ OnlyWorker(w) /\ pc[w] = "exit" /\ pc'[w] = "leave" /\ event' = event
        /\ Queue(w, c)
    BY <1>1, <1>9, Queued, CollectivesAre DEF ExitOnWorker, Goto, OnlyWorker, shmVars, boundVars
  <2>2. n = Done /\ Told(w) /\ ~ event[w] /\ shm.method = "exit"
    BY <1>1, <2>1 DEF Worker
  <2>3. stopper # "no" /\ Done = calls + 2
    BY <1>1, <2>2, ToldOf
  <2>4. Len(queued'[w]) = n + 1
    BY <1>1, <2>1, Queued, CollectivesAre
  <2>5. Worker(w)'
    <3>1. shm' = shm /\ Done' = Done /\ Told(w)' /\ ~ event'[w]
      BY <2>1, <2>2, WorkerAlone DEF OnlyWorker
    <3> QED BY <2>1, <2>2, <2>4, <3>1 DEF Worker
  <2>6. Collective(n + 1) = c
    BY <1>1, <2>2, <2>3 DEF Collective
  <2>7. InOrder(w)'
    BY <1>1, <2>1, <2>3, <2>6, CollectivesAre, NextInOrder DEF OnlyWorker
  <2> QED BY <2>1, <2>5, <2>7, WorkerKeepsLockstep
<1>10. ASSUME Leave(w) PROVE Lockstep'
  <2>1. /\ OnlyWorker(w) /\ UNCHANGED <<event, call, queued, shm>>
        /\ pc[w] = "leave" /\ pc'[w] = "gone"
    BY <1>1, <1>10 DEF Leave, Goto, OnlyWorker, shmVars, boundVars
  <2>2. n = Done + 1 /\ Told(w) /\ ~ event[w] /\ shm.method = "exit"
    BY <1>1, <2>1 DEF Worker
  <2>3. Worker(w)'
    BY <2>1, <2>2, WorkerAlone DEF Worker
  <2>4. InOrder(w)'
    BY <1>1, <2>1 DEF InOrder, Collective, OnlyWorker
  <2> QED BY <2>1, <2>3, <2>4, WorkerKeepsLockstep
<1> QED BY <1>2, <1>3, <1>4, <1>5, <1>6, <1>7, <1>8, <1>9, <1>10 DEF RankStep, WorkerStep

(* What a step of rank 0 must keep for a worker that does not move.        *)
Unmoved(w) ==
  pc'[w] = pc[w] /\ queued'[w] = queued[w] /\ call'[w] = call[w]

(* A worker that a step of rank 0 does not move.                           *)
LEMMA WorkerKept ==
  ASSUME NEW w \in Workers, Worker(w), Unmoved(w), event'[w] = event[w], shm' = shm,
         Done' = Done, Told(w) => Told(w)', pc[w] \in {"load", "warmup"} => ~ Started'
  PROVE  Worker(w)'
BY DEF Worker, Unmoved

(* Nobody is told: every worker is starting or waiting.                    *)
LEMMA WorkerIdle ==
  ASSUME NEW w \in Workers, Worker(w), ~ Told(w)
  PROVE  /\ ~ event[w]
         /\ \/ ~ Started /\ pc[w] \in {"load", "warmup"}
            \/ pc[w] \in {"barrier", "open", "wait"} /\ Len(queued[w]) = Done
BY DEF Worker

(* An idle one.                                                            *)
LEMMA WorkerStillIdle ==
  ASSUME NEW w \in Workers, Worker(w), ~ Told(w), Unmoved(w), event'[w] = event[w],
         Done' = Done, Started' <=> Started
  PROVE  Worker(w)'
BY DEF Worker, Unmoved

(* The order of the collectives of a rank that does not move.              *)
LEMMA OrderKept ==
  ASSUME NEW r \in Ranks, InOrder(r), queued'[r] = queued[r], calls' = calls,
         stopper # "no" => stopper' # "no"
  PROVE  InOrder(r)'
BY DEF InOrder, Collective

(* The start of rank 0.                                                    *)
LEMMA ZeroStarts ==
  ASSUME Typed, Opening, Lockstep,
         Load(0) \/ WarmUp(0) \/ MeetBarrier(0) \/ PassBarrier(0)
  PROVE  Lockstep'
<1>1. /\ 0 \in Ranks /\ Workers = Ranks \ {0} /\ RankZero /\ InOrder(0)
      /\ (\A w \in Workers : Worker(w) /\ InOrder(w))
      /\ Len(queued[0]) \in Nat /\ calls \in Nat
      /\ pc \in [Ranks -> ZeroPlaces \cup WorkerPlaces]
  BY ZeroIsARank, LengthsAre DEF Lockstep, Typed, Workers
<1>2. /\ pc[0] \in {"load", "warmup", "barrier"} /\ stopper = "no" /\ calls = 0
      /\ ~ Started /\ Done = 2
  <2>1. pc[0] \in {"load", "warmup", "barrier"}
    BY DEF Load, WarmUp, MeetBarrier, PassBarrier
  <2> QED BY <1>1, <2>1, DoneIs DEF RankZero, Started
<1>3. /\ \A w \in Workers : Unmoved(w) /\ event'[w] = event[w]
      /\ UNCHANGED <<stopper, calls, shm, to_set>>
  BY <1>1, Queued, CollectivesAre
  DEF Load, WarmUp, MeetBarrier, PassBarrier, Goto, Unmoved, shmVars, boundVars
<1>4. pc'[0] \in {"load", "warmup", "barrier", "ready"} /\ Done' = 2
  <2>1. pc'[0] \in {"load", "warmup", "barrier", "ready"}
    BY <1>1, <1>2 DEF Load, WarmUp, MeetBarrier, PassBarrier, Goto
  <2> QED BY <1>2, <1>3, <2>1 DEF Done, Calling
<1>5. \A w \in Workers : pc[w] \in {"load", "warmup"} => ~ Started'
  <2> TAKE w \in Workers
  <2>1. CASE PassBarrier(0)
    <3>1. Len(queued[w]) >= Len(queued[0]) /\ Len(queued[0]) = 2
      BY <1>1, <2>1 DEF PassBarrier, Complete, Opening
    <3>2. pc[w] = "load" => Len(queued[w]) = 0
      BY <1>1 DEF Opening
    <3>3. pc[w] = "warmup" => Len(queued[w]) = 1
      BY <1>1 DEF Opening
    <3> DEFINE m == Len(queued[w])
    <3>4. m >= 2 /\ (pc[w] = "load" => m = 0) /\ (pc[w] = "warmup" => m = 1)
      BY <3>1, <3>2, <3>3
    <3> HIDE DEF m
    <3>5. pc[w] \notin {"load", "warmup"}
      BY <3>4
    <3> QED BY <3>5
  <2>2. CASE ~ PassBarrier(0)
    <3>1. pc'[0] \in {"load", "warmup", "barrier"}
      BY <1>1, <1>2, <2>2 DEF Load, WarmUp, MeetBarrier, Goto
    <3> QED BY <3>1 DEF Started
  <2> QED BY <2>1, <2>2
<1>6. \A w \in Workers : ~ Told(w)
  BY <1>2 DEF Told
<1>7. \A w \in Workers : Worker(w)'
  BY <1>1, <1>2, <1>3, <1>4, <1>5, <1>6, WorkerKept
<1>8. \A w \in Workers : InOrder(w)'
  BY <1>1, <1>3, OrderKept DEF Unmoved
<1>9. CASE Load(0)
  <2>1. pc' = pc /\ queued' = queued /\ call' = call
    BY <1>9 DEF Load
  <2> QED BY <1>1, <1>2, <1>3, <1>4, <1>7, <1>8, <2>1, OrderKept
      DEF Lockstep, RankZero, Started, Calling
<1>10. CASE WarmUp(0)
  <2>1. pc[0] = "load" /\ pc'[0] = "warmup" /\ Len(queued[0]) = 0
    BY <1>1, <1>10 DEF WarmUp, Goto, Opening
  <2>2. Len(queued'[0]) = Len(queued[0]) + 1
    BY <1>1, <1>10, Queued, CollectivesAre DEF WarmUp
  <2>3. Len(queued'[0]) = 1
    BY <2>1, <2>2
  <2>4. RankZero'
    BY <1>2, <1>3, <2>1, <2>3 DEF RankZero, Started, Calling
  <2>5. Collective(Len(queued[0]) + 1) = <<"warmup", 0>>
        /\ ~ (Len(queued[0]) + 1 > calls + 2)
    BY <1>2, <2>1 DEF Collective
  <2>6. InOrder(0)'
    BY <1>1, <1>3, <1>10, <2>5, CollectivesAre, NextInOrder DEF WarmUp
  <2> QED BY <1>1, <1>7, <1>8, <2>4, <2>6 DEF Lockstep
<1>11. CASE MeetBarrier(0)
  <2>1. pc[0] = "warmup" /\ pc'[0] = "barrier" /\ Len(queued[0]) = 1
    BY <1>1, <1>11 DEF MeetBarrier, Goto, Opening
  <2>2. Len(queued'[0]) = Len(queued[0]) + 1
    BY <1>1, <1>11, Queued, CollectivesAre DEF MeetBarrier
  <2>3. Len(queued'[0]) = 2
    BY <2>1, <2>2
  <2>4. RankZero'
    BY <1>2, <1>3, <1>4, <2>1, <2>3 DEF RankZero, Started, Calling
  <2>5. Collective(Len(queued[0]) + 1) = <<"barrier", 0>>
        /\ ~ (Len(queued[0]) + 1 > calls + 2)
    BY <1>2, <2>1 DEF Collective
  <2>6. InOrder(0)'
    BY <1>1, <1>3, <1>11, <2>5, CollectivesAre, NextInOrder DEF MeetBarrier
  <2> QED BY <1>1, <1>7, <1>8, <2>4, <2>6 DEF Lockstep
<1>12. CASE PassBarrier(0)
  <2>1. pc[0] = "barrier" /\ pc'[0] = "ready" /\ Len(queued[0]) = 2 /\ queued' = queued
    BY <1>1, <1>12 DEF PassBarrier, Goto, Opening
  <2>2. RankZero'
    BY <1>2, <1>3, <1>4, <2>1 DEF RankZero, Started, Calling
  <2> QED BY <1>1, <1>3, <1>7, <1>8, <2>1, <2>2, OrderKept DEF Lockstep
<1> QED BY <1>9, <1>10, <1>11, <1>12

(* A step of the engine on rank 0.                                         *)
LEMMA ExecutorSteps ==
  ASSUME Typed, Lockstep,
         \/ \E p \in BOOLEAN, b \in Batches : BeginRun(p, b)
         \/ ExecutorStep
         \/ QueueRun(0)
  PROVE  Lockstep'
<1>1. /\ 0 \in Ranks /\ Workers = Ranks \ {0} /\ RankZero /\ InOrder(0)
      /\ (\A w \in Workers : Worker(w) /\ InOrder(w))
      /\ Len(queued[0]) \in Nat /\ calls \in Nat /\ Done \in Nat
      /\ pc \in [Ranks -> ZeroPlaces \cup WorkerPlaces]
      /\ call \in [Ranks -> Calls] /\ event \in [Workers -> BOOLEAN]
      /\ to_set \in [{"executor", "stopper"} -> 1 .. WorldSize]
      /\ WorldSize \in Nat \ {0} /\ Workers = 1 .. WorldSize - 1
  BY ZeroIsARank, LengthsAre, DoneIs, WorkersAreNumbers DEF Lockstep, Typed, Workers
<1>2. stopper = "no" /\ Started
  BY <1>1 DEF BeginRun, ExecutorStep, WriteRun, SetForRun, RunOnRankZero, Collect, QueueRun,
              RankZero, Started
<1>3. Lockstep /\ stopper = "no" => \A w \in Workers : pc[w] \notin {"load", "warmup"}
  BY <1>1, <1>2 DEF Worker
<1>4. ASSUME NEW p \in BOOLEAN, NEW b \in Batches, BeginRun(p, b) PROVE Lockstep'
  <2>1. /\ pc[0] = "ready" /\ pc'[0] = "write" /\ calls' = calls + 1
        /\ UNCHANGED <<stopper, queued, shm, to_set, event>>
        /\ call'[0] = Run(calls + 1, p, b)
    BY <1>1, <1>4 DEF BeginRun, Goto, shmVars
  <2>2. \A w \in Workers : Unmoved(w)
    BY <1>1, <1>4 DEF BeginRun, Goto, Unmoved
  <2>3. Done' = Done /\ Done = calls + 2
    BY <1>1, <2>1 DEF Done, Calling
  <2>4. \A w \in Workers : ~ Told(w)
    BY <1>2, <2>1 DEF Told
  <2>5. \A w \in Workers : Worker(w)'
    BY <1>1, <1>2, <1>3, <2>1, <2>2, <2>3, <2>4, WorkerKept
  <2>6. \A r \in Ranks : InOrder(r)'
    <3> TAKE r \in Ranks
    <3>1. InOrder(r)
      BY DEF Lockstep
    <3>2. ASSUME NEW i \in 1 .. Len(queued[r])
          PROVE  queued[r][i] = Collective(i)' /\ ~ (i > calls' + 2)
      <4>1. queued[r][i] = Collective(i) /\ ~ (i > calls + 2) /\ i \in Int
        BY <1>2, <3>1 DEF InOrder
      <4>2. i <= calls + 2 /\ i <= calls' + 2
        BY <1>1, <2>1, <4>1
      <4> QED BY <1>1, <2>1, <4>1, <4>2 DEF Collective
    <3> QED BY <2>1, <3>2 DEF InOrder
  <2>7. RankZero'
    <3>1. call'[0].id = calls + 1
      BY <2>1 DEF Run
    <3>2. Len(queued[0]) = Done
      BY <1>1, <1>2, <2>1 DEF RankZero
    <3> QED BY <1>1, <1>2, <2>1, <2>3, <3>1, <3>2 DEF RankZero, Started, Calling
  <2> QED BY <2>5, <2>6, <2>7 DEF Lockstep
<1>5. ASSUME WriteRun PROVE Lockstep'
  <2>1. /\ pc[0] = "write" /\ pc'[0] = "set" /\ shm' = call[0]
        /\ UNCHANGED <<stopper, queued, call, calls, event>>
    BY <1>1, <1>5 DEF WriteRun, Write, Goto, boundVars
  <2>2. \A w \in Workers : Unmoved(w)
    BY <1>1, <1>5 DEF WriteRun, Goto, Unmoved
  <2>3. Done' = Done /\ (Started' <=> Started)
    BY <1>1, <1>2, <2>1 DEF Done, Calling, Started
  <2>4. \A w \in Workers : ~ Told(w)
    BY <1>2, <2>1 DEF Told
  <2>5. \A w \in Workers : Worker(w)'
    BY <1>1, <2>1, <2>2, <2>3, <2>4, WorkerStillIdle
  <2>6. \A r \in Ranks : InOrder(r)'
    BY <1>1, <2>1, OrderKept
  <2>7. RankZero'
    BY <1>1, <1>2, <2>1, <2>3 DEF RankZero, Started, Calling
  <2> QED BY <2>5, <2>6, <2>7 DEF Lockstep
<1>6. ASSUME SetForRun PROVE Lockstep'
  <2> DEFINE v == to_set["executor"]
  <2>1. /\ pc[0] = "set" /\ v \in Workers /\ event' = [event EXCEPT ![v] = TRUE]
        /\ to_set' = [to_set EXCEPT !["executor"] = v + 1]
        /\ UNCHANGED <<stopper, queued, call, calls, pc, shm>>
    BY <1>1, <1>6 DEF SetForRun, SetNext, boundVars
  <2>2. Done' = Done /\ (Started' <=> Started)
    BY <2>1 DEF Done, Started
  <2>3. to_set'["executor"] = v + 1 /\ v \in Nat
    BY <1>1, <2>1
  <2>4. \A w \in Workers : /\ Told(w) <=> v > w
                           /\ Told(w)' <=> v + 1 > w
    BY <1>2, <2>1, <2>3 DEF Told
  <2>5. \A w \in Workers : Worker(w)'
    <3> TAKE w \in Workers
    <3>1. CASE w = v
      <4>1. ~ Told(w) /\ Told(w)'
        BY <1>1, <2>3, <2>4, <3>1
      <4>2. /\ pc'[w] \in {"barrier", "open", "wait"} /\ Len(queued'[w]) = Done'
            /\ pc[w] # "wait" => Len(queued[w]) = 2
        BY <1>1, <1>2, <2>1, <2>2, <4>1 DEF Worker
      <4> QED BY <2>1, <4>1, <4>2 DEF Worker
    <3>2. CASE w # v
      <4>1. event'[w] = event[w] /\ Unmoved(w)
        BY <1>1, <2>1, <3>2 DEF Unmoved
      <4>2. Told(w) => Told(w)'
        BY <1>1, <2>3, <2>4
      <4> QED BY <1>1, <1>3, <1>2, <2>1, <2>2, <4>1, <4>2, WorkerKept
    <3> QED BY <3>1, <3>2
  <2>6. \A r \in Ranks : InOrder(r)'
    BY <1>1, <2>1, OrderKept
  <2>7. RankZero'
    BY <1>1, <1>2, <2>1, <2>2 DEF RankZero, Started, Calling
  <2> QED BY <2>5, <2>6, <2>7 DEF Lockstep
<1>7. ASSUME RunOnRankZero PROVE Lockstep'
  <2>1. /\ pc[0] = "set" /\ pc'[0] = "run" /\ to_set["executor"] \notin Workers
        /\ UNCHANGED <<stopper, queued, call, calls, event, shm, to_set>>
    BY <1>1, <1>7 DEF RunOnRankZero, Goto, shmVars, boundVars
  <2>2. \A w \in Workers : Unmoved(w)
    BY <1>1, <1>7 DEF RunOnRankZero, Goto, Unmoved
  <2>3. Done' = Done /\ to_set["executor"] = WorldSize
    BY <1>1, <2>1 DEF Done, Calling
  <2>4. \A w \in Workers : Told(w) => Told(w)'
    BY <2>1 DEF Told
  <2>5. \A w \in Workers : Worker(w)'
    BY <1>1, <1>2, <1>3, <2>1, <2>2, <2>3, <2>4, WorkerKept
  <2>6. \A r \in Ranks : InOrder(r)'
    BY <1>1, <2>1, OrderKept
  <2>7. RankZero'
    BY <1>1, <1>2, <2>1, <2>3 DEF RankZero, Started, Calling
  <2> QED BY <2>5, <2>6, <2>7 DEF Lockstep
<1>8. ASSUME QueueRun(0) PROVE Lockstep'
  <2>1. call[0].id = calls /\ calls >= 1 /\ pc[0] = "run" /\ Len(queued[0]) = calls + 1
        /\ Done = calls + 1
    BY <1>1, <1>2, <1>8, DoneIs DEF QueueRun, RankZero, Calling
  <2>2. /\ pc'[0] = "collect" /\ Queue(0, <<"run", calls>>)
        /\ UNCHANGED <<stopper, call, calls, event, shm, to_set>>
    BY <1>1, <1>8, <2>1 DEF QueueRun, Goto, shmVars, boundVars
  <2>3. /\ Len(queued'[0]) = Len(queued[0]) + 1
        /\ \A w \in Workers : queued'[w] = queued[w]
    BY <1>1, <2>2, Queued, CollectivesAre
  <2>4. \A w \in Workers : Unmoved(w)
    BY <1>1, <1>8, <2>2, <2>3 DEF QueueRun, Goto, Unmoved
  <2>5. Done' = Done
    BY <2>1, <2>2 DEF Done, Calling
  <2>6. \A w \in Workers : Told(w) => Told(w)'
    BY <2>2 DEF Told
  <2>7. \A w \in Workers : Worker(w)'
    BY <1>1, <1>2, <1>3, <2>2, <2>4, <2>5, <2>6, WorkerKept
  <2>8. Collective(Len(queued[0]) + 1) = <<"run", calls>> /\ ~ (Len(queued[0]) + 1 > calls + 2)
    BY <1>1, <2>1 DEF Collective
  <2>9. \A r \in Ranks : InOrder(r)'
    BY <1>1, <2>2, <2>3, <2>8, CollectivesAre, NextInOrder, OrderKept
  <2>10. RankZero'
    BY <1>1, <1>2, <2>1, <2>2, <2>3, <2>5 DEF RankZero, Started, Calling
  <2> QED BY <2>7, <2>9, <2>10 DEF Lockstep
<1>9. ASSUME Collect PROVE Lockstep'
  <2>1. /\ pc[0] = "collect" /\ pc'[0] = "ready" /\ Complete(0)
        /\ UNCHANGED <<stopper, queued, call, calls, event, shm, to_set>>
    BY <1>1, <1>9 DEF Collect, Goto, shmVars, boundVars
  <2>2. \A w \in Workers : Unmoved(w)
    BY <1>1, <1>9 DEF Collect, Goto, Unmoved
  <2>3. Done' = Done + 1 /\ Done = calls + 1 /\ Len(queued[0]) = Done + 1
    BY <1>1, <2>1 DEF Done, Calling, RankZero
  <2>4. shm.method = "run"
    BY <1>1, <2>1, Methods DEF Typed, RankZero, Calling
  <2>5. \A w \in Workers : Worker(w)'
    <3> TAKE w \in Workers
    <3>1. Len(queued[w]) >= Len(queued[0])
      BY <1>1, <2>1 DEF Complete
    <3>2. pc[w] = "wait" /\ Len(queued[w]) = Done + 1 /\ ~ event[w]
      BY <1>1, <1>2, <2>3, <2>4, <3>1 DEF Worker
    <3> QED BY <2>1, <2>2, <2>3, <3>2 DEF Worker, Unmoved
  <2>6. \A r \in Ranks : InOrder(r)'
    BY <1>1, <2>1, OrderKept
  <2>7. RankZero'
    BY <1>1, <1>2, <2>1, <2>3 DEF RankZero, Started, Calling
  <2> QED BY <2>5, <2>6, <2>7 DEF Lockstep
<1> QED BY <1>4, <1>5, <1>6, <1>7, <1>8, <1>9 DEF ExecutorStep

(* A step of the thread that stops the engine, between two calls.          *)
LEMMA StopperSteps ==
  ASSUME Typed, Opening, Lockstep, (BeginExit /\ ~ raced') \/ StopperStep
  PROVE  Lockstep'
<1>1. /\ 0 \in Ranks /\ Workers = Ranks \ {0} /\ RankZero /\ InOrder(0)
      /\ (\A w \in Workers : Worker(w) /\ InOrder(w))
      /\ Len(queued[0]) \in Nat /\ calls \in Nat /\ Done \in Nat
      /\ event \in [Workers -> BOOLEAN]
      /\ to_set \in [{"executor", "stopper"} -> 1 .. WorldSize]
      /\ WorldSize \in Nat \ {0} /\ Workers = 1 .. WorldSize - 1
  BY ZeroIsARank, LengthsAre, DoneIs, WorkersAreNumbers DEF Lockstep, Typed, Workers
<1>2. pc[0] = "ready" /\ pc' = pc /\ call' = call /\ calls' = calls
  BY <1>1
  DEF BeginExit, StopperStep, WriteExit, SetForExit, ExitOnRankZero, Unlink, Join,
      RankZero, shmVars, boundVars
<1>3. Done' = Done /\ Done = calls + 2 /\ Started /\ Started'
  BY <1>2 DEF Done, Started, Calling
<1>4. \A w \in Workers : pc[w] \notin {"load", "warmup"}
  BY <1>1, <1>3 DEF Worker
<1>5. CASE BeginExit
  <2>1. /\ stopper = "no" /\ stopper' = "write"
        /\ UNCHANGED <<queued, event, shm, to_set>>
    BY <1>5 DEF BeginExit, shmVars
  <2>2. \A w \in Workers : Unmoved(w) /\ ~ Told(w)
    BY <1>2, <2>1 DEF Unmoved, Told
  <2>3. \A w \in Workers : Worker(w)'
    BY <1>1, <1>3, <1>4, <2>1, <2>2, WorkerKept
  <2>4. \A r \in Ranks : InOrder(r)'
    BY <1>1, <1>2, <2>1, OrderKept
  <2>5. RankZero'
    BY <1>1, <1>2, <1>3, <2>1 DEF RankZero, Calling
  <2> QED BY <2>3, <2>4, <2>5 DEF Lockstep
<1>6. CASE WriteExit
  <2>1. /\ stopper = "write" /\ stopper' = "set" /\ shm' = Exit
        /\ UNCHANGED <<queued, event>>
    BY <1>6 DEF WriteExit, Write
  <2>2. \A w \in Workers : Unmoved(w) /\ ~ Told(w)
    BY <1>2, <2>1 DEF Unmoved, Told
  <2>3. \A w \in Workers : Worker(w)'
    BY <1>1, <1>3, <2>1, <2>2, WorkerStillIdle
  <2>4. \A r \in Ranks : InOrder(r)'
    BY <1>1, <1>2, <2>1, OrderKept
  <2>5. RankZero'
    BY <1>1, <1>2, <1>3, <2>1 DEF RankZero, Calling
  <2> QED BY <2>3, <2>4, <2>5 DEF Lockstep
<1>7. CASE SetForExit
  <2> DEFINE v == to_set["stopper"]
  <2>1. /\ stopper = "set" /\ v \in Workers /\ event' = [event EXCEPT ![v] = TRUE]
        /\ to_set' = [to_set EXCEPT !["stopper"] = v + 1]
        /\ UNCHANGED <<stopper, queued, shm>>
    BY <1>7 DEF SetForExit, SetNext
  <2>2. to_set'["stopper"] = v + 1 /\ v \in Nat
    BY <1>1, <2>1
  <2>3. \A w \in Workers : /\ Told(w) <=> v > w
                           /\ Told(w)' <=> v + 1 > w
    BY <1>2, <2>1, <2>2 DEF Told
  <2>4. \A w \in Workers : Worker(w)'
    <3> TAKE w \in Workers
    <3>1. CASE w = v
      <4>1. ~ Told(w) /\ Told(w)'
        BY <1>1, <2>2, <2>3, <3>1
      <4>2. /\ pc'[w] \in {"barrier", "open", "wait"} /\ Len(queued'[w]) = Done'
            /\ pc[w] # "wait" => Len(queued[w]) = 2
        BY <1>1, <1>2, <1>3, <2>1, <4>1 DEF Worker
      <4> QED BY <1>2, <2>1, <4>1, <4>2 DEF Worker
    <3>2. CASE w # v
      <4>1. event'[w] = event[w] /\ Unmoved(w)
        BY <1>1, <1>2, <2>1, <3>2 DEF Unmoved
      <4>2. Told(w) => Told(w)'
        BY <1>1, <2>2, <2>3
      <4> QED BY <1>1, <1>3, <1>4, <2>1, <4>1, <4>2, WorkerKept
    <3> QED BY <3>1, <3>2
  <2>5. \A r \in Ranks : InOrder(r)'
    BY <1>1, <1>2, <2>1, OrderKept
  <2>6. RankZero'
    BY <1>1, <1>2, <1>3, <2>1 DEF RankZero, Calling
  <2> QED BY <2>4, <2>5, <2>6 DEF Lockstep
<1>8. CASE ExitOnRankZero
  <2>1. /\ stopper = "set" /\ stopper' = "barrier" /\ to_set["stopper"] \notin Workers
        /\ Queue(0, <<"exit", 0>>) /\ UNCHANGED <<event, shm, to_set>>
    BY <1>8 DEF ExitOnRankZero, shmVars
  <2>2. /\ Len(queued'[0]) = Len(queued[0]) + 1 /\ Len(queued[0]) = Done
        /\ \A w \in Workers : queued'[w] = queued[w]
    BY <1>1, <1>2, <2>1, Queued, CollectivesAre DEF RankZero
  <2>3. \A w \in Workers : Unmoved(w) /\ (Told(w) => Told(w)')
    BY <1>2, <2>1, <2>2 DEF Unmoved, Told
  <2>4. \A w \in Workers : Worker(w)'
    BY <1>1, <1>3, <1>4, <2>1, <2>3, WorkerKept
  <2>5. Collective(Len(queued[0]) + 1) = <<"exit", 0>>
    BY <1>1, <1>3, <2>2 DEF Collective
  <2>6. InOrder(0)'
    <3>1. \A i : Collective(i)' = Collective(i)
      BY <1>2 DEF Collective
    <3>2. /\ queued'[0][Len(queued[0]) + 1] = <<"exit", 0>>
          /\ \A i \in 1 .. Len(queued[0]) : queued'[0][i] = queued[0][i]
      BY <1>1, <2>1, Queued, CollectivesAre
    <3>3. ASSUME NEW i \in 1 .. Len(queued'[0]) PROVE queued'[0][i] = Collective(i)'
      <4>1. i \in 1 .. Len(queued[0]) \/ i = Len(queued[0]) + 1
        BY <1>1, <2>2
      <4> QED BY <1>1, <2>5, <3>1, <3>2, <4>1 DEF InOrder
    <3> QED BY <2>1, <3>3 DEF InOrder
  <2>7. \A w \in Workers : InOrder(w)'
    BY <1>1, <1>2, <2>1, <2>2, OrderKept
  <2>8. RankZero'
    BY <1>1, <1>2, <1>3, <2>1, <2>2 DEF RankZero, Calling
  <2> QED BY <1>1, <2>4, <2>6, <2>7, <2>8 DEF Lockstep
<1>9. CASE Unlink \/ Join
  <2>1. /\ stopper \in {"barrier", "join"} /\ stopper' \in {"join", "done"}
        /\ UNCHANGED <<queued, event, shm, to_set>>
    BY <1>9 DEF Unlink, Join, shmVars
  <2>2. \A w \in Workers : Unmoved(w) /\ (Told(w) => Told(w)')
    BY <1>2, <2>1 DEF Unmoved, Told
  <2>3. \A w \in Workers : Worker(w)'
    BY <1>1, <1>3, <1>4, <2>1, <2>2, WorkerKept
  <2>4. \A r \in Ranks : InOrder(r)'
    BY <1>1, <1>2, <2>1, OrderKept
  <2>5. RankZero'
    BY <1>1, <1>2, <1>3, <2>1 DEF RankZero, Calling
  <2> QED BY <2>3, <2>4, <2>5 DEF Lockstep
<1> QED BY <1>5, <1>6, <1>7, <1>8, <1>9 DEF StopperStep

(* The ranks are in step at the start.                                     *)
LEMMA InStepInit == RunnerInit => InStep
<1> SUFFICES ASSUME RunnerInit PROVE InStep
  OBVIOUS
<1>1. /\ \A r \in Ranks : pc[r] = "load" /\ queued[r] = <<>>
      /\ stopper = "no" /\ calls = 0 /\ raced = FALSE
      /\ \A w \in Workers : ~ event[w]
  BY DEF RunnerInit
<1>2. RankZero
  BY <1>1, ZeroIsARank DEF RankZero, Started, Calling
<1>3. \A w \in Workers : Worker(w)
  BY <1>1, ZeroIsARank DEF Worker, Started
<1>4. \A r \in Ranks : InOrder(r)
  BY <1>1 DEF InOrder
<1> QED BY <1>1, <1>2, <1>3, <1>4 DEF InStep, Lockstep

(* They stay in step.                                                      *)
LEMMA InStepNext == Typed /\ Opening /\ InStep /\ [RunnerNext]_runVars => InStep'
<1> SUFFICES ASSUME Typed, Opening, InStep, [RunnerNext]_runVars PROVE InStep'
  OBVIOUS
<1>1. CASE UNCHANGED runVars
  BY <1>1
  DEF runVars, shmVars, boundVars, InStep, Lockstep, RankZero, InOrder, Worker, Done,
      Started, Told, Collective
<1>2. CASE BeginExit
  <2>1. stopper = "no" /\ stopper' # "no"
    BY <1>2 DEF BeginExit
  <2>2. ~ raced' => Lockstep'
    BY <1>2, <2>1, StopperSteps DEF InStep
  <2> QED BY <2>1, <2>2 DEF InStep
<1>3. ASSUME raced' = raced, stopper # "no" => stopper' # "no", Lockstep => Lockstep'
      PROVE  InStep'
  BY <1>3 DEF InStep
<1>4. ASSUME NEW w \in Workers, RankStep(w) \/ WorkerStep(w) PROVE InStep'
  <2>1. raced' = raced /\ stopper' = stopper
    BY <1>4
    DEF RankStep, WorkerStep, Load, WarmUp, MeetBarrier, PassBarrier, QueueRun, OpenShm,
        ReadShm, ClearEvent, ExitOnWorker, Leave, boundVars
  <2> QED BY <1>3, <1>4, <2>1, WorkerSteps
<1>5. CASE Load(0) \/ WarmUp(0) \/ MeetBarrier(0) \/ PassBarrier(0)
  <2>1. raced' = raced /\ stopper' = stopper
    BY <1>5 DEF Load, WarmUp, MeetBarrier, PassBarrier, boundVars
  <2> QED BY <1>3, <1>5, <2>1, ZeroStarts
<1>6. CASE (\E p \in BOOLEAN, b \in Batches : BeginRun(p, b)) \/ ExecutorStep \/ QueueRun(0)
  <2>1. raced' = raced /\ stopper' = stopper
    BY <1>6
    DEF BeginRun, ExecutorStep, WriteRun, SetForRun, RunOnRankZero, Collect, QueueRun,
        boundVars
  <2> QED BY <1>3, <1>6, <2>1, ExecutorSteps
<1>7. CASE StopperStep
  <2>1. raced' = raced /\ stopper' # "no"
    BY <1>7
    DEF StopperStep, WriteExit, SetForExit, ExitOnRankZero, Unlink, Join, boundVars
  <2> QED BY <1>3, <1>7, <2>1, StopperSteps
<1>8. \A r \in Ranks : r = 0 \/ r \in Workers
  BY DEF Workers
<1> QED BY <1>1, <1>2, <1>4, <1>5, <1>6, <1>7, <1>8 DEF RunnerNext, RankStep

(* For every number of ranks: the collectives that two ranks have queued   *)
(* are the same, place by place, as long as exit() comes between steps.    *)
(* The events are what makes it true: a worker whose event is not set      *)
(* waits, and rank 0 writes the segment again only when every worker has   *)
(* queued the collectives of the call before.                              *)
THEOREM RanksStayInStep == RunnerSpec => []RanksInStep
<1>1. Typed /\ InStep => RanksInStep
  <2> SUFFICES ASSUME Typed, Lockstep, NEW r \in Ranks, NEW q \in Ranks,
                      NEW i \in DOMAIN queued[r] \cap DOMAIN queued[q]
               PROVE  queued[r][i] = queued[q][i]
    BY DEF InStep, RanksInStep
  <2>1. i \in 1 .. Len(queued[r]) /\ i \in 1 .. Len(queued[q])
    BY DEF Typed
  <2> QED BY <2>1 DEF Lockstep, InOrder
<1>2. RunnerSpec => []InStep
  BY InStepInit, InStepNext, AlwaysTyped, AlwaysOpening, PTL DEF RunnerSpec
<1> QED BY <1>1, <1>2, AlwaysTyped, PTL
=============================================================================
