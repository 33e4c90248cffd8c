------------------------- MODULE AsyncEngineProofs --------------------------
(***************************************************************************)
(* For every number of requests, queue depth and size of batches, and any  *)
(* number of failures: a stream carries the tokens of its own request, the *)
(* table of sequences holds unfinished ones only, the backlog exceeds its  *)
(* limit by one request at most, no token of a stream is skipped, and one  *)
(* that ended is complete.                                                 *)
(***************************************************************************)
EXTENDS AsyncEngine, QueueLemmas

(* The sequences that are not finished.                                    *)
Live == Range(waiting) \cup Range(running) \cup Range(held) \cup lost

(* The tokens of the sequences made from request r.                        *)
Owned(r) == {t \in SeqIds \X Nat : source[t[1]] = r}

-----------------------------------------------------------------------------
(* The inductive invariant.                                                *)
Typed ==
  /\ loop \in {"drain", "adding", "added", "schedule", "run", "dispatch", "failed"}
  /\ failures \in 0 .. MaxFailures
  /\ stopped \in BOOLEAN
  /\ submitted \in 0 .. Cardinality(Requests)
  /\ counted \in Nat \cup {NotCounting}
  /\ adding \in Requests \cup {NoRequest}
  /\ loop \in {"adding", "added"} => adding \in Requests
  /\ ended \subseteq Requests
  /\ source \in Seq(Requests)
  /\ pending_add \in Seq(Requests)
  /\ lost \cup begun \subseteq SeqIds
  /\ generated \in [SeqIds -> Nat]
  /\ DOMAIN token_queues \subseteq Requests
  /\ DOMAIN seq_to_request \subseteq SeqIds
  /\ DOMAIN prev_counts \subseteq SeqIds
  /\ \A s \in DOMAIN prev_counts : prev_counts[s] \in Nat
  /\ DOMAIN new_tokens \subseteq SeqIds
  /\ finished \subseteq SeqIds

(* A sequence is in one deque or lost while it has tokens to generate.     *)
Placed ==
  /\ waiting \in Seq(SeqIds) /\ IsInjective(waiting)
  /\ running \in Seq(SeqIds) /\ IsInjective(running)
  /\ held \in Seq(SeqIds) /\ IsInjective(held)
  /\ Range(waiting) \cap Range(running) = {}
  /\ Range(waiting) \cap Range(held) = {}
  /\ Range(running) \cap Range(held) = {}
  /\ lost \cap (Range(waiting) \cup Range(running) \cup Range(held)) = {}
  /\ batch \in Seq(SeqIds) /\ Range(batch) \subseteq Range(running)
  /\ \A s \in Live : generated[s] < MaxTokens[source[s]]
  /\ loop # "schedule" => held = <<>>
  /\ loop \notin {"schedule", "run"} => batch = <<>>
  /\ held = <<>> \/ batch = <<>>

(* A request is handed over once, and the last sequence of waiting is the  *)
(* one that was just added.                                                *)
Numbered ==
  /\ IsInjective(source) /\ IsInjective(pending_add)
  /\ Range(source) \cap Range(pending_add) = {}
  /\ Range(source) \cup Range(pending_add) \subseteq 1 .. submitted
  /\ loop = "adding" =>
       /\ adding \in 1 .. submitted
       /\ adding \notin Range(source) \cup Range(pending_add)
  /\ loop = "added" => waiting # <<>> /\ source[JustAdded] = adding

Mapped ==
  /\ DOMAIN seq_to_request \subseteq
       Live \cup (IF loop = "dispatch" THEN finished ELSE {})
  /\ \A s \in DOMAIN seq_to_request : seq_to_request[s] = source[s]

Routed ==
  /\ received \in [Requests -> Seq(SeqIds \X Nat)]
  /\ \A r \in Requests : received[r] \in Seq(Owned(r))
  /\ \A r \in DOMAIN token_queues : token_queues[r] \in Seq(Seq(Owned(r)))
  /\ \A s \in DOMAIN new_tokens : new_tokens[s] \in Seq({s} \X Nat)

(* Only sequences that were scheduled leave waiting, so preempting one     *)
(* adds nothing to the backlog; and while get_capacity counts, the backlog *)
(* grows by no request beyond the one that is being handed over.           *)
Admitted ==
  /\ Range(running) \cup Range(held) \subseteq begun
  /\ counted # NotCounting => Backlog <= counted + 1
  /\ BacklogBounded

AsyncInv == Typed /\ Placed /\ Numbered /\ Mapped /\ Routed /\ Admitted

-----------------------------------------------------------------------------
(* The constants are numbers.                                              *)
LEMMA Numbers ==
  /\ Cardinality(Requests) \in Nat /\ Requests = 1 .. Cardinality(Requests)
  /\ 0 \notin Requests
  /\ \A r \in Requests : MaxTokens[r] \in Nat /\ MaxTokens[r] > 0
  /\ MaxQueueDepth \in Nat /\ MaxNumSeqs \in Nat /\ MaxNumSeqs > 0
<1>1. Cardinality(Requests) \in Nat
  BY RequestsAssumption, FS_CardinalityType
<1>2. Requests = 1 .. Cardinality(Requests)
  BY RequestsAssumption
<1> QED BY <1>1, <1>2, LimitsAssumption

(* The lengths of the queues are numbers.                                  *)
LEMMA Lengths ==
  ASSUME Typed, Placed
  PROVE  /\ Len(pending_add) \in Nat /\ Len(waiting) \in Nat /\ Len(running) \in Nat
         /\ Len(held) \in Nat /\ Len(source) \in Nat /\ SeqIds = 1 .. Len(source)
<1>1. pending_add \in Seq(Requests) /\ source \in Seq(Requests)
  BY DEF Typed
<1>2. waiting \in Seq(SeqIds) /\ running \in Seq(SeqIds) /\ held \in Seq(SeqIds)
  BY DEF Placed
<1>3. SeqIds = 1 .. Len(source)
  BY <1>1, LenProperties DEF SeqIds
<1> QED BY <1>1, <1>2, <1>3, LenProperties

(* The part of the backlog that is in waiting.                             *)
LEMMA Unbegun ==
  ASSUME Typed, Placed
  PROVE  /\ IsFiniteSet(Range(waiting) \ begun)
         /\ Cardinality(Range(waiting) \ begun) \in Nat
         /\ Cardinality(Range(waiting) \ begun) <= Len(waiting)
<1> DEFINE positions == 1 .. Len(waiting)
           at == [i \in positions |-> waiting[i]]
<1>1. Len(waiting) \in Nat /\ DOMAIN waiting = positions
  BY LenProperties DEF Placed
<1>2. IsFiniteSet(positions) /\ Cardinality(positions) = Len(waiting)
  <2>1. /\ 1 \in Int /\ Len(waiting) \in Int
        /\ (IF 1 > Len(waiting) THEN 0 ELSE Len(waiting) - 1 + 1) = Len(waiting)
    BY <1>1
  <2> QED BY <2>1, FS_Interval
<1>3. at \in Surjection(positions, Range(waiting))
  BY <1>1 DEF Surjection, Range
<1> HIDE DEF at, positions
<1>4. IsFiniteSet(Range(waiting)) /\ Cardinality(Range(waiting)) <= Len(waiting)
  BY <1>2, <1>3, FS_Surjection
<1>5. /\ IsFiniteSet(Range(waiting) \ begun)
      /\ Cardinality(Range(waiting) \ begun) <= Cardinality(Range(waiting))
  BY <1>4, FS_Subset
<1> QED BY <1>1, <1>4, <1>5, FS_CardinalityType

(* The empty queue.                                                        *)
LEMMA EmptyQueue ==
  /\ \A T : <<>> \in Seq(T)
  /\ IsInjective(<<>>) /\ Range(<<>>) = {} /\ Len(<<>>) = 0 /\ DOMAIN <<>> = {}
BY DEF IsInjective, Range

(* A queue over a set is one over a larger set.                            *)
LEMMA LargerSeq ==
  ASSUME NEW S, NEW T, S \subseteq T
  PROVE  Seq(S) \subseteq Seq(T)
OBVIOUS

(* The elements of a queue.                                                *)
LEMMA ElementsOf ==
  ASSUME NEW T, NEW q \in Seq(T)
  PROVE  Range(q) \subseteq T
BY LenProperties DEF Range

(* A function on 1 .. n is a queue.                                        *)
LEMMA FunctionIsSeq ==
  ASSUME NEW S, NEW n \in Nat, NEW f \in [1 .. n -> S]
  PROVE  f \in Seq(S) /\ Len(f) = n
<1>1. f \in Seq(S)
  BY SeqDef
<1> QED BY <1>1, LenProperties

(* The start of the engine.                                                *)
LEMMA InitAsync == AsyncInit => AsyncInv
<1> SUFFICES ASSUME AsyncInit PROVE AsyncInv
  OBVIOUS
<1> USE EmptyQueue, Numbers
<1>1. SeqIds = {} /\ source = <<>>
  BY DEF AsyncInit, SeqIds
<1>2. Typed
  <2>1. generated \in [SeqIds -> Nat]
    <3>1. generated = <<>> /\ <<>> \in [{} -> Nat]
      BY DEF AsyncInit
    <3> QED BY <1>1, <3>1
  <2>2. failures \in 0 .. MaxFailures
    BY LimitsAssumption DEF AsyncInit
  <2>3. submitted \in 0 .. Cardinality(Requests)
    BY DEF AsyncInit
  <2>4. DOMAIN Empty = {}
    BY DEF Empty
  <2> QED BY <1>1, <2>1, <2>2, <2>3, <2>4 DEF AsyncInit, Typed
<1>3. Placed
  BY DEF AsyncInit, Placed, Live
<1>4. Numbered
  BY DEF AsyncInit, Numbered
<1>5. Mapped
  BY DEF AsyncInit, Mapped, Empty
<1>6. Routed
  <2>1. received \in [Requests -> Seq(SeqIds \X Nat)]
    BY DEF AsyncInit
  <2> QED BY <2>1 DEF AsyncInit, Routed, Empty
<1>7. Admitted
  <2>1. Range(waiting) \ begun = {} /\ Len(pending_add) = 0 /\ loop # "adding"
    BY DEF AsyncInit
  <2>2. Backlog = 0
    BY <2>1, FS_EmptySet DEF Backlog
  <2> QED BY <2>2 DEF AsyncInit, Admitted, BacklogBounded
<1> QED BY <1>2, <1>3, <1>4, <1>5, <1>6, <1>7 DEF AsyncInv

(* The invariants that depend on nothing else are kept with it.            *)
LEMMA SameDeques ==
  ASSUME Placed, UNCHANGED <<source, generated, deques, batch, loop>>
  PROVE  Placed'
BY DEF Placed, Live, deques, SeqIds

(* A step that creates no sequence.                                        *)
LEMMA SameNumbered ==
  ASSUME Numbered, UNCHANGED <<source, pending_add, submitted>>,
         loop' \notin {"adding", "added"}
  PROVE  Numbered'
BY DEF Numbered

(* A step that takes no entry of the map out.                              *)
LEMMA SameMapped ==
  ASSUME Mapped, UNCHANGED <<source, seq_to_request>>, Live \subseteq Live',
         loop # "dispatch"
  PROVE  Mapped'
BY DEF Mapped

(* A step that hands no token on.                                          *)
LEMMA SameRouted ==
  ASSUME Routed, UNCHANGED <<source, received, token_queues, new_tokens>>
  PROVE  Routed'
BY DEF Routed, Owned, SeqIds

(* A step that adds nothing to the backlog.                                *)
LEMMA SameBacklog ==
  ASSUME Admitted, Typed, Placed, UNCHANGED pending_add, loop' = "adding" => loop = "adding",
         Range(waiting') \ begun' \subseteq Range(waiting) \ begun,
         Range(running') \cup Range(held') \subseteq begun',
         counted' \in {counted, NotCounting}
  PROVE  Admitted'
<1> DEFINE was == Range(waiting) \ begun
           is == Range(waiting') \ begun'
<1>1. Cardinality(was) \in Nat /\ Cardinality(is) \in Nat /\ Cardinality(is) <= Cardinality(was)
  BY Unbegun, FS_Subset, FS_CardinalityType
<1>2. Len(pending_add) \in Nat
  BY Lengths
<1>3. Backlog \in Nat /\ Backlog' \in Nat /\ Backlog' <= Backlog
  BY <1>1, <1>2 DEF Backlog
<1>4. Backlog' <= MaxQueueDepth + 1
  BY <1>3, Numbers DEF Admitted, BacklogBounded
<1>5. counted' # NotCounting => Backlog' <= counted' + 1
  <2>1. SUFFICES ASSUME counted' # NotCounting PROVE Backlog' <= counted' + 1
    OBVIOUS
  <2>2. counted' = counted /\ counted \in Nat /\ Backlog <= counted + 1
    BY <2>1 DEF Admitted, Typed
  <2> QED BY <1>3, <2>2
<1> QED BY <1>4, <1>5 DEF Admitted, BacklogBounded

-----------------------------------------------------------------------------
(* The handlers.  Counting sees the whole backlog but the request that is  *)
(* being handed over.                                                      *)
LEMMA CountQueuedKeeps ==
  ASSUME AsyncInv, CountQueued
  PROVE  AsyncInv'
<1> USE DEF AsyncInv
<1>1. /\ UNCHANGED <<pending_add, mapVars, loop, adding, failures, stopped, submitted,
                    received, ended, seqVars, deques, batch, prev_counts, resultVars>>
      /\ counted' = Len(waiting) + Len(pending_add) /\ counted' \in Nat
  BY Lengths DEF CountQueued, Queued
<1>2. Typed'
  BY <1>1 DEF Typed, mapVars, seqVars, resultVars, deques, SeqIds
<1>3. Placed'
  BY <1>1, SameDeques DEF seqVars
<1>4. Numbered'
  BY <1>1 DEF Numbered, JustAdded, seqVars, deques
<1>5. Mapped'
  BY <1>1 DEF Mapped, Live, mapVars, seqVars, deques, resultVars
<1>6. Routed'
  BY <1>1, SameRouted DEF mapVars, seqVars, resultVars
<1>7. Admitted'
  <2>1. UNCHANGED <<pending_add, loop, waiting, running, held, begun>>
    BY <1>1 DEF deques, seqVars
  <2>2. Backlog' = Backlog
    BY <2>1 DEF Backlog
  <2>3. Backlog <= counted' + 1
    BY <1>1, Unbegun, Lengths DEF Backlog
  <2> QED BY <2>1, <2>2, <2>3 DEF Admitted, BacklogBounded
<1> QED BY <1>2, <1>3, <1>4, <1>5, <1>6, <1>7

LEMMA SubmitKeeps ==
  ASSUME AsyncInv, NEW r \in Requests, Submit(r)
  PROVE  AsyncInv'
<1> USE DEF AsyncInv
<1>1. Typed'
  <2>1. pending_add' \in Seq(Requests)
    BY Appended DEF Submit, Typed
  <2>2. DOMAIN token_queues' \subseteq Requests
    BY DEF Submit, Typed, Put
  <2>3. submitted' \in 0 .. Cardinality(Requests)
    BY Numbers DEF Submit, Typed
  <2> QED BY <2>1, <2>2, <2>3 DEF Submit, Typed, seqVars, resultVars, deques, SeqIds
<1>2. Placed'
  BY SameDeques DEF Submit, seqVars
<1>3. Numbered'
  <2>1. r \in Nat /\ submitted \in Nat /\ r = submitted + 1 /\ 1 .. submitted' = 1 .. submitted \cup {r}
    <3>1. r \in Nat /\ submitted \in Nat /\ r = submitted + 1 /\ submitted' = submitted + 1
      BY Numbers DEF Submit, Typed
    <3> QED BY ONLY <3>1
  <2>2. r \notin Range(source) \cup Range(pending_add)
    BY <2>1 DEF Numbered
  <2>3. /\ IsInjective(pending_add') /\ Range(pending_add') = Range(pending_add) \cup {r}
    BY <2>2, Appended DEF Submit, Typed, Numbered
  <2> QED BY <2>1, <2>2, <2>3 DEF Submit, Numbered, JustAdded, seqVars, deques
<1>4. Mapped'
  BY DEF Submit, Mapped, Live, seqVars, deques, resultVars
<1>5. Routed'
  <2>1. \A q \in DOMAIN token_queues' : token_queues'[q] \in Seq(Seq(Owned(q)))
    BY EmptyQueue DEF Submit, Routed, Put
  <2> QED BY <2>1 DEF Submit, Routed, Owned, SeqIds, seqVars, resultVars
<1>6. Admitted'
  <2>1. /\ Len(pending_add') = Len(pending_add) + 1 /\ counted' = NotCounting
        /\ UNCHANGED <<loop, waiting, running, held, begun>>
    BY Appended DEF Submit, Typed, deques, seqVars
  <2>2. counted \in Nat /\ counted < MaxQueueDepth
    BY Lengths, Numbers DEF Submit, EventLoopFree, total_active, Typed
  <2>3. Backlog \in Nat /\ Backlog' = Backlog + 1
    <3> DEFINE new == Cardinality(Range(waiting) \ begun)
               handed == IF loop = "adding" THEN 1 ELSE 0
    <3>1. new \in Nat /\ handed \in Nat /\ Len(pending_add) \in Nat
      BY Unbegun, Lengths
    <3>2. Backlog = Len(pending_add) + handed + new /\ Backlog' = Len(pending_add') + handed + new
      BY <2>1 DEF Backlog
    <3> HIDE DEF new, handed
    <3> QED BY <2>1, <3>1, <3>2
  <2>4. Backlog <= counted + 1
    BY <2>2 DEF Admitted, NotCounting
  <2>5. Backlog' <= MaxQueueDepth + 1
    BY <2>2, <2>3, <2>4, Numbers
  <2> QED BY <2>1, <2>5 DEF Admitted, BacklogBounded
<1> QED BY <1>1, <1>2, <1>3, <1>4, <1>5, <1>6

LEMMA RefuseKeeps ==
  ASSUME AsyncInv, Refuse
  PROVE  AsyncInv'
<1> USE DEF AsyncInv
<1>1. /\ UNCHANGED <<pending_add, mapVars, loop, adding, failures, stopped, submitted,
                    received, ended, seqVars, deques, batch, prev_counts, resultVars>>
      /\ counted' = NotCounting
  BY DEF Refuse
<1>2. Typed'
  BY <1>1 DEF Typed, mapVars, seqVars, resultVars, deques, SeqIds
<1>3. Placed'
  BY <1>1, SameDeques DEF seqVars
<1>4. Numbered'
  BY <1>1 DEF Numbered, JustAdded, seqVars, deques
<1>5. Mapped'
  BY <1>1 DEF Mapped, Live, mapVars, seqVars, deques, resultVars
<1>6. Routed'
  BY <1>1, SameRouted DEF mapVars, seqVars, resultVars
<1>7. Admitted'
  BY <1>1, SameBacklog DEF deques, seqVars, Admitted
<1> QED BY <1>2, <1>3, <1>4, <1>5, <1>6, <1>7

LEMMA ReadKeeps ==
  ASSUME AsyncInv, NEW r \in Requests, Read(r)
  PROVE  AsyncInv'
<1> USE DEF AsyncInv
<1>1. /\ UNCHANGED <<pending_add, seq_to_request, loop, adding, failures, stopped,
                    submitted, counted, seqVars, deques, batch, prev_counts, resultVars>>
      /\ DOMAIN token_queues' \subseteq DOMAIN token_queues
      /\ ended' \subseteq ended \cup {r}
  BY DEF Read, Closed
<1>2. Typed'
  BY <1>1 DEF Typed, seqVars, resultVars, SeqIds, deques
<1>3. Placed'
  BY <1>1, SameDeques DEF seqVars
<1>4. Numbered'
  BY <1>1 DEF Numbered, JustAdded, seqVars, deques
<1>5. Mapped'
  BY <1>1 DEF Mapped, Live, seqVars, deques, resultVars
<1>6. Routed'
  <2>1. token_queues[r] \in Seq(Seq(Owned(r))) /\ token_queues[r] # <<>>
    BY DEF Read, Routed
  <2>2. Head(token_queues[r]) \in Seq(Owned(r)) /\ Tail(token_queues[r]) \in Seq(Seq(Owned(r)))
    BY <2>1, Popped
  <2>3. CASE Head(token_queues[r]) = END
    <3>1. received' = received /\ \A q \in DOMAIN token_queues' : token_queues'[q] = token_queues[q]
      BY <2>3 DEF Read, Closed
    <3> QED BY <1>1, <3>1 DEF Routed, Owned, SeqIds, seqVars, resultVars
  <2>4. CASE Head(token_queues[r]) # END
    <3>1. /\ token_queues' = [token_queues EXCEPT ![r] = Tail(@)]
          /\ received' = [received EXCEPT ![r] = @ \o Head(token_queues[r])]
      BY <2>4 DEF Read
    <3>2. Owned(r) \subseteq SeqIds \X Nat
      BY DEF Owned
    <3>3. /\ received[r] \o Head(token_queues[r]) \in Seq(Owned(r))
          /\ received[r] \o Head(token_queues[r]) \in Seq(SeqIds \X Nat)
      BY <2>2, <3>2, LargerSeq, ConcatProperties DEF Routed
    <3>4. UNCHANGED <<source, new_tokens>>
      BY <1>1 DEF seqVars, resultVars
    <3>5. /\ received' \in [Requests -> Seq(SeqIds \X Nat)]
          /\ \A q \in Requests : received'[q] \in Seq(Owned(q))
      BY <3>1, <3>3 DEF Routed
    <3>6. \A q \in DOMAIN token_queues' : token_queues'[q] \in Seq(Seq(Owned(q)))
      BY <2>2, <3>1 DEF Routed
    <3> QED BY <3>4, <3>5, <3>6 DEF Routed, Owned, SeqIds
  <2> QED BY <2>3, <2>4
<1>7. Admitted'
  BY <1>1, SameBacklog DEF deques, frontVars, seqVars, Admitted
<1> QED BY <1>2, <1>3, <1>4, <1>5, <1>6, <1>7

LEMMA AbandonKeeps ==
  ASSUME AsyncInv, NEW r \in Requests, Abandon(r)
  PROVE  AsyncInv'
<1> USE DEF AsyncInv
<1>1. /\ UNCHANGED <<pending_add, seq_to_request, loop, adding, failures, stopped,
                    frontVars, seqVars, deques, batch, prev_counts, resultVars>>
      /\ DOMAIN token_queues' \subseteq DOMAIN token_queues
      /\ \A q \in DOMAIN token_queues' : token_queues'[q] = token_queues[q]
  BY DEF Abandon, Closed
<1>2. Typed'
  BY <1>1 DEF Typed, frontVars, seqVars, resultVars, SeqIds, deques
<1>3. Placed'
  BY <1>1, SameDeques DEF seqVars
<1>4. Numbered'
  BY <1>1 DEF Numbered, JustAdded, frontVars, seqVars, deques
<1>5. Mapped'
  BY <1>1 DEF Mapped, Live, seqVars, deques, resultVars
<1>6. Routed'
  BY <1>1 DEF Routed, Owned, SeqIds, frontVars, seqVars, resultVars
<1>7. Admitted'
  BY <1>1, SameBacklog DEF deques, frontVars, seqVars, Admitted
<1> QED BY <1>2, <1>3, <1>4, <1>5, <1>6, <1>7

-----------------------------------------------------------------------------
(* Handing a request over.                                                 *)
LEMMA StartAddKeeps ==
  ASSUME AsyncInv, StartAdd
  PROVE  AsyncInv'
<1> USE DEF AsyncInv
<1>1. /\ adding' \in Requests /\ pending_add' \in Seq(Requests)
      /\ Len(pending_add) = Len(pending_add') + 1
      /\ Range(pending_add) = {adding'} \cup Range(pending_add')
      /\ IsInjective(pending_add') /\ adding' \notin Range(pending_add')
  BY Popped DEF StartAdd, Typed, Numbered
<1>2. Typed'
  BY <1>1 DEF StartAdd, Typed, mapVars, frontVars, seqVars, resultVars, SeqIds, deques
<1>3. Placed'
  BY DEF StartAdd, Placed, Live, deques, seqVars, SeqIds
<1>4. Numbered'
  BY <1>1 DEF StartAdd, Numbered, frontVars, seqVars
<1>5. Mapped'
  BY SameMapped DEF StartAdd, Live, mapVars, seqVars, deques
<1>6. Routed'
  BY SameRouted DEF StartAdd, mapVars, frontVars, seqVars, resultVars
<1>7. Admitted'
  <2>1. /\ loop # "adding" /\ loop' = "adding" /\ Len(pending_add') \in Nat
        /\ UNCHANGED <<waiting, running, held, begun, counted>>
    BY <1>1, LenProperties DEF StartAdd, deques, frontVars, seqVars
  <2>2. Backlog' = Backlog
    BY <1>1, <2>1, Unbegun, Lengths DEF Backlog
  <2> QED BY <2>1, <2>2 DEF Admitted, BacklogBounded
<1> QED BY <1>2, <1>3, <1>4, <1>5, <1>6, <1>7

LEMMA EngineAddKeeps ==
  ASSUME AsyncInv, EngineAdd
  PROVE  AsyncInv'
<1> USE DEF AsyncInv
<1> DEFINE id == Len(source) + 1
<1>1. /\ loop = "adding" /\ adding \in Requests /\ source \in Seq(Requests)
      /\ held = <<>> /\ batch = <<>> /\ Len(source) \in Nat /\ SeqIds = 1 .. Len(source)
  BY Lengths DEF EngineAdd, Typed, Placed
<1>2. /\ source' \in Seq(Requests) /\ SeqIds' = SeqIds \cup {id} /\ id \notin SeqIds
      /\ source'[id] = adding /\ \A s \in SeqIds : source'[s] = source[s]
      /\ Range(source') = Range(source) \cup {adding} /\ IsInjective(source')
  <2>1. adding \notin Range(source) /\ IsInjective(source)
    BY <1>1 DEF Numbered
  <2>2. source' = Append(source, adding)
    BY DEF EngineAdd
  <2>3. source'[id] = adding
    BY <1>1, <2>2
  <2> QED BY <1>1, <2>1, <2>2, <2>3, Appended DEF SeqIds
<1>3. /\ generated' \in [SeqIds' -> Nat]
      /\ generated'[id] = 0 /\ \A s \in SeqIds : generated'[s] = generated[s]
  <2>1. generated \in [1 .. Len(source) -> Nat]
    BY <1>1 DEF Typed
  <2>2. generated \in Seq(Nat) /\ Len(generated) = Len(source)
    BY <1>1, <2>1, FunctionIsSeq
  <2>3. generated' = Append(generated, 0)
    BY DEF EngineAdd
  <2>4. /\ generated' \in Seq(Nat) /\ Len(generated') = id
        /\ generated'[id] = 0 /\ \A s \in 1 .. Len(source) : generated'[s] = generated[s]
    BY <1>1, <2>2, <2>3
  <2>5. SeqIds' = 1 .. id
    BY <1>1, <1>2
  <2>6. generated' \in [1 .. id -> Nat]
    BY <2>4, LenProperties
  <2>7. generated'[id] = 0 /\ \A s \in SeqIds : generated'[s] = generated[s]
    BY <1>1, <2>4
  <2> QED BY <2>5, <2>6, <2>7
<1> HIDE DEF id
<1>4. /\ waiting' \in Seq(SeqIds') /\ IsInjective(waiting')
      /\ Range(waiting') = Range(waiting) \cup {id} /\ Len(waiting') = Len(waiting) + 1
      /\ waiting' # <<>> /\ Last(waiting') = id
  <2>1. waiting \in Seq(SeqIds') /\ id \in SeqIds'
    BY <1>2, LargerSeq DEF Placed
  <2>2. Range(waiting) \subseteq SeqIds
    BY LenProperties DEF Placed, Range
  <2>3. waiting' = Append(waiting, id) /\ IsInjective(waiting)
    BY DEF EngineAdd, Placed, id
  <2> QED BY <1>2, <2>1, <2>2, <2>3, Appended
<1>5. Typed'
  BY <1>1, <1>2, <1>3 DEF EngineAdd, Typed, mapVars, frontVars, resultVars
<1>6. Placed'
  <2>1. /\ running' \in Seq(SeqIds') /\ held' \in Seq(SeqIds') /\ batch' \in Seq(SeqIds')
    BY <1>2, LargerSeq DEF EngineAdd, Placed
  <2>2. Range(running) \subseteq SeqIds /\ Range(waiting) \subseteq SeqIds
    BY LenProperties DEF Placed, Range
  <2>3. /\ Range(held') = {} /\ Range(batch') = {} /\ Len(held') = 0
    BY <1>1, EmptyQueue DEF EngineAdd
  <2>4. Live' = Live \cup {id} /\ Live \subseteq SeqIds /\ lost' = lost /\ lost \subseteq SeqIds
    BY <1>1, <1>4, <2>2, EmptyQueue DEF EngineAdd, Live, Typed
  <2>5. \A s \in Live' : generated'[s] < MaxTokens[source'[s]]
    BY <1>1, <1>2, <1>3, <2>4, Numbers DEF Placed
  <2>6. Range(waiting') \cap Range(running') = {}
    BY <1>2, <1>4, <2>2 DEF EngineAdd, Placed
  <2>7. UNCHANGED <<running, held, batch>> /\ loop' = "added"
    BY DEF EngineAdd
  <2>8. lost' \cap (Range(waiting') \cup Range(running') \cup Range(held')) = {}
    BY <1>2, <1>4, <2>3, <2>4, <2>7 DEF Placed
  <2> QED BY <1>1, <1>4, <2>1, <2>3, <2>5, <2>6, <2>7, <2>8 DEF Placed
<1>7. Numbered'
  BY <1>1, <1>2, <1>4 DEF EngineAdd, Numbered, JustAdded, frontVars
<1>8. Mapped'
  <2>1. Live \subseteq Live'
    BY <1>4 DEF EngineAdd, Live
  <2>2. DOMAIN seq_to_request \subseteq SeqIds
    BY DEF Typed
  <2> QED BY <1>1, <1>2, <2>1, <2>2 DEF EngineAdd, Mapped, mapVars
<1>9. Routed'
  <2>1. /\ SeqIds \X Nat \subseteq SeqIds' \X Nat
        /\ \A r \in Requests : Owned(r) \subseteq Owned(r)'
    BY <1>2 DEF Owned
  <2>2. /\ Seq(SeqIds \X Nat) \subseteq Seq(SeqIds' \X Nat)
        /\ \A r \in Requests : Seq(Owned(r)) \subseteq Seq(Owned(r)')
    BY <2>1, LargerSeq
  <2>3. \A r \in Requests : Seq(Seq(Owned(r))) \subseteq Seq(Seq(Owned(r)'))
    BY <2>2, LargerSeq
  <2>4. UNCHANGED <<received, token_queues, new_tokens>> /\ DOMAIN token_queues \subseteq Requests
    BY DEF EngineAdd, mapVars, frontVars, resultVars, Typed
  <2> QED BY <2>2, <2>3, <2>4 DEF Routed
<1>10. Admitted'
  <2> DEFINE was == Range(waiting) \ begun
             is == Range(waiting') \ begun'
  <2>1. is = was \cup {id} /\ UNCHANGED <<running, held, begun, counted, pending_add>>
    <3>1. id \notin begun /\ UNCHANGED <<running, held, begun, counted, pending_add>>
      BY <1>2 DEF EngineAdd, Typed, frontVars
    <3> QED BY <1>4, <3>1
  <2>2. Cardinality(was) \in Nat /\ Cardinality(is) <= Cardinality(was) + 1 /\ Cardinality(is) \in Nat
    <3>1. IsFiniteSet(was)
      BY Unbegun
    <3>2. Cardinality(was) \in Nat
      BY <3>1, FS_CardinalityType
    <3> HIDE DEF was, is
    <3>3. Cardinality(is) = IF id \in was THEN Cardinality(was) ELSE Cardinality(was) + 1
      BY <2>1, <3>1, FS_AddElement
    <3> QED BY <3>2, <3>3
  <2>3. Backlog' \in Nat /\ Backlog' <= Backlog
    BY <1>1, <2>1, <2>2, Lengths DEF EngineAdd, Backlog
  <2>4. counted' # NotCounting => Backlog' <= counted' + 1
    BY <1>1, <2>1, <2>2, <2>3, Lengths DEF Admitted, Typed, NotCounting, Backlog
  <2>5. BacklogBounded'
    <3>1. Backlog \in Nat /\ Backlog <= MaxQueueDepth + 1
      BY Unbegun, Lengths DEF Admitted, BacklogBounded, Backlog
    <3> QED BY <2>3, <3>1, Numbers DEF BacklogBounded
  <2> QED BY <2>1, <2>4, <2>5 DEF Admitted
<1> QED BY <1>5, <1>6, <1>7, <1>8, <1>9, <1>10

LEMMA MapAddedKeeps ==
  ASSUME AsyncInv, MapAdded
  PROVE  AsyncInv'
<1> USE DEF AsyncInv
<1>1. /\ waiting # <<>> /\ source[JustAdded] = adding
      /\ JustAdded \in Range(waiting) /\ JustAdded \in SeqIds
  <2>1. waiting # <<>> /\ source[JustAdded] = adding /\ waiting \in Seq(SeqIds)
    BY DEF MapAdded, Numbered, Placed
  <2> QED BY <2>1, Shortened DEF JustAdded
<1>2. Typed'
  BY <1>1 DEF MapAdded, Typed, Put, frontVars, seqVars, resultVars, SeqIds, deques
<1>3. Placed'
  BY DEF MapAdded, Placed, Live, deques, seqVars, SeqIds
<1>4. Numbered'
  BY SameNumbered DEF MapAdded, frontVars, seqVars
<1>5. Mapped'
  BY <1>1 DEF MapAdded, Mapped, Live, Put, deques, seqVars
<1>6. Routed'
  BY SameRouted DEF MapAdded, frontVars, seqVars, resultVars
<1>7. Admitted'
  BY SameBacklog DEF MapAdded, deques, frontVars, seqVars, Admitted
<1> QED BY <1>2, <1>3, <1>4, <1>5, <1>6, <1>7

-----------------------------------------------------------------------------
(* A step of the engine.                                                   *)
LEMMA StartStepKeeps ==
  ASSUME AsyncInv, StartStep
  PROVE  AsyncInv'
<1> USE DEF AsyncInv
<1>1. /\ DOMAIN prev_counts' \subseteq SeqIds
      /\ \A s \in DOMAIN prev_counts' : prev_counts'[s] \in Nat
  <2>1. Range(running) \subseteq SeqIds
    BY LenProperties DEF Placed, Range
  <2>2. \A s \in SeqIds : generated[s] \in Nat
    BY Numbers DEF Typed
  <2> QED BY <2>1, <2>2 DEF StartStep
<1>2. Typed'
  BY <1>1 DEF StartStep, Typed, mapVars, frontVars, seqVars, resultVars, SeqIds, deques
<1>3. Placed'
  BY DEF StartStep, Placed, Live, deques, seqVars, SeqIds
<1>4. Numbered'
  BY SameNumbered DEF StartStep, frontVars, seqVars
<1>5. Mapped'
  BY SameMapped DEF StartStep, Live, mapVars, seqVars, deques
<1>6. Routed'
  BY SameRouted DEF StartStep, mapVars, frontVars, seqVars, resultVars
<1>7. Admitted'
  BY SameBacklog DEF StartStep, deques, frontVars, seqVars, Admitted
<1> QED BY <1>2, <1>3, <1>4, <1>5, <1>6, <1>7

(* What a move of schedule() keeps.                                        *)
LEMMA ScheduleKeeps ==
  ASSUME AsyncInv, Placed', loop = "schedule", loop' \in {"schedule", "run"},
         UNCHANGED <<pending_add, mapVars, adding, failures, stopped, frontVars,
                     source, generated, prev_counts, resultVars>>,
         Live' = Live, lost' \cup begun' \subseteq SeqIds,
         Range(waiting') \ begun' \subseteq Range(waiting) \ begun,
         Range(running') \cup Range(held') \subseteq begun'
  PROVE  AsyncInv'
<1> USE DEF AsyncInv
<1>1. Typed'
  BY DEF Typed, mapVars, frontVars, resultVars, SeqIds
<1>2. Numbered'
  BY SameNumbered DEF frontVars
<1>3. Mapped'
  BY SameMapped DEF mapVars
<1>4. Routed'
  BY SameRouted DEF mapVars, frontVars, resultVars
<1>5. Admitted'
  BY SameBacklog DEF frontVars
<1> QED BY <1>1, <1>2, <1>3, <1>4, <1>5

(* One step of it after the other.                                         *)
LEMMA HoldRunningKeeps ==
  ASSUME AsyncInv, HoldRunning
  PROVE  AsyncInv'
<1> USE DEF AsyncInv
<1> DEFINE id == Head(running)
<1>1. /\ id \in SeqIds /\ running' \in Seq(SeqIds)
      /\ Range(running) = {id} \cup Range(running')
      /\ IsInjective(running') /\ id \notin Range(running')
  BY Popped DEF HoldRunning, Placed
<1>2. /\ held' \in Seq(SeqIds) /\ Range(held') = Range(held) \cup {id} /\ IsInjective(held')
  <2>1. id \notin Range(held) /\ held \in Seq(SeqIds) /\ IsInjective(held)
    BY <1>1 DEF Placed
  <2> QED BY <1>1, <2>1, Appended DEF HoldRunning
<1>3. batch = <<>> /\ loop = "schedule" /\ loop' = "schedule"
      /\ UNCHANGED <<waiting, lost, batch, source, generated, begun>>
  BY DEF HoldRunning, seqVars
<1> HIDE DEF id
<1>4. Live' = Live
  BY <1>1, <1>2, <1>3 DEF Live
<1>5. Placed'
  <2>1. /\ Range(waiting') \cap Range(running') = {} /\ Range(waiting') \cap Range(held') = {}
        /\ Range(running') \cap Range(held') = {}
    BY <1>1, <1>2, <1>3 DEF Placed
  <2>2. SeqIds' = SeqIds /\ batch' \in Seq(SeqIds) /\ Range(batch') = {}
    BY <1>3, EmptyQueue DEF SeqIds
  <2>3. lost' \cap (Range(waiting') \cup Range(running') \cup Range(held')) = {}
    BY <1>1, <1>2, <1>3 DEF Placed
  <2> QED BY <1>1, <1>2, <1>3, <1>4, <2>1, <2>2, <2>3 DEF Placed
<1>6. /\ lost' \cup begun' \subseteq SeqIds
      /\ Range(running') \cup Range(held') \subseteq begun'
  BY <1>1, <1>2, <1>3 DEF Typed, Admitted
<1> QED BY <1>3, <1>4, <1>5, <1>6, ScheduleKeeps DEF HoldRunning, seqVars

(* A victim goes to the front of waiting, out of the deque it was in.      *)
LEMMA PreemptMoves ==
  ASSUME AsyncInv, NEW s \in SeqIds, Preempt(s)
  PROVE  /\ waiting' \in Seq(SeqIds) /\ IsInjective(waiting')
         /\ running' \in Seq(SeqIds) /\ IsInjective(running')
         /\ held' \in Seq(SeqIds) /\ IsInjective(held')
         /\ Range(waiting') = Range(waiting) \cup {s}
         /\ Range(running') = Range(running) \ {s}
         /\ Range(held') = Range(held) \ {s}
         /\ s \in Range(running) \cup Range(held)
<1>1. /\ waiting \in Seq(SeqIds) /\ IsInjective(waiting)
      /\ running \in Seq(SeqIds) /\ IsInjective(running)
      /\ held \in Seq(SeqIds) /\ IsInjective(held)
      /\ Range(waiting) \cap Range(running) = {} /\ Range(waiting) \cap Range(held) = {}
  BY DEF AsyncInv, Placed
<1>2. s \in Range(running) \cup Range(held)
  BY <1>1, Shortened DEF Preempt, Victims
<1>3. waiting' = <<s>> \o waiting /\ running' = Without(running, {s}) /\ held' = Without(held, {s})
  BY DEF Preempt
<1>4. waiting' \in Seq(SeqIds) /\ IsInjective(waiting') /\ Range(waiting') = Range(waiting) \cup {s}
  BY <1>1, <1>2, <1>3, Pushed
<1>5. running' \in Seq(SeqIds) /\ IsInjective(running') /\ Range(running') = Range(running) \ {s}
  BY <1>1, <1>3, WithoutProperties
<1>6. held' \in Seq(SeqIds) /\ IsInjective(held') /\ Range(held') = Range(held) \ {s}
  BY <1>1, <1>3, WithoutProperties
<1> QED BY <1>2, <1>4, <1>5, <1>6

LEMMA PreemptKeeps ==
  ASSUME AsyncInv, NEW s \in SeqIds, Preempt(s)
  PROVE  AsyncInv'
<1> USE DEF AsyncInv
<1>1. /\ waiting' \in Seq(SeqIds) /\ IsInjective(waiting')
      /\ running' \in Seq(SeqIds) /\ IsInjective(running')
      /\ held' \in Seq(SeqIds) /\ IsInjective(held')
      /\ Range(waiting') = Range(waiting) \cup {s}
      /\ Range(running') = Range(running) \ {s}
      /\ Range(held') = Range(held) \ {s}
      /\ s \in Range(running) \cup Range(held)
  BY PreemptMoves
<1>2. batch = <<>> /\ loop = "schedule" /\ loop' = "schedule"
      /\ UNCHANGED <<lost, batch, source, generated, begun>>
  BY DEF Preempt, Placed, seqVars
<1>3. Live' = Live
  BY <1>1, <1>2 DEF Live
<1>4. Placed'
  <2>1. /\ Range(waiting') \cap Range(running') = {} /\ Range(waiting') \cap Range(held') = {}
        /\ Range(running') \cap Range(held') = {}
    BY <1>1 DEF Placed
  <2>2. SeqIds' = SeqIds /\ batch' \in Seq(SeqIds) /\ Range(batch') = {}
    BY <1>2, EmptyQueue DEF SeqIds
  <2>3. lost' \cap (Range(waiting') \cup Range(running') \cup Range(held')) = {}
    BY <1>1, <1>2 DEF Placed
  <2> QED BY <1>1, <1>2, <1>3, <2>1, <2>2, <2>3 DEF Placed
<1>5. /\ lost' \cup begun' \subseteq SeqIds
      /\ Range(waiting') \ begun' \subseteq Range(waiting) \ begun
      /\ Range(running') \cup Range(held') \subseteq begun'
  BY <1>1, <1>2 DEF Typed, Admitted
<1> QED BY <1>2, <1>3, <1>4, <1>5, ScheduleKeeps DEF Preempt, seqVars

LEMMA LoseKeeps ==
  ASSUME AsyncInv, NEW s \in SeqIds, Lose(s)
  PROVE  AsyncInv'
<1> USE DEF AsyncInv
<1>1. /\ held' \in Seq(SeqIds) /\ IsInjective(held') /\ Range(held') = Range(held) \ {s}
  <2>1. held \in Seq(SeqIds) /\ IsInjective(held)
    BY DEF Placed
  <2> QED BY <2>1, WithoutProperties DEF Lose
<1>2. /\ batch = <<>> /\ loop = "schedule" /\ loop' = "schedule"
      /\ s \in Range(held) /\ lost' = lost \cup {s}
      /\ UNCHANGED <<waiting, running, batch, source, generated, begun>>
  <2>1. held # <<>>
    BY EmptyQueue DEF Lose
  <2> QED BY <2>1 DEF Lose, Placed, seqVars
<1>3. Live' = Live
  BY <1>1, <1>2 DEF Live
<1>4. Placed'
  <2>1. /\ Range(waiting') \cap Range(running') = {} /\ Range(waiting') \cap Range(held') = {}
        /\ Range(running') \cap Range(held') = {}
    BY <1>1, <1>2 DEF Placed
  <2>2. SeqIds' = SeqIds /\ batch' \in Seq(SeqIds) /\ Range(batch') = {}
    BY <1>2, EmptyQueue DEF SeqIds
  <2>3. lost' \cap (Range(waiting') \cup Range(running') \cup Range(held')) = {}
    BY <1>1, <1>2 DEF Placed
  <2> QED BY <1>1, <1>2, <1>3, <2>1, <2>2, <2>3 DEF Placed
<1>5. /\ lost' \cup begun' \subseteq SeqIds
      /\ Range(running') \cup Range(held') \subseteq begun'
  BY <1>1, <1>2 DEF Typed, Admitted
<1> QED BY <1>2, <1>3, <1>4, <1>5, ScheduleKeeps DEF Lose, seqVars

LEMMA ScheduleDecodeKeeps ==
  ASSUME AsyncInv, ScheduleDecode
  PROVE  AsyncInv'
<1> USE DEF AsyncInv
<1>1. /\ running' \in Seq(SeqIds) /\ IsInjective(running')
      /\ Range(running') = Range(held) \cup Range(running)
  <2>1. /\ held \in Seq(SeqIds) /\ running \in Seq(SeqIds) /\ IsInjective(held)
        /\ IsInjective(running) /\ Range(held) \cap Range(running) = {}
    BY DEF Placed
  <2> QED BY <2>1, JoinInjective DEF ScheduleDecode
<1>2. /\ loop = "schedule" /\ loop' = "run" /\ held' = <<>> /\ batch' = held
      /\ UNCHANGED <<waiting, lost, source, generated, begun>>
      /\ Range(held') = {} /\ IsInjective(held') /\ held' \in Seq(SeqIds)
  BY EmptyQueue DEF ScheduleDecode, seqVars
<1>3. Live' = Live
  BY <1>1, <1>2 DEF Live
<1>4. Placed'
  <2>1. SeqIds' = SeqIds
    BY <1>2 DEF SeqIds
  <2>2. /\ Range(waiting') \cap Range(running') = {}
        /\ lost' \cap (Range(waiting') \cup Range(running') \cup Range(held')) = {}
    BY <1>1, <1>2 DEF Placed
  <2> QED BY <1>1, <1>2, <1>3, <2>1, <2>2 DEF Placed
<1>5. /\ lost' \cup begun' \subseteq SeqIds
      /\ Range(running') \cup Range(held') \subseteq begun'
  BY <1>1, <1>2 DEF Typed, Admitted
<1> QED BY <1>2, <1>3, <1>4, <1>5, ScheduleKeeps DEF ScheduleDecode, seqVars

LEMMA TakeWaitingKeeps ==
  ASSUME AsyncInv, NEW s \in SeqIds, TakeWaiting(s)
  PROVE  AsyncInv'
<1> USE DEF AsyncInv
<1>1. /\ waiting' \in Seq(SeqIds) /\ IsInjective(waiting') /\ Range(waiting') = Range(waiting) \ {s}
  <2>1. waiting \in Seq(SeqIds) /\ IsInjective(waiting)
    BY DEF Placed
  <2> QED BY <2>1, WithoutProperties DEF TakeWaiting
<1>2. /\ held = <<>> /\ Range(held) = {} /\ loop = "schedule" /\ loop' = "schedule"
      /\ s \in Range(waiting) /\ begun' = begun \cup {s}
      /\ UNCHANGED <<held, lost, source, generated>>
  BY EmptyQueue DEF TakeWaiting
<1>3. /\ running' \in Seq(SeqIds) /\ IsInjective(running')
      /\ Range(running') = Range(running) \cup {s}
  <2>1. running \in Seq(SeqIds) /\ IsInjective(running) /\ s \notin Range(running)
    BY <1>2 DEF Placed
  <2> QED BY <2>1, Appended DEF TakeWaiting
<1>4. batch' \in Seq(SeqIds) /\ Range(batch') \subseteq Range(running')
  <2>1. batch \in Seq(SeqIds) /\ Range(batch) \subseteq Range(running)
    BY DEF Placed
  <2> QED BY <1>3, <2>1, Appended DEF TakeWaiting
<1>5. Live' = Live
  BY <1>1, <1>2, <1>3 DEF Live
<1>6. Placed'
  <2>1. SeqIds' = SeqIds
    BY <1>2 DEF SeqIds
  <2>2. /\ Range(waiting') \cap Range(running') = {}
        /\ lost' \cap (Range(waiting') \cup Range(running') \cup Range(held')) = {}
    BY <1>1, <1>2, <1>3 DEF Placed
  <2> QED BY <1>1, <1>2, <1>3, <1>4, <1>5, <2>1, <2>2 DEF Placed
<1>7. /\ lost' \cup begun' \subseteq SeqIds
      /\ Range(waiting') \ begun' \subseteq Range(waiting) \ begun
      /\ Range(running') \cup Range(held') \subseteq begun'
  BY <1>1, <1>2, <1>3 DEF Typed, Admitted
<1> QED BY <1>2, <1>5, <1>6, <1>7, ScheduleKeeps DEF TakeWaiting

LEMMA SchedulePrefillKeeps ==
  ASSUME AsyncInv, SchedulePrefill
  PROVE  AsyncInv'
<1> USE DEF AsyncInv
<1>1. /\ loop = "schedule" /\ loop' = "run" /\ held = <<>>
      /\ UNCHANGED <<waiting, running, held, lost, batch, source, generated, begun>>
  BY DEF SchedulePrefill, Placed, deques, seqVars
<1>2. Live' = Live
  BY <1>1 DEF Live
<1>3. Placed'
  BY <1>1, <1>2 DEF Placed, SeqIds
<1>4. /\ lost' \cup begun' \subseteq SeqIds
      /\ Range(running') \cup Range(held') \subseteq begun'
  BY <1>1 DEF Typed, Admitted
<1> QED BY <1>1, <1>2, <1>3, <1>4, ScheduleKeeps DEF SchedulePrefill, seqVars

LEMMA PostprocessKeeps ==
  ASSUME AsyncInv, NEW ends \in SUBSET Range(batch), Postprocess(ends)
  PROVE  AsyncInv'
<1> USE DEF AsyncInv
<1> DEFINE counts == [s \in DOMAIN generated |->
                        generated[s] + IF s \in Range(batch) THEN 1 ELSE 0]
<1>1. /\ loop = "run" /\ loop' = "dispatch" /\ held = <<>> /\ batch' = <<>>
      /\ generated' = counts /\ finished' = ends /\ running' = Without(running, ends)
      /\ {s \in Range(batch) : counts[s] = MaxTokens[source[s]]} \subseteq ends
      /\ UNCHANGED <<pending_add, mapVars, adding, failures, stopped, frontVars, source,
                    begun, waiting, held, lost>>
      /\ prev_counts' = Empty
  BY DEF Postprocess, Placed
<1>2. /\ running \in Seq(SeqIds) /\ Range(running) \subseteq SeqIds
      /\ Range(batch) \subseteq Range(running) /\ ends \subseteq SeqIds
      /\ Range(waiting) \cap Range(running) = {} /\ IsInjective(running)
      /\ lost \cap Range(running) = {}
  <2>1. /\ running \in Seq(SeqIds) /\ Range(batch) \subseteq Range(running)
        /\ Range(waiting) \cap Range(running) = {} /\ IsInjective(running)
        /\ lost \cap Range(running) = {}
    BY DEF Placed
  <2>2. Range(running) \subseteq SeqIds
    BY <2>1, ElementsOf
  <2> QED BY <2>1, <2>2
<1>3. /\ running' \in Seq(SeqIds) /\ IsInjective(running')
      /\ Range(running') = Range(running) \ ends
  BY <1>1, <1>2, WithoutProperties
<1>4. /\ SeqIds' = SeqIds /\ DOMAIN generated = SeqIds /\ counts \in [SeqIds -> Nat]
      /\ \A s \in SeqIds : generated[s] \in Nat /\ MaxTokens[source[s]] \in Nat
  <2>1. /\ SeqIds' = SeqIds /\ DOMAIN generated = SeqIds /\ counts \in [SeqIds -> Nat]
        /\ \A s \in SeqIds : generated[s] \in Nat
    BY <1>1, SMTT(30) DEF Typed, SeqIds
  <2>2. \A s \in SeqIds : source[s] \in Requests
    BY LenProperties DEF Typed, SeqIds
  <2> QED BY <2>1, <2>2, Numbers
<1>5. \A s \in SeqIds : /\ counts[s] \in Nat
                        /\ s \notin Range(batch) => counts[s] = generated[s]
                        /\ s \in Range(batch) /\ s \notin ends => counts[s] < MaxTokens[source[s]]
  <2> SUFFICES ASSUME NEW s \in SeqIds
               PROVE  /\ counts[s] \in Nat
                      /\ s \notin Range(batch) => counts[s] = generated[s]
                      /\ s \in Range(batch) /\ s \notin ends => counts[s] < MaxTokens[source[s]]
    OBVIOUS
  <2>1. CASE s \in Range(batch)
    <3>1. generated[s] < MaxTokens[source[s]]
      BY <1>2, <2>1 DEF Placed, Live
    <3>2. counts[s] = generated[s] + 1
      BY <1>4, <2>1
    <3>3. s \notin ends => counts[s] # MaxTokens[source[s]]
      BY <1>1, <2>1
    <3> HIDE DEF counts
    <3> QED BY <1>4, <2>1, <3>1, <3>2, <3>3, Numbers
  <2>2. CASE s \notin Range(batch)
    <3>1. counts[s] = generated[s]
      BY <1>4, <2>2
    <3> HIDE DEF counts
    <3> QED BY <1>4, <2>2, <3>1
  <2> QED BY <2>1, <2>2
<1>6. /\ DOMAIN new_tokens' \subseteq SeqIds
      /\ \A s \in DOMAIN new_tokens' : new_tokens'[s] \in Seq({s} \X Nat)
  <2>1. new_tokens' = [s \in {q \in Range(running) : counts[q] > CountBefore(q)} |->
                         [i \in 1 .. counts[s] - CountBefore(s) |->
                            <<s, CountBefore(s) + i>>]]
    BY DEF Postprocess, Text
  <2>2. ASSUME NEW s \in SeqIds, counts[s] > CountBefore(s)
        PROVE  [i \in 1 .. counts[s] - CountBefore(s) |-> <<s, CountBefore(s) + i>>]
                 \in Seq({s} \X Nat)
    <3>1. CountBefore(s) \in Nat /\ counts[s] \in Nat
      BY <1>4 DEF CountBefore, Typed
    <3> DEFINE c == CountBefore(s)
               n == counts[s] - c
    <3>2. n \in Nat
      BY <2>2, <3>1
    <3> HIDE DEF n
    <3>3. [i \in 1 .. n |-> <<s, c + i>>] \in [1 .. n -> {s} \X Nat]
      BY <3>1, <3>2
    <3> QED BY <3>2, <3>3, FunctionIsSeq DEF n
  <2> HIDE DEF counts
  <2> QED BY <1>2, <2>1, <2>2
<1> HIDE DEF counts
<1>7. Live \subseteq Live' \cup ends /\ Live' \subseteq Live /\ Live' \cap ends = {}
  BY <1>1, <1>2, <1>3, EmptyQueue DEF Live
<1>8. Typed'
  <2>1. generated' \in [SeqIds' -> Nat]
    <3>1. DOMAIN counts = SeqIds
      BY <1>4
    <3> QED BY <1>1, <1>4, <1>5, <3>1
  <2>2. DOMAIN prev_counts' = {}
    BY <1>1 DEF Empty
  <2> QED BY <1>1, <1>2, <1>4, <1>6, <2>1, <2>2 DEF Typed, mapVars, frontVars
<1>9. Placed'
  <2>1. \A s \in Live' : generated'[s] < MaxTokens[source'[s]]
    <3>1. Live \subseteq SeqIds
      <4>1. lost \subseteq SeqIds
        BY DEF Typed
      <4> QED BY <4>1, ElementsOf DEF Live, Placed
    <3> QED BY <1>1, <1>5, <1>7, <3>1 DEF Placed
  <2>2. Range(batch') = {} /\ batch' \in Seq(SeqIds)
    BY <1>1, EmptyQueue
  <2>3. Range(running') \subseteq Range(running)
    BY <1>3
  <2> QED BY <1>1, <1>3, <1>4, <2>1, <2>2, <2>3 DEF Placed
<1>10. Numbered'
  BY <1>1, SameNumbered DEF frontVars
<1>11. Mapped'
  BY <1>1, <1>7 DEF Mapped, mapVars
<1>12. Routed'
  BY <1>1, <1>4, <1>6 DEF Routed, Owned, mapVars, frontVars
<1>13. Admitted'
  <2>1. Range(running') \subseteq Range(running) /\ UNCHANGED <<pending_add, waiting, held, begun, counted>>
    BY <1>1, <1>3 DEF frontVars
  <2> QED BY <1>1, <2>1, SameBacklog DEF Admitted
<1> QED BY <1>8, <1>9, <1>10, <1>11, <1>12, <1>13

(* The requests of the table are distinct, so the sequence that is looked  *)
(* up for a request is the one the tokens are of.                          *)
LEMMA DispatchKeeps ==
  ASSUME AsyncInv, Dispatch
  PROVE  AsyncInv'
<1> USE DEF AsyncInv
<1>1. /\ loop = "dispatch" /\ loop' = "drain"
      /\ UNCHANGED <<pending_add, adding, failures, stopped, frontVars, seqVars, deques,
                    batch, prev_counts>>
      /\ new_tokens' = <<>> /\ finished' = {} /\ DOMAIN token_queues' = DOMAIN token_queues
      /\ seq_to_request' = [s \in DOMAIN seq_to_request \ finished |-> seq_to_request[s]]
  BY DEF Dispatch, Empty, Unmapped
<1>2. Typed'
  BY <1>1, EmptyQueue DEF Typed, frontVars, seqVars, SeqIds, deques
<1>3. Placed'
  BY <1>1 DEF Placed, Live, deques, seqVars, SeqIds
<1>4. Numbered'
  BY <1>1, SameNumbered DEF frontVars, seqVars
<1>5. Mapped'
  BY <1>1 DEF Mapped, Live, deques, seqVars
<1>6. ASSUME NEW r \in RequestsOf(DOMAIN new_tokens)
      PROVE  new_tokens[SequenceOf(r)] \in Seq(Owned(r))
  <2>1. PICK s \in DOMAIN new_tokens \cap DOMAIN seq_to_request : seq_to_request[s] = r
    BY <1>6 DEF RequestsOf
  <2>2. SequenceOf(r) \in DOMAIN seq_to_request /\ seq_to_request[SequenceOf(r)] = r
    BY <2>1 DEF SequenceOf
  <2>3. source[s] = r /\ source[SequenceOf(r)] = r /\ s \in SeqIds /\ SequenceOf(r) \in SeqIds
    BY <2>1, <2>2 DEF Mapped, Typed
  <2>4. SequenceOf(r) = s
    BY <2>3 DEF Numbered, IsInjective, SeqIds
  <2>5. new_tokens[s] \in Seq({s} \X Nat) /\ {s} \X Nat \subseteq Owned(r)
    BY <2>1, <2>3 DEF Routed, Owned
  <2> QED BY <2>4, <2>5, LargerSeq
<1>7. ASSUME NEW r \in DOMAIN token_queues
      PROVE  token_queues'[r] \in Seq(Seq(Owned(r)))
  <2> DEFINE T == Seq(Owned(r))
             texts == IF r \in RequestsOf(DOMAIN new_tokens)
                        THEN <<new_tokens[SequenceOf(r)]>> ELSE <<>>
             end == IF r \in RequestsOf(finished) THEN <<END>> ELSE <<>>
  <2>1. token_queues'[r] = token_queues[r] \o texts \o end
    BY <1>7 DEF Dispatch
  <2>2. token_queues[r] \in Seq(T)
    BY <1>7 DEF Routed
  <2>3. texts \in Seq(T)
    BY <1>6, Singleton, EmptyQueue
  <2>4. end \in Seq(T)
    BY Singleton, EmptyQueue DEF END
  <2> HIDE DEF T, texts, end
  <2>5. token_queues[r] \o texts \in Seq(T)
    BY <2>2, <2>3, ConcatProperties
  <2> QED BY <2>1, <2>4, <2>5, ConcatProperties DEF T
<1>8. Routed'
  BY <1>1, <1>7, EmptyQueue DEF Routed, Owned, SeqIds, frontVars, seqVars
<1>9. Admitted'
  BY <1>1, SameBacklog DEF deques, frontVars, seqVars, Admitted
<1> QED BY <1>2, <1>3, <1>4, <1>5, <1>8, <1>9

-----------------------------------------------------------------------------
(* Failures and the end.                                                   *)
LEMMA FailsKeeps ==
  ASSUME AsyncInv, Fails
  PROVE  AsyncInv'
<1> USE DEF AsyncInv
<1>1. /\ loop # "dispatch" /\ loop' = "failed" /\ held = <<>> /\ batch' = <<>>
      /\ UNCHANGED <<pending_add, mapVars, stopped, frontVars, seqVars, deques, resultVars>>
      /\ adding' = NoRequest /\ prev_counts' = <<>>
  BY DEF Fails, Placed, Empty
<1>2. failures' \in 0 .. MaxFailures
  BY LimitsAssumption DEF Fails, Typed
<1>3. Typed'
  BY <1>1, <1>2, EmptyQueue DEF Typed, mapVars, frontVars, seqVars, resultVars, SeqIds, deques
<1>4. Placed'
  <2>1. Range(batch') = {} /\ batch' \in Seq(SeqIds)
    BY <1>1, EmptyQueue
  <2> QED BY <1>1, <2>1 DEF Placed, Live, deques, seqVars, SeqIds
<1>5. Numbered'
  BY <1>1, SameNumbered DEF frontVars, seqVars
<1>6. Mapped'
  BY <1>1, SameMapped DEF Live, mapVars, seqVars, deques
<1>7. Routed'
  BY <1>1, SameRouted DEF mapVars, frontVars, seqVars, resultVars
<1>8. Admitted'
  BY <1>1, SameBacklog DEF deques, frontVars, seqVars, Admitted
<1> QED BY <1>3, <1>4, <1>5, <1>6, <1>7, <1>8

LEMMA HandleFailureKeeps ==
  ASSUME AsyncInv, HandleFailure
  PROVE  AsyncInv'
<1> USE DEF AsyncInv
<1>1. /\ loop = "failed" /\ loop' = "drain" /\ seq_to_request' = <<>>
      /\ UNCHANGED <<pending_add, adding, failures, stopped, frontVars, seqVars, deques,
                    batch, prev_counts, resultVars>>
      /\ DOMAIN token_queues' = DOMAIN token_queues
  BY DEF HandleFailure, Empty
<1>2. Typed'
  BY <1>1, EmptyQueue DEF Typed, frontVars, seqVars, resultVars, SeqIds, deques
<1>3. Placed'
  BY <1>1 DEF Placed, Live, deques, seqVars, SeqIds
<1>4. Numbered'
  BY <1>1, SameNumbered DEF frontVars, seqVars
<1>5. Mapped'
  BY <1>1, EmptyQueue DEF Mapped
<1>6. ASSUME NEW r \in DOMAIN token_queues
      PROVE  token_queues'[r] \in Seq(Seq(Owned(r)))
  <2> DEFINE T == Seq(Owned(r))
             end == IF r \in ClosedByFailure THEN <<END>> ELSE <<>>
  <2>1. token_queues'[r] = token_queues[r] \o end
    BY <1>6 DEF HandleFailure
  <2>2. end \in Seq(T) /\ token_queues[r] \in Seq(T)
    BY <1>6, Singleton, EmptyQueue DEF END, Routed
  <2> HIDE DEF T, end
  <2> QED BY <2>1, <2>2, ConcatProperties DEF T
<1>7. Routed'
  BY <1>1, <1>6 DEF Routed, Owned, SeqIds, frontVars, seqVars, resultVars
<1>8. Admitted'
  BY <1>1, SameBacklog DEF deques, frontVars, seqVars, Admitted
<1> QED BY <1>2, <1>3, <1>4, <1>5, <1>7, <1>8

LEMMA StopKeeps ==
  ASSUME AsyncInv, Stop
  PROVE  AsyncInv'
<1> USE DEF AsyncInv
<1>1. /\ stopped' \in BOOLEAN
      /\ UNCHANGED <<pending_add, mapVars, loop, adding, failures, frontVars,
                    seqVars, deques, batch, prev_counts, resultVars>>
  BY DEF Stop
<1>2. Typed'
  BY <1>1 DEF Typed, mapVars, frontVars, seqVars, resultVars, SeqIds, deques
<1>3. Placed'
  BY <1>1, SameDeques DEF seqVars
<1>4. Numbered'
  BY <1>1 DEF Numbered, JustAdded, frontVars, seqVars, deques
<1>5. Mapped'
  BY <1>1 DEF Mapped, Live, mapVars, seqVars, deques, resultVars
<1>6. Routed'
  BY <1>1, SameRouted DEF mapVars, frontVars, seqVars, resultVars
<1>7. Admitted'
  BY <1>1, SameBacklog DEF deques, frontVars, seqVars, Admitted
<1> QED BY <1>2, <1>3, <1>4, <1>5, <1>6, <1>7

LEMMA StutterKeeps ==
  ASSUME AsyncInv, UNCHANGED asyncVars
  PROVE  AsyncInv'
<1> USE DEF AsyncInv
<1>1. UNCHANGED <<pending_add, mapVars, loop, adding, failures, stopped, frontVars,
                  seqVars, deques, batch, prev_counts, resultVars>>
  BY DEF asyncVars
<1>2. Typed'
  BY <1>1 DEF Typed, mapVars, frontVars, seqVars, resultVars, SeqIds, deques
<1>3. Placed'
  BY <1>1, SameDeques DEF seqVars
<1>4. Numbered'
  BY <1>1 DEF Numbered, JustAdded, frontVars, seqVars, deques
<1>5. Mapped'
  BY <1>1 DEF Mapped, Live, mapVars, seqVars, deques, resultVars
<1>6. Routed'
  BY <1>1, SameRouted DEF mapVars, frontVars, seqVars, resultVars
<1>7. Admitted'
  BY <1>1, SameBacklog DEF deques, frontVars, seqVars, Admitted
<1> QED BY <1>2, <1>3, <1>4, <1>5, <1>6, <1>7

-----------------------------------------------------------------------------
(* Every step keeps the invariant.                                         *)
LEMMA AsyncNextInv == AsyncInv /\ [AsyncNext]_asyncVars => AsyncInv'
<1> SUFFICES ASSUME AsyncInv, [AsyncNext]_asyncVars PROVE AsyncInv'
  OBVIOUS
<1>1. CASE CountQueued \/ Answer
  BY <1>1, CountQueuedKeeps, SubmitKeeps, RefuseKeeps DEF Answer
<1>2. ASSUME NEW r \in Requests, Read(r) \/ Abandon(r) PROVE AsyncInv'
  BY <1>2, ReadKeeps, AbandonKeeps
<1>3. CASE StartAdd \/ EngineAdd \/ MapAdded
  BY <1>3, StartAddKeeps, EngineAddKeeps, MapAddedKeeps
<1>4. CASE StartStep \/ HoldRunning \/ ScheduleDecode \/ SchedulePrefill
  BY <1>4, StartStepKeeps, HoldRunningKeeps, ScheduleDecodeKeeps, SchedulePrefillKeeps
<1>5. ASSUME NEW s \in SeqIds, Preempt(s) \/ Lose(s) \/ TakeWaiting(s) PROVE AsyncInv'
  BY <1>5, PreemptKeeps, LoseKeeps, TakeWaitingKeeps
<1>6. ASSUME NEW ends \in SUBSET Range(batch), Postprocess(ends) PROVE AsyncInv'
  BY <1>6, PostprocessKeeps
<1>7. CASE Dispatch \/ HandleFailure \/ Fails \/ Stop
  BY <1>7, DispatchKeeps, HandleFailureKeeps, FailsKeeps, StopKeeps
<1>8. CASE UNCHANGED asyncVars
  BY <1>8, StutterKeeps
<1> QED BY <1>1, <1>2, <1>3, <1>4, <1>5, <1>6, <1>7, <1>8 DEF AsyncNext, LoopStep

(* The invariant holds of every behaviour.                                 *)
THEOREM AsyncSafety == AsyncSpec => []AsyncInv
<1>1. AsyncInit => AsyncInv
  BY InitAsync
<1>2. AsyncInv /\ [AsyncNext]_asyncVars => AsyncInv'
  BY AsyncNextInv
<1> QED BY <1>1, <1>2, PTL DEF AsyncSpec

(* Whatever handlers, loop, executor, failures and stop() do in between,   *)
(* the variables have their types.                                         *)
THEOREM AsyncTypes == AsyncSpec => []AsyncTypeOK
<1>1. AsyncInv => AsyncTypeOK
  <2> SUFFICES ASSUME AsyncInv PROVE AsyncTypeOK
    OBVIOUS
  <2>1. Range(seq_to_request) \subseteq Requests
    <3>1. \A s \in SeqIds : source[s] \in Requests
      BY LenProperties DEF AsyncInv, Typed, SeqIds
    <3> QED BY <3>1 DEF AsyncInv, Typed, Mapped, Range
  <2> QED BY <2>1 DEF AsyncInv, Typed, Placed, AsyncTypeOK
<1> QED BY <1>1, AsyncSafety, PTL

(* The requests that were never scheduled exceed the limit by one at most, *)
(* whatever the limit, the policy and the interleaving of get_capacity's   *)
(* reads with the executor.                                                *)
THEOREM BacklogIsBounded == AsyncSpec => []BacklogBounded
<1>1. AsyncInv => BacklogBounded
  BY DEF AsyncInv, Admitted
<1> QED BY <1>1, AsyncSafety, PTL

(* The table of sequences holds sequences of the scheduler, and those that *)
(* slo_aware lost, only, except between the end of a step and its dispatch.*)
THEOREM MapOutlivesNothing == AsyncSpec => []MapHoldsLive
<1>1. AsyncInv => MapHoldsLive
  <2> SUFFICES ASSUME AsyncInv, loop # "dispatch"
               PROVE  DOMAIN seq_to_request \subseteq Range(waiting \o running \o held) \cup lost
    BY DEF MapHoldsLive
  <2>1. waiting \in Seq(SeqIds) /\ running \in Seq(SeqIds) /\ held \in Seq(SeqIds)
    BY DEF AsyncInv, Placed
  <2> DEFINE queued == waiting \o running
  <2>2. queued \in Seq(SeqIds) /\ Range(queued) = Range(waiting) \cup Range(running)
    BY <2>1, ConcatProperties, RangeConcatenation
  <2> HIDE DEF queued
  <2>3. Range(queued \o held) \cup lost = Live
    BY <2>1, <2>2, RangeConcatenation DEF Live
  <2> QED BY <2>3 DEF AsyncInv, Mapped, queued
<1> QED BY <1>1, AsyncSafety, PTL

(* A stream carries tokens of its own request only, although the loop      *)
(* finds the sequence of a request by its place in a deque, after the      *)
(* executor returned.                                                      *)
THEOREM TokensReachOwner == AsyncSpec => []RoutedToOwner
<1>1. AsyncInv => RoutedToOwner
  <2> SUFFICES ASSUME AsyncInv, NEW r \in Requests
               PROVE  /\ \A i \in DOMAIN received[r] : source[received[r][i][1]] = r
                      /\ r \in DOMAIN token_queues =>
                           \A k \in DOMAIN token_queues[r] :
                             \A i \in DOMAIN token_queues[r][k] :
                               source[token_queues[r][k][i][1]] = r
    BY DEF RoutedToOwner
  <2>1. \A q \in Seq(Owned(r)) : \A i \in DOMAIN q : source[q[i][1]] = r
    BY LenProperties DEF Owned
  <2>2. received[r] \in Seq(Owned(r))
    BY DEF AsyncInv, Routed
  <2>3. ASSUME r \in DOMAIN token_queues, NEW k \in DOMAIN token_queues[r]
        PROVE  token_queues[r][k] \in Seq(Owned(r))
    BY <2>3, LenProperties DEF AsyncInv, Routed
  <2> QED BY <2>1, <2>2, <2>3
<1> QED BY <1>1, AsyncSafety, PTL

-----------------------------------------------------------------------------
(* Texts.  q ends with t if it holds t at its end.                         *)
LEMMA SuffixAt ==
  ASSUME NEW T, NEW t \in Seq(T), NEW q \in Seq(T)
  PROVE  IsSuffix(t, q) <=> /\ Len(t) <= Len(q)
                            /\ \A i \in 1 .. Len(t) : q[Len(q) - Len(t) + i] = t[i]
<1> DEFINE a == Reverse(t)
           b == Reverse(q)
<1>1. /\ a \in Seq(T) /\ Len(a) = Len(t) /\ \A i \in 1 .. Len(t) : a[i] = t[Len(t) - i + 1]
      /\ b \in Seq(T) /\ Len(b) = Len(q) /\ \A i \in 1 .. Len(q) : b[i] = q[Len(q) - i + 1]
  <2>1. /\ Len(t) \in Nat /\ Len(q) \in Nat
        /\ \A i \in 1 .. Len(t) : t[Len(t) - i + 1] \in T
        /\ \A i \in 1 .. Len(q) : q[Len(q) - i + 1] \in T
    OBVIOUS
  <2>2. a \in [1 .. Len(t) -> T] /\ b \in [1 .. Len(q) -> T]
    BY <2>1 DEF Reverse
  <2>3. a \in Seq(T) /\ Len(a) = Len(t) /\ b \in Seq(T) /\ Len(b) = Len(q)
    BY <2>1, <2>2, FunctionIsSeq
  <2> QED BY <2>3 DEF Reverse
<1>2. IsSuffix(t, q) <=> Len(a) <= Len(b) /\ SubSeq(a, 1, Len(a)) = SubSeq(b, 1, Len(a))
  BY DEF IsSuffix, IsPrefix
<1> HIDE DEF a, b
<1>3. ASSUME Len(t) <= Len(q)
      PROVE  SubSeq(a, 1, Len(a)) = SubSeq(b, 1, Len(a)) <=> \A i \in 1 .. Len(t) : a[i] = b[i]
  <2>1. /\ SubSeq(a, 1, Len(a)) \in Seq(T) /\ SubSeq(b, 1, Len(a)) \in Seq(T)
        /\ Len(SubSeq(a, 1, Len(a))) = Len(t) /\ Len(SubSeq(b, 1, Len(a))) = Len(t)
        /\ \A i \in 1 .. Len(t) : /\ SubSeq(a, 1, Len(a))[i] = a[i]
                                  /\ SubSeq(b, 1, Len(a))[i] = b[i]
    BY <1>1, <1>3, SubSeqProperties
  <2> QED BY <2>1
<1>4. ASSUME Len(t) <= Len(q)
      PROVE  (\A i \in 1 .. Len(t) : a[i] = b[i])
               <=> \A i \in 1 .. Len(t) : q[Len(q) - Len(t) + i] = t[i]
  <2>1. \A i \in 1 .. Len(t) : a[i] = t[Len(t) - i + 1] /\ b[i] = q[Len(q) - i + 1]
    BY <1>1, <1>4
  <2>2. ASSUME \A i \in 1 .. Len(t) : a[i] = b[i], NEW i \in 1 .. Len(t)
        PROVE  q[Len(q) - Len(t) + i] = t[i]
    <3>1. Len(t) - i + 1 \in 1 .. Len(t)
      OBVIOUS
    <3>2. t[Len(t) - (Len(t) - i + 1) + 1] = q[Len(q) - (Len(t) - i + 1) + 1]
      BY <2>1, <2>2, <3>1
    <3> QED BY <3>2
  <2>3. ASSUME \A i \in 1 .. Len(t) : q[Len(q) - Len(t) + i] = t[i], NEW i \in 1 .. Len(t)
        PROVE  a[i] = b[i]
    <3>1. Len(t) - i + 1 \in 1 .. Len(t)
      OBVIOUS
    <3>2. q[Len(q) - Len(t) + (Len(t) - i + 1)] = t[Len(t) - i + 1]
      BY <2>3, <3>1
    <3> QED BY <2>1, <3>2
  <2> QED BY <2>2, <2>3
<1> QED BY <1>1, <1>2, <1>3, <1>4

(* The tokens m + 1 to n of a sequence are a part of its first n.           *)
Tokens == Nat \X Nat

LEMMA TextIs ==
  ASSUME NEW s \in Nat, NEW m \in Nat, NEW n \in Nat, m <= n
  PROVE  /\ Text(s, m, n) \in Seq(Tokens) /\ Len(Text(s, m, n)) = n - m
         /\ Text(s, m, n) = <<>> <=> m = n
<1> DEFINE k == n - m
<1>1. k \in Nat /\ n - 0 = n
  OBVIOUS
<1>2. Text(s, m, n) = [i \in 1 .. k |-> <<s, m + i>>]
  BY DEF Text
<1> HIDE DEF k
<1>3. [i \in 1 .. k |-> <<s, m + i>>] \in [1 .. k -> Nat \X Nat]
  BY <1>1
<1>4. Text(s, m, n) \in Seq(Tokens) /\ Len(Text(s, m, n)) = k
  BY <1>1, <1>2, <1>3, FunctionIsSeq DEF Tokens
<1>5. Text(s, m, n) = <<>> <=> k = 0
  BY <1>4, EmptyQueue
<1> QED BY <1>4, <1>5 DEF k

(* The first n tokens of a sequence, n of them.                            *)
LEMMA FirstText ==
  ASSUME NEW s \in Nat, NEW n \in Nat
  PROVE  Text(s, 0, n) \in Seq(Tokens) /\ Len(Text(s, 0, n)) = n
<1>1. 0 \in Nat /\ 0 <= n /\ n - 0 = n /\ s \in Nat /\ n \in Nat
  OBVIOUS
<1>2. Text(s, 0, n) \in Seq(Tokens) /\ Len(Text(s, 0, n)) = n - 0
  BY ONLY <1>1, TextIs, ZenonT(30)
<1> QED BY <1>1, <1>2

(* The first tokens of a sequence are the same in each of its texts.       *)
LEMMA FirstTokens ==
  ASSUME NEW s \in Nat, NEW m \in Nat, NEW n \in Nat, m <= n, NEW i \in 1 .. m
  PROVE  Text(s, 0, m)[i] = Text(s, 0, n)[i]
<1>1. m - 0 = m /\ n - 0 = n /\ i \in 1 .. n
  OBVIOUS
<1> QED BY <1>1 DEF Text

(* Token i after the first m is the token m + i.                           *)
LEMMA LaterTokens ==
  ASSUME NEW s \in Nat, NEW m \in Nat, NEW n \in Nat, m <= n, NEW i \in 1 .. n - m
  PROVE  Text(s, m, n)[i] = Text(s, 0, n)[m + i]
<1>1. n - 0 = n /\ m + i \in 1 .. n /\ 0 + (m + i) = m + i
  OBVIOUS
<1> QED BY <1>1 DEF Text

(* What ends with the first m tokens ends with the first n once the rest   *)
(* of them, or all of them, follow.                                        *)
LEMMA SuffixGoesOn ==
  ASSUME NEW s \in Nat, NEW m \in Nat, NEW n \in Nat, m <= n, NEW q \in Seq(Tokens),
         IsSuffix(Text(s, 0, m), q)
  PROVE  IsSuffix(Text(s, 0, n), q \o Text(s, m, n))
<1> DEFINE a == Text(s, 0, m)
           b == Text(s, m, n)
           c == Text(s, 0, n)
<1>a. a \in Seq(Tokens) /\ Len(a) = m
  BY FirstText
<1>b. b \in Seq(Tokens) /\ Len(b) = n - m
  BY TextIs
<1>e. \A i \in 1 .. n - m : b[i] = c[m + i]
  BY LaterTokens
<1>c. c \in Seq(Tokens) /\ Len(c) = n
  BY FirstText
<1>d. \A i \in 1 .. m : a[i] = c[i]
  BY FirstTokens
<1>q. q \in Seq(Tokens) /\ IsSuffix(a, q)
  OBVIOUS
<1> HIDE DEF a, b, c
<1>2. m <= Len(q) /\ \A i \in 1 .. m : q[Len(q) - m + i] = a[i]
  BY <1>a, <1>q, SuffixAt
<1>l. Len(q) \in Nat
  BY <1>q, LenProperties
<1> DEFINE w == q \o b
<1>3. /\ w \in Seq(Tokens) /\ Len(w) = Len(q) + (n - m)
      /\ \A i \in 1 .. Len(q) : w[i] = q[i]
      /\ \A i \in 1 .. n - m : w[Len(q) + i] = b[i]
  <2>1. /\ w \in Seq(Tokens) /\ Len(w) = Len(q) + Len(b)
        /\ \A i \in 1 .. Len(q) + Len(b) : w[i] = IF i <= Len(q) THEN q[i] ELSE b[i - Len(q)]
    BY <1>b, <1>q, ConcatProperties
  <2> HIDE DEF w
  <2>2. \A i \in 1 .. Len(q) : i \in 1 .. Len(q) + Len(b) /\ i <= Len(q)
    BY <1>b, <1>l
  <2>3. \A i \in 1 .. n - m : /\ Len(q) + i \in 1 .. Len(q) + Len(b)
                              /\ ~ Len(q) + i <= Len(q) /\ (Len(q) + i) - Len(q) = i
    BY <1>b, <1>l
  <2> QED BY <1>b, <2>1, <2>2, <2>3
<1> HIDE DEF w
<1>4. ASSUME NEW i \in 1 .. n
      PROVE  w[Len(w) - n + i] = c[i]
  <2>1. Len(w) - n + i = Len(q) - m + i
    BY <1>3, <1>l
  <2>2. CASE i <= m
    <3>1. Len(q) - m + i \in 1 .. Len(q) /\ i \in 1 .. m
      BY <1>2, <1>l, <2>2
    <3>2. w[Len(q) - m + i] = a[i]
      BY <1>2, <1>3, <3>1
    <3> QED BY <1>d, <2>1, <3>1, <3>2
  <2>3. CASE i > m
    <3>1. i - m \in 1 .. n - m /\ Len(q) - m + i = Len(q) + (i - m) /\ m + (i - m) = i
      BY <1>l, <2>3
    <3>2. w[Len(q) + (i - m)] = b[i - m] /\ b[i - m] = c[m + (i - m)]
      BY <1>e, <1>3, <3>1
    <3> QED BY <2>1, <3>1, <3>2
  <2> QED BY <2>2, <2>3
<1>5. n <= Len(w)
  BY <1>2, <1>3, <1>l
<1>6. IsSuffix(c, w)
  BY <1>3, <1>4, <1>5, <1>c, SuffixAt
<1> QED BY <1>6 DEF b, c, w

(* Any text ends with no token.                                            *)
LEMMA SuffixNone ==
  ASSUME NEW s \in Nat, NEW q \in Seq(Tokens)
  PROVE  IsSuffix(Text(s, 0, 0), q)
<1> DEFINE a == Text(s, 0, 0)
<1>1. 0 \in Nat /\ 0 <= 0 /\ 0 - 0 = 0
  OBVIOUS
<1>2. a \in Seq(Tokens) /\ Len(a) = 0 /\ q \in Seq(Tokens)
  BY <1>1, TextIs
<1> HIDE DEF a
<1>3. Len(a) <= Len(q) /\ \A i \in 1 .. Len(a) : q[Len(q) - Len(a) + i] = a[i]
  <2>1. Len(q) \in Nat
    BY <1>2, LenProperties
  <2> QED BY <1>2, <2>1
<1>4. IsSuffix(a, q)
  BY <1>2, <1>3, SuffixAt
<1> QED BY <1>4 DEF a

(* What ends with the first n tokens of a sequence, whatever came before.  *)
LEMMA SuffixStartsOver ==
  ASSUME NEW s \in Nat, NEW n \in Nat, NEW q \in Seq(Tokens)
  PROVE  IsSuffix(Text(s, 0, n), q \o Text(s, 0, n))
<1>1. 0 \in Nat /\ 0 <= n
  OBVIOUS
<1>2. IsSuffix(Text(s, 0, 0), q)
  BY SuffixNone
<1> QED BY <1>1, <1>2, SuffixGoesOn

(* The texts q, after what was read as st, tell the first n tokens of s.   *)
Tells(q, st, s, n) ==
  \E upto \in [0 .. Len(q) -> 0 .. n] :
    /\ IsSuffix(Text(s, 0, upto[0]), st)
    /\ upto[Len(q)] = n
    /\ \A k \in DOMAIN q :
         /\ upto[k - 1] <= upto[k]
         /\ q[k] \in {Text(s, upto[k - 1], upto[k]), Text(s, 0, upto[k])}

(* Nothing is told by end markers.                                         *)
LEMMA TellsNothing ==
  ASSUME NEW s \in Nat, NEW st \in Seq(Tokens), NEW q \in Seq(Seq(Tokens)),
         \A k \in DOMAIN q : q[k] = <<>>
  PROVE  Tells(q, st, s, 0)
<1> DEFINE upto == [k \in 0 .. Len(q) |-> 0]
<1>1. Len(q) \in Nat /\ DOMAIN q = 1 .. Len(q)
  BY LenProperties
<1>2. upto \in [0 .. Len(q) -> 0 .. 0] /\ \A k \in 0 .. Len(q) : upto[k] = 0
  OBVIOUS
<1> HIDE DEF upto
<1>3. 0 \in 0 .. Len(q) /\ Len(q) \in 0 .. Len(q)
      /\ \A k \in DOMAIN q : k \in 0 .. Len(q) /\ k - 1 \in 0 .. Len(q)
  BY <1>1
<1>4. IsSuffix(Text(s, 0, 0), st)
  BY SuffixNone
<1>5. 0 \in Nat /\ 0 <= 0
  OBVIOUS
<1>6. Text(s, 0, 0) = <<>>
  BY <1>5, TextIs
<1>7. \A k \in DOMAIN q : /\ upto[k - 1] <= upto[k]
                          /\ q[k] \in {Text(s, upto[k - 1], upto[k]), Text(s, 0, upto[k])}
  BY <1>2, <1>3, <1>5, <1>6
<1>8. IsSuffix(Text(s, 0, upto[0]), st) /\ upto[Len(q)] = 0
  BY <1>2, <1>3, <1>4
<1> QED BY <1>2, <1>7, <1>8 DEF Tells

(* One more text.                                                          *)
LEMMA TellsMore ==
  ASSUME NEW s \in Nat, NEW st \in Seq(Tokens), NEW q \in Seq(Seq(Tokens)),
         NEW m \in Nat, NEW n \in Nat, m <= n, Tells(q, st, s, m),
         NEW t \in {Text(s, m, n), Text(s, 0, n)}
  PROVE  Tells(Append(q, t), st, s, n)
<1>1. PICK upto \in [0 .. Len(q) -> 0 .. m] :
        /\ IsSuffix(Text(s, 0, upto[0]), st)
        /\ upto[Len(q)] = m
        /\ \A k \in DOMAIN q :
             /\ upto[k - 1] <= upto[k]
             /\ q[k] \in {Text(s, upto[k - 1], upto[k]), Text(s, 0, upto[k])}
  BY DEF Tells
<1> DEFINE l == Len(q) + 1
           w == Append(q, t)
           to == [k \in 0 .. l |-> IF k = l THEN n ELSE upto[k]]
<1>2. Len(q) \in Nat /\ DOMAIN q = 1 .. Len(q) /\ 0 \in 0 .. Len(q)
      /\ \A k \in 0 .. l : k # l => k \in 0 .. Len(q)
  BY LenProperties
<1>3. t \in Seq(Tokens)
  <2>1. 0 \in Nat /\ 0 <= n
    OBVIOUS
  <2>2. Text(s, m, n) \in Seq(Tokens)
    BY TextIs
  <2>3. Text(s, 0, n) \in Seq(Tokens)
    BY <2>1, TextIs
  <2> QED BY <2>2, <2>3
<1>4. Len(w) = l /\ DOMAIN w = 1 .. l /\ w[l] = t /\ \A k \in 1 .. Len(q) : w[k] = q[k]
  BY <1>2, <1>3, Appended
<1>5. \A k \in 0 .. Len(q) : to[k] = upto[k] /\ upto[k] \in 0 .. m
  <2>1. \A k \in 0 .. Len(q) : k \in 0 .. l /\ k # l
    BY <1>2
  <2>2. \A k \in 0 .. Len(q) : upto[k] \in 0 .. m
    OBVIOUS
  <2> HIDE DEF l
  <2> QED BY <2>1, <2>2
<1>6. to[l] = n /\ to \in [0 .. l -> 0 .. n]
  <2>1. \A i \in 0 .. m : i \in 0 .. n
    OBVIOUS
  <2>2. \A k \in 0 .. l : (IF k = l THEN n ELSE upto[k]) \in 0 .. n
    BY <1>2, <2>1
  <2> QED BY <1>2, <2>2
<1> HIDE DEF to, w
<1>7. ASSUME NEW k \in 1 .. l
      PROVE  /\ to[k - 1] <= to[k]
             /\ w[k] \in {Text(s, to[k - 1], to[k]), Text(s, 0, to[k])}
  <2>1. CASE k = l
    <3>1. k - 1 = Len(q) /\ Len(q) \in 0 .. Len(q)
      BY <1>2, <2>1
    <3>2. to[k - 1] = m
      BY <1>1, <1>5, <3>1
    <3> QED BY <1>4, <1>6, <2>1, <3>2
  <2>2. CASE k # l
    <3>1. k \in 1 .. Len(q) /\ k \in 0 .. Len(q) /\ k - 1 \in 0 .. Len(q)
      BY <1>2, <2>2
    <3> QED BY <1>1, <1>2, <1>4, <1>5, <3>1
  <2> QED BY <2>1, <2>2
<1>8. IsSuffix(Text(s, 0, to[0]), st)
  BY <1>1, <1>2, <1>5
<1>9. Tells(w, st, s, n)
  BY <1>4, <1>6, <1>7, <1>8 DEF Tells
<1> QED BY <1>9 DEF w

(* The first text is read.                                                 *)
LEMMA TellsRead ==
  ASSUME NEW s \in Nat, NEW st \in Seq(Tokens), NEW q \in Seq(Seq(Tokens)), q # <<>>,
         NEW n \in Nat, Tells(q, st, s, n)
  PROVE  Tells(Tail(q), st \o Head(q), s, n)
<1>1. PICK upto \in [0 .. Len(q) -> 0 .. n] :
        /\ IsSuffix(Text(s, 0, upto[0]), st)
        /\ upto[Len(q)] = n
        /\ \A k \in DOMAIN q :
             /\ upto[k - 1] <= upto[k]
             /\ q[k] \in {Text(s, upto[k - 1], upto[k]), Text(s, 0, upto[k])}
  BY DEF Tells
<1> DEFINE l == Len(q) - 1
           w == Tail(q)
           to == [k \in 0 .. l |-> upto[k + 1]]
<1>2. Len(q) \in Nat /\ Len(q) # 0 /\ DOMAIN q = 1 .. Len(q) /\ l \in Nat
  BY LenProperties, EmptyQueue
<1>3. Len(w) = l /\ DOMAIN w = 1 .. l /\ \A k \in 1 .. l : w[k] = q[k + 1]
  BY <1>2
<1>4. to \in [0 .. l -> 0 .. n] /\ \A k \in 0 .. l : to[k] = upto[k + 1]
  BY <1>2
<1>5. to[l] = n
  <2>1. l + 1 = Len(q) /\ l \in 0 .. l
    BY <1>2
  <2> QED BY <1>1, <1>4, <2>1
<1> HIDE DEF to, w
<1>6. ASSUME NEW k \in 1 .. l
      PROVE  /\ to[k - 1] <= to[k]
             /\ w[k] \in {Text(s, to[k - 1], to[k]), Text(s, 0, to[k])}
  <2>1. k \in 0 .. l /\ k - 1 \in 0 .. l /\ (k - 1) + 1 = k /\ (k + 1) - 1 = k /\ k + 1 \in DOMAIN q
    BY <1>2
  <2>2. to[k] = upto[k + 1] /\ to[k - 1] = upto[k] /\ w[k] = q[k + 1]
    BY <1>3, <1>4, <2>1
  <2> QED BY <1>1, <2>1, <2>2
<1>7. IsSuffix(Text(s, 0, to[0]), st \o Head(q))
  <2> DEFINE a == upto[0]
             b == upto[1]
  <2>1. 0 \in 0 .. Len(q) /\ 1 \in 0 .. Len(q) /\ 1 \in DOMAIN q /\ 1 - 1 = 0 /\ 0 \in 0 .. l /\ 0 + 1 = 1
    BY <1>2
  <2>2. a \in Nat /\ b \in Nat /\ a <= b /\ q[1] \in {Text(s, a, b), Text(s, 0, b)}
    <3>1. upto[0] \in 0 .. n /\ upto[1] \in 0 .. n
      BY <1>1, <2>1
    <3>2. /\ upto[1 - 1] <= upto[1]
          /\ q[1] \in {Text(s, upto[1 - 1], upto[1]), Text(s, 0, upto[1])}
      BY <1>1, <2>1
    <3>3. 1 - 1 = 0
      OBVIOUS
    <3> QED BY <3>1, <3>2, <3>3
  <2>3. Head(q) = q[1] /\ to[0] = b /\ IsSuffix(Text(s, 0, a), st)
    BY <1>1, <1>4, <2>1
  <2> HIDE DEF a, b
  <2>4. CASE Head(q) = Text(s, a, b)
    BY <2>2, <2>3, <2>4, SuffixGoesOn
  <2>5. CASE Head(q) = Text(s, 0, b)
    BY <2>2, <2>3, <2>5, SuffixStartsOver
  <2> QED BY <2>2, <2>3, <2>4, <2>5
<1>8. Tells(w, st \o Head(q), s, n)
  BY <1>3, <1>4, <1>5, <1>6, <1>7 DEF Tells
<1> QED BY <1>8 DEF w

(* All is read.                                                            *)
LEMMA TellsAll ==
  ASSUME NEW s \in Nat, NEW st \in Seq(Tokens), NEW n \in Nat, Tells(<<>>, st, s, n)
  PROVE  IsSuffix(Text(s, 0, n), st)
<1>1. PICK upto \in [0 .. Len(<<>>) -> 0 .. n] :
        IsSuffix(Text(s, 0, upto[0]), st) /\ upto[Len(<<>>)] = n
  BY DEF Tells
<1> QED BY <1>1, EmptyQueue

-----------------------------------------------------------------------------
(* What the streams tell, as an inductive invariant.  While the engine     *)
(* steps, the counts it took before are still right; its result is there   *)
(* between the step and its dispatch; who is finished is in no deque.      *)
Counted ==
  /\ loop \in {"schedule", "run"} =>
       \A s \in DOMAIN prev_counts : prev_counts[s] = generated[s]
  /\ loop # "dispatch" => new_tokens = Empty /\ finished = {}
  /\ \A s \in DOMAIN new_tokens : new_tokens[s] # <<>>
  /\ finished \cap Live = {}
  /\ loop = "failed" => failures > 0

(* A stream that ended is not opened again.                                *)
Opened ==
  /\ DOMAIN token_queues \cup ended \subseteq 1 .. submitted
  /\ DOMAIN token_queues \cap ended = {}

(* The result of the step goes on where the stream, told up to n, ended.   *)
Due(s, n) ==
  IF s \in DOMAIN new_tokens
  THEN new_tokens[s] \in {Text(s, n, generated[s]), Text(s, 0, generated[s])}
  ELSE n = generated[s]

NoEnd(q) == \A k \in DOMAIN q : q[k] # END

(* The streams of the sequences in the table, and of the one on its way.   *)
Tracked == DOMAIN seq_to_request \cup (IF loop = "added" THEN {JustAdded} ELSE {})

Followed ==
  \A s \in Tracked : source[s] \in DOMAIN token_queues =>
    /\ \E n \in 0 .. generated[s] :
         Tells(token_queues[source[s]], received[source[s]], s, n) /\ Due(s, n)
    /\ failures = 0 => NoEnd(token_queues[source[s]])

(* Without a failure an end marker comes last, when all has been told.     *)
Completed ==
  failures = 0 =>
    /\ \A r \in DOMAIN token_queues : \A k \in DOMAIN token_queues[r] :
         token_queues[r][k] = END =>
           /\ k = Len(token_queues[r])
           /\ \E s \in SeqIds :
                /\ source[s] = r /\ s \notin Live
                /\ Tells(token_queues[r], received[r], s, generated[s])
    /\ \A r \in ended : \E s \in SeqIds :
         source[s] = r /\ s \notin Live /\ IsSuffix(Output(s), received[r])

StreamInv == Counted /\ Opened /\ Followed /\ Completed

(* The sequences that are tracked, and the types of what was sent.         *)
LEMMA TrackedIds ==
  ASSUME AsyncInv
  PROVE  /\ Tracked \subseteq SeqIds /\ SeqIds \subseteq Nat
         /\ \A s \in SeqIds : generated[s] \in Nat /\ source[s] \in Requests
         /\ Live \subseteq SeqIds
<1> USE DEF AsyncInv
<1>1. Live \subseteq SeqIds
  <2>1. lost \subseteq SeqIds
    BY DEF Typed
  <2> QED BY <2>1, ElementsOf DEF Live, Placed
<1>2. loop = "added" => JustAdded \in SeqIds
  BY Shortened, <1>1 DEF Numbered, Placed, JustAdded, Live
<1>3. \A s \in SeqIds : generated[s] \in Nat /\ source[s] \in Requests
  BY Numbers, LenProperties DEF Typed, SeqIds
<1> QED BY <1>1, <1>2, <1>3, Lengths DEF Tracked, Typed

(* What was received and what is queued are tokens, and batches of them.   *)
LEMMA StreamTypes ==
  ASSUME AsyncInv
  PROVE  /\ \A r \in Requests : received[r] \in Seq(Tokens)
         /\ \A r \in DOMAIN token_queues : r \in Requests /\ token_queues[r] \in Seq(Seq(Tokens))
<1>1. \A r \in Requests : Owned(r) \subseteq Tokens
  BY TrackedIds DEF Owned, Tokens
<1>2. \A r \in Requests : Seq(Owned(r)) \subseteq Seq(Tokens)
  BY <1>1, LargerSeq
<1>3. \A r \in Requests : Seq(Seq(Owned(r))) \subseteq Seq(Seq(Tokens))
  BY <1>2, LargerSeq
<1> QED BY <1>2, <1>3 DEF AsyncInv, Routed, Typed

(* Before the first request nothing is told.                               *)
LEMMA InitStreams == AsyncInit => StreamInv
<1> SUFFICES ASSUME AsyncInit PROVE StreamInv
  OBVIOUS
<1>1. /\ DOMAIN new_tokens = {} /\ DOMAIN token_queues = {} /\ DOMAIN seq_to_request = {}
      /\ ended = {} /\ finished = {} /\ loop = "drain"
  BY EmptyQueue DEF AsyncInit, Empty
<1>2. Tracked = {}
  BY <1>1 DEF Tracked
<1> QED BY <1>1, <1>2 DEF AsyncInit, StreamInv, Counted, Opened, Followed, Completed

(* What a step that tells nobody anything keeps.                           *)
LEMMA NothingTold ==
  ASSUME AsyncInv, StreamInv,
         DOMAIN token_queues' \subseteq DOMAIN token_queues,
         \A r \in DOMAIN token_queues' : token_queues'[r] = token_queues[r],
         UNCHANGED <<received, ended, submitted, source, generated, new_tokens>>,
         failures' = 0 => failures = 0,
         Live' \subseteq Live, Tracked' \subseteq Tracked
  PROVE  Opened' /\ Followed' /\ Completed'
<1>1. Opened'
  BY DEF StreamInv, Opened
<1>2. Followed'
  BY DEF StreamInv, Followed, Due, NoEnd
<1>3. Completed'
  <2> SUFFICES ASSUME failures' = 0
               PROVE  /\ \A r \in DOMAIN token_queues' : \A k \in DOMAIN token_queues'[r] :
                           token_queues'[r][k] = END =>
                             /\ k = Len(token_queues'[r])
                             /\ \E s \in SeqIds' :
                                  /\ source'[s] = r /\ s \notin Live'
                                  /\ Tells(token_queues'[r], received'[r], s, generated'[s])
                      /\ \A r \in ended' : \E s \in SeqIds' :
                           /\ source'[s] = r /\ s \notin Live'
                           /\ IsSuffix(Output(s)', received'[r])
    BY DEF Completed
  <2>1. SeqIds' = SeqIds /\ \A s : Output(s)' = Output(s)
    BY DEF SeqIds, Output
  <2> QED BY <2>1 DEF StreamInv, Completed
<1> QED BY <1>1, <1>2, <1>3

(* Handlers.                                                               *)
LEMMA SubmitTells ==
  ASSUME AsyncInv, StreamInv, NEW r \in Requests, Submit(r)
  PROVE  StreamInv'
<1>1. /\ submitted \in Nat /\ r = submitted + 1 /\ submitted' = r
      /\ r \notin DOMAIN token_queues /\ r \notin ended
      /\ DOMAIN token_queues' = DOMAIN token_queues \cup {r}
      /\ token_queues'[r] = <<>>
      /\ \A q \in DOMAIN token_queues : token_queues'[q] = token_queues[q]
      /\ UNCHANGED <<seq_to_request, loop, failures, received, ended, source, generated,
                    waiting, running, held, lost, prev_counts, new_tokens, finished>>
  BY Numbers DEF Submit, Put, StreamInv, Opened, AsyncInv, Typed, seqVars, deques, resultVars
<1>2. /\ Tracked' = Tracked /\ Live' = Live /\ SeqIds' = SeqIds
      /\ \A s : Output(s)' = Output(s)
  BY <1>1 DEF Tracked, Live, SeqIds, JustAdded, Output
<1>3. \A s \in SeqIds : source[s] # r
  <2>1. \A s \in SeqIds : source[s] \in 1 .. submitted
    BY DEF AsyncInv, Numbered, SeqIds, Range
  <2> QED BY <1>1, <2>1
<1>4. Counted'
  BY <1>1, <1>2 DEF StreamInv, Counted
<1>5. Opened'
  BY <1>1 DEF StreamInv, Opened
<1>6. Followed'
  BY <1>1, <1>2, <1>3, TrackedIds DEF StreamInv, Followed, Due, NoEnd
<1>7. Completed'
  <2>1. DOMAIN token_queues'[r] = {}
    BY <1>1, EmptyQueue
  <2> QED BY <1>1, <1>2, <2>1 DEF StreamInv, Completed
<1> QED BY <1>4, <1>5, <1>6, <1>7 DEF StreamInv

(* A client that leaves takes its queue with it and nobody else's.         *)
LEMMA AbandonTells ==
  ASSUME AsyncInv, StreamInv, NEW r \in Requests, Abandon(r)
  PROVE  StreamInv'
<1>1. /\ DOMAIN token_queues' \subseteq DOMAIN token_queues
      /\ \A q \in DOMAIN token_queues' : token_queues'[q] = token_queues[q]
      /\ UNCHANGED <<seq_to_request, loop, failures, received, ended, submitted, source,
                    generated, waiting, running, held, lost, prev_counts, new_tokens, finished>>
  BY DEF Abandon, Closed, frontVars, seqVars, deques, resultVars
<1>2. Tracked' = Tracked /\ Live' = Live
  BY <1>1 DEF Tracked, Live, JustAdded
<1>3. Counted'
  BY <1>1, <1>2 DEF StreamInv, Counted
<1> QED BY <1>1, <1>2, <1>3, NothingTold DEF StreamInv

(* A reader moves the head of its queue to what it received: a request has *)
(* been told the same, or one thing less is left to tell it.               *)
LEMMA ReadTells ==
  ASSUME AsyncInv, StreamInv, NEW r \in Requests, Read(r)
  PROVE  StreamInv'
<1> DEFINE q == token_queues[r]
           h == Head(q)
           t == Tail(q)
<1>1. /\ r \in DOMAIN token_queues /\ q # <<>> /\ r \notin ended
      /\ UNCHANGED <<seq_to_request, loop, failures, submitted, source, generated,
                    waiting, running, held, lost, prev_counts, new_tokens, finished>>
      /\ DOMAIN token_queues' \subseteq DOMAIN token_queues
      /\ \A p \in DOMAIN token_queues' : p # r => token_queues'[p] = token_queues[p]
      /\ DOMAIN received = Requests
      /\ \A p \in Requests : p # r => received'[p] = received[p]
  <2>1. DOMAIN received = Requests
    BY DEF AsyncInv, Routed
  <2> QED BY <2>1 DEF Read, Closed, StreamInv, Opened, seqVars, deques, resultVars
<1>2. /\ q \in Seq(Seq(Tokens)) /\ h \in Seq(Tokens) /\ t \in Seq(Seq(Tokens))
      /\ received[r] \in Seq(Tokens)
      /\ Len(q) = Len(t) + 1 /\ Len(t) \in Nat
      /\ DOMAIN q = 1 .. Len(q) /\ DOMAIN t = 1 .. Len(t)
      /\ q[1] = h /\ \A k \in DOMAIN t : k + 1 \in DOMAIN q /\ t[k] = q[k + 1]
  <2>1. q \in Seq(Seq(Tokens)) /\ received[r] \in Seq(Tokens)
    BY <1>1, StreamTypes
  <2>2. h \in Seq(Tokens) /\ t \in Seq(Seq(Tokens)) /\ Len(q) = Len(t) + 1
    BY <1>1, <2>1, Popped
  <2>3. Len(t) \in Nat /\ DOMAIN q = 1 .. Len(q) /\ DOMAIN t = 1 .. Len(t)
    BY <2>1, <2>2, LenProperties
  <2>4. \A k \in 1 .. Len(t) : k + 1 \in 1 .. Len(q)
    BY <2>2, <2>3
  <2>5. q[1] = h /\ \A k \in 1 .. Len(t) : t[k] = q[k + 1]
    BY <1>1, <2>1, <2>2, <2>3
  <2> QED BY <2>1, <2>2, <2>3, <2>4, <2>5
<1>3. /\ Tracked' = Tracked /\ Live' = Live /\ SeqIds' = SeqIds
      /\ \A s : Output(s)' = Output(s)
  BY <1>1 DEF Tracked, Live, SeqIds, JustAdded, Output
<1>4. Counted'
  BY <1>1, <1>3 DEF StreamInv, Counted
<1>5. h = END => /\ r \notin DOMAIN token_queues' /\ ended' = ended \cup {r}
                 /\ received' = received
  BY <1>1 DEF Read, Closed
<1>6. h # END => /\ token_queues'[r] = t /\ received'[r] = received[r] \o h
                 /\ ended' = ended /\ DOMAIN token_queues' = DOMAIN token_queues
  BY <1>1 DEF Read
<1> HIDE DEF h, t
<1>7. ASSUME NEW s \in SeqIds, NEW n \in Nat, Tells(q, received[r], s, n)
      PROVE  Tells(t, received[r] \o h, s, n)
  BY <1>1, <1>2, <1>7, TellsRead, TrackedIds DEF h, t
<1> HIDE DEF q
<1>8. Opened'
  <2>1. r \in 1 .. submitted
    BY <1>1 DEF StreamInv, Opened
  <2> QED BY <1>1, <1>5, <1>6, <2>1 DEF StreamInv, Opened
<1>9. Followed'
  <2> SUFFICES ASSUME NEW s \in Tracked, source[s] \in DOMAIN token_queues'
               PROVE  /\ \E n \in 0 .. generated[s] :
                           Tells(token_queues'[source[s]], received'[source[s]], s, n) /\ Due(s, n)
                      /\ failures = 0 => NoEnd(token_queues'[source[s]])
    BY <1>1, <1>3 DEF Followed, Due
  <2>1. /\ source[s] \in DOMAIN token_queues /\ s \in SeqIds /\ generated[s] \in Nat
        /\ source[s] \in Requests
    BY <1>1, TrackedIds
  <2>2. PICK n \in 0 .. generated[s] :
          Tells(token_queues[source[s]], received[source[s]], s, n) /\ Due(s, n)
    BY <2>1 DEF StreamInv, Followed
  <2>3. failures = 0 => NoEnd(token_queues[source[s]])
    BY <2>1 DEF StreamInv, Followed
  <2>4. CASE source[s] = r
    <3>1. h # END
      BY <1>5, <2>4
    <3>2. n \in Nat
      BY <2>1
    <3>3. Tells(t, received[r] \o h, s, n)
      BY <1>7, <2>1, <2>2, <2>4, <3>2 DEF q
    <3>4. failures = 0 => NoEnd(t)
      BY <1>2, <2>3, <2>4 DEF NoEnd, q
    <3> QED BY <1>6, <2>2, <2>4, <3>1, <3>3, <3>4
  <2>5. CASE source[s] # r
    BY <1>1, <2>1, <2>2, <2>3, <2>5
  <2> QED BY <2>4, <2>5
<1>10. Completed'
  <2> SUFFICES ASSUME failures = 0
               PROVE  /\ \A p \in DOMAIN token_queues' : \A k \in DOMAIN token_queues'[p] :
                           token_queues'[p][k] = END =>
                             /\ k = Len(token_queues'[p])
                             /\ \E s \in SeqIds :
                                  /\ source[s] = p /\ s \notin Live
                                  /\ Tells(token_queues'[p], received'[p], s, generated[s])
                      /\ \A p \in ended' : \E s \in SeqIds :
                           /\ source[s] = p /\ s \notin Live
                           /\ IsSuffix(Output(s), received'[p])
    BY <1>1, <1>3 DEF Completed
  <2>1. ASSUME NEW p \in DOMAIN token_queues', NEW k \in DOMAIN token_queues'[p],
               token_queues'[p][k] = END
        PROVE  /\ k = Len(token_queues'[p])
               /\ \E s \in SeqIds :
                    /\ source[s] = p /\ s \notin Live
                    /\ Tells(token_queues'[p], received'[p], s, generated[s])
    <3>1. CASE p = r
      <4>1. h # END /\ token_queues'[r] = t /\ received'[r] = received[r] \o h
        BY <1>5, <1>6, <2>1, <3>1
      <4>2. k \in DOMAIN t /\ t[k] = END /\ k + 1 \in DOMAIN q /\ q[k + 1] = END
        BY <1>2, <2>1, <3>1, <4>1
      <4>3. /\ k + 1 = Len(q)
            /\ \E s \in SeqIds : /\ source[s] = r /\ s \notin Live
                                 /\ Tells(q, received[r], s, generated[s])
        BY <1>1, <4>2 DEF StreamInv, Completed, q
      <4>4. k = Len(t)
        BY <1>2, <4>2, <4>3
      <4> QED BY <1>7, <3>1, <4>1, <4>3, <4>4, TrackedIds
    <3>2. CASE p # r
      <4>1. /\ p \in DOMAIN token_queues /\ token_queues'[p] = token_queues[p]
            /\ received'[p] = received[p]
        BY <1>1, <2>1, <3>2, StreamTypes
      <4> QED BY <2>1, <4>1 DEF StreamInv, Completed
    <3> QED BY <3>1, <3>2
  <2>2. ASSUME NEW p \in ended'
        PROVE  \E s \in SeqIds :
                 source[s] = p /\ s \notin Live /\ IsSuffix(Output(s), received'[p])
    <3>1. CASE p = r
      <4>1. h = END /\ received' = received
        BY <1>1, <1>5, <1>6, <3>1
      <4>2. 1 \in DOMAIN q /\ q[1] = END
        BY <1>2, <4>1
      <4>3. PICK s \in SeqIds : /\ 1 = Len(q) /\ source[s] = r /\ s \notin Live
                                /\ Tells(q, received[r], s, generated[s])
        BY <1>1, <4>2 DEF StreamInv, Completed, q
      <4>4. s \in Nat /\ generated[s] \in Nat
        BY TrackedIds
      <4>5. t = <<>>
        BY <1>2, <4>3
      <4>6. received[r] \o h = received[r]
        BY <1>2, <4>1, ConcatEmptySeq DEF END
      <4>7. Tells(<<>>, received[r], s, generated[s])
        BY <1>7, <4>3, <4>4, <4>5, <4>6
      <4>8. IsSuffix(Output(s), received[r])
        BY <1>2, <4>4, <4>7, TellsAll DEF Output
      <4> QED BY <3>1, <4>1, <4>3, <4>8
    <3>2. CASE p # r
      <4>1. p \in ended
        BY <1>5, <1>6, <3>2
      <4>2. PICK s \in SeqIds :
              source[s] = p /\ s \notin Live /\ IsSuffix(Output(s), received[p])
        BY <4>1 DEF StreamInv, Completed
      <4>3. p \in Requests
        BY TrackedIds, <4>2
      <4> QED BY <1>1, <3>2, <4>2, <4>3
    <3> QED BY <3>1, <3>2
  <2> QED BY <2>1, <2>2
<1> QED BY <1>4, <1>8, <1>9, <1>10 DEF StreamInv

-----------------------------------------------------------------------------
(* Handing a request over.                                                 *)
LEMMA StartAddTells ==
  ASSUME AsyncInv, StreamInv, StartAdd
  PROVE  StreamInv'
<1>1. /\ loop = "drain" /\ loop' = "adding"
      /\ UNCHANGED <<token_queues, seq_to_request, failures, received, ended, submitted, source,
                    generated, waiting, running, held, lost, prev_counts, new_tokens, finished>>
  BY DEF StartAdd, mapVars, frontVars, seqVars, deques, resultVars
<1>2. Tracked' = Tracked /\ Live' = Live
  BY <1>1 DEF Tracked, Live
<1>3. Counted'
  BY <1>1, <1>2 DEF StreamInv, Counted
<1> QED BY <1>1, <1>2, <1>3, NothingTold DEF StreamInv

(* Nothing was told of the request before.                                 *)
LEMMA EngineAddTells ==
  ASSUME AsyncInv, StreamInv, EngineAdd
  PROVE  StreamInv'
<1> DEFINE id == Len(source) + 1
<1>1. /\ loop = "adding" /\ loop' = "added" /\ adding \in Requests
      /\ adding \notin Range(source)
      /\ source \in Seq(Requests) /\ Len(source) \in Nat /\ SeqIds = 1 .. Len(source)
      /\ waiting \in Seq(SeqIds)
      /\ UNCHANGED <<token_queues, seq_to_request, failures, received, ended, submitted,
                    running, held, lost, prev_counts, new_tokens, finished>>
  BY Lengths DEF AsyncInv, EngineAdd, Typed, Placed, Numbered, mapVars, frontVars, resultVars
<1>2. /\ SeqIds' = SeqIds \cup {id} /\ id \notin SeqIds
      /\ source'[id] = adding /\ \A s \in SeqIds : source'[s] = source[s]
  <2>1. source' = Append(source, adding)
    BY DEF EngineAdd
  <2>2. source'[id] = adding
    BY <1>1, <2>1
  <2> QED BY <1>1, <2>1, <2>2, Appended DEF SeqIds
<1>3. generated'[id] = 0 /\ \A s \in SeqIds : generated'[s] = generated[s]
  <2>1. generated \in [1 .. Len(source) -> Nat]
    BY <1>1 DEF AsyncInv, Typed
  <2>2. generated \in Seq(Nat) /\ Len(generated) = Len(source)
    BY <1>1, <2>1, FunctionIsSeq
  <2>3. generated' = Append(generated, 0)
    BY DEF EngineAdd
  <2>4. generated'[id] = 0 /\ \A s \in 1 .. Len(source) : generated'[s] = generated[s]
    BY <2>2, <2>3
  <2> QED BY <1>1, <2>4
<1> HIDE DEF id
<1>4. Range(waiting') = Range(waiting) \cup {id} /\ JustAdded' = id
  <2>1. waiting' = Append(waiting, id)
    BY DEF EngineAdd, id
  <2>2. waiting \in Seq(SeqIds \cup {id}) /\ id \in SeqIds \cup {id}
    BY <1>1, LargerSeq
  <2> QED BY <2>1, <2>2, Appended DEF JustAdded
<1>5. Live' = Live \cup {id} /\ Tracked' = Tracked \cup {id}
  BY <1>1, <1>4 DEF Live, Tracked
<1>6. \A s \in SeqIds : Output(s)' = Output(s)
  BY <1>3 DEF Output
<1>7. Counted'
  BY <1>1, <1>5, EmptyQueue DEF StreamInv, Counted, Empty
<1>8. Opened'
  BY <1>1 DEF StreamInv, Opened
<1>9. ASSUME adding \in DOMAIN token_queues
      PROVE  \A k \in DOMAIN token_queues[adding] : token_queues[adding][k] = <<>>
  <2>1. Owned(adding) = {}
    BY <1>1, LenProperties DEF Owned, SeqIds, Range
  <2>2. \A q \in Seq(Owned(adding)) : q = <<>>
    BY <2>1
  <2>3. token_queues[adding] \in Seq(Seq(Owned(adding)))
    BY <1>9 DEF AsyncInv, Routed
  <2>4. \A k \in DOMAIN token_queues[adding] : token_queues[adding][k] \in Seq(Owned(adding))
    BY <2>3, LenProperties
  <2> QED BY <2>2, <2>4
<1>10. Followed'
  <2> SUFFICES ASSUME NEW s \in Tracked', source'[s] \in DOMAIN token_queues
               PROVE  /\ \E n \in 0 .. generated'[s] :
                           /\ Tells(token_queues[source'[s]], received[source'[s]], s, n)
                           /\ Due(s, n)'
                      /\ failures = 0 => NoEnd(token_queues[source'[s]])
    BY <1>1 DEF Followed
  <2>0. DOMAIN new_tokens = {}
    BY <1>1, EmptyQueue DEF StreamInv, Counted, Empty
  <2>1. CASE s = id
    <3>1. source'[s] = adding /\ generated'[s] = 0 /\ 0 \in 0 .. generated'[s] /\ s \in Nat
      BY <1>1, <1>2, <1>3, <2>1 DEF id
    <3>2. token_queues[adding] \in Seq(Seq(Tokens)) /\ received[adding] \in Seq(Tokens)
      BY <1>1, <3>1, StreamTypes
    <3>3. Tells(token_queues[adding], received[adding], s, 0)
      BY <1>9, <3>1, <3>2, TellsNothing
    <3>4. Due(s, 0)'
      BY <1>1, <2>0, <3>1 DEF Due
    <3>5. failures = 0 => NoEnd(token_queues[adding])
      <4>1. ASSUME failures = 0, NEW k \in DOMAIN token_queues[adding],
                   token_queues[adding][k] = END
            PROVE  FALSE
        <5>1. PICK s2 \in SeqIds : source[s2] = adding
          BY <3>1, <4>1 DEF StreamInv, Completed
        <5> QED BY <1>1, <5>1 DEF SeqIds, Range
      <4> QED BY <4>1 DEF NoEnd
    <3> QED BY <3>1, <3>3, <3>4, <3>5
  <2>2. CASE s # id
    <3>1. s \in Tracked /\ s \in SeqIds /\ source'[s] = source[s] /\ generated'[s] = generated[s]
      BY <1>2, <1>3, <1>5, <2>2, TrackedIds
    <3>2. PICK n \in 0 .. generated[s] :
            Tells(token_queues[source[s]], received[source[s]], s, n) /\ Due(s, n)
      BY <3>1 DEF StreamInv, Followed
    <3>3. failures = 0 => NoEnd(token_queues[source[s]])
      BY <3>1 DEF StreamInv, Followed
    <3>4. Due(s, n)'
      BY <1>1, <2>0, <3>1, <3>2 DEF Due
    <3> QED BY <3>1, <3>2, <3>3, <3>4
  <2> QED BY <2>1, <2>2
<1>11. Completed'
  <2> SUFFICES ASSUME failures = 0
               PROVE  /\ \A p \in DOMAIN token_queues : \A k \in DOMAIN token_queues[p] :
                           token_queues[p][k] = END =>
                             /\ k = Len(token_queues[p])
                             /\ \E s \in SeqIds' :
                                  /\ source'[s] = p /\ s \notin Live'
                                  /\ Tells(token_queues[p], received[p], s, generated'[s])
                      /\ \A p \in ended : \E s \in SeqIds' :
                           /\ source'[s] = p /\ s \notin Live'
                           /\ IsSuffix(Output(s)', received[p])
    BY <1>1 DEF Completed
  <2>1. \A s \in SeqIds : s \in SeqIds' /\ (s \notin Live => s \notin Live')
    BY <1>2, <1>5
  <2> QED BY <1>2, <1>3, <1>6, <2>1 DEF StreamInv, Completed
<1> QED BY <1>7, <1>8, <1>10, <1>11 DEF StreamInv

(* A sequence is entered in the table before it has generated anything.    *)
LEMMA MapAddedTells ==
  ASSUME AsyncInv, StreamInv, MapAdded
  PROVE  StreamInv'
<1>1. /\ loop = "added" /\ loop' = "drain"
      /\ DOMAIN seq_to_request' = DOMAIN seq_to_request \cup {JustAdded}
      /\ UNCHANGED <<token_queues, failures, received, ended, submitted, source,
                    generated, waiting, running, held, lost, prev_counts, new_tokens, finished>>
  BY DEF MapAdded, Put, frontVars, seqVars, deques, resultVars
<1>2. Tracked' = Tracked /\ Live' = Live
  BY <1>1 DEF Tracked, Live
<1>3. Counted'
  BY <1>1, <1>2 DEF StreamInv, Counted
<1> QED BY <1>1, <1>2, <1>3, NothingTold DEF StreamInv

-----------------------------------------------------------------------------
(* A step of the engine.  Moving sequences between the deques makes none   *)
(* live and tells nothing.                                                 *)
LEMMA StartStepTells ==
  ASSUME AsyncInv, StreamInv, StartStep
  PROVE  StreamInv'
<1>1. /\ loop = "drain" /\ loop' = "schedule"
      /\ prev_counts' = [s \in Range(running) |-> generated[s]]
      /\ UNCHANGED <<token_queues, seq_to_request, failures, received, ended, submitted, source,
                    generated, waiting, running, held, lost, new_tokens, finished>>
  BY DEF StartStep, mapVars, frontVars, seqVars, deques, resultVars
<1>2. Tracked' = Tracked /\ Live' = Live
  BY <1>1 DEF Tracked, Live
<1>3. Counted'
  BY <1>1, <1>2 DEF StreamInv, Counted
<1> QED BY <1>1, <1>2, <1>3, NothingTold DEF StreamInv

(* Moving sequences between the deques tells nobody anything.              *)
LEMMA MoveTells ==
  ASSUME AsyncInv, StreamInv, loop = "schedule", loop' \in {"schedule", "run"},
         UNCHANGED <<token_queues, seq_to_request, failures, received, ended, submitted, source,
                     generated, prev_counts, new_tokens, finished>>,
         Live' \subseteq Live
  PROVE  StreamInv'
<1>1. Tracked' = Tracked
  BY DEF Tracked
<1>2. Counted'
  BY DEF StreamInv, Counted
<1> QED BY <1>1, <1>2, NothingTold DEF StreamInv

(* So no decision of the scheduler does.                                   *)
LEMMA ScheduleTells ==
  ASSUME AsyncInv, StreamInv,
         \/ HoldRunning \/ ScheduleDecode \/ SchedulePrefill
         \/ \E s \in SeqIds : Preempt(s) \/ Lose(s) \/ TakeWaiting(s)
  PROVE  StreamInv'
<1>1. /\ loop = "schedule" /\ loop' \in {"schedule", "run"}
      /\ UNCHANGED <<token_queues, seq_to_request, failures, received, ended, submitted, source,
                    generated, prev_counts, new_tokens, finished>>
  BY DEF HoldRunning, Preempt, Lose, ScheduleDecode, TakeWaiting, SchedulePrefill, mapVars,
         frontVars, seqVars, resultVars
<1>2. waiting \in Seq(SeqIds) /\ running \in Seq(SeqIds) /\ held \in Seq(SeqIds)
  BY DEF AsyncInv, Placed
<1>3. CASE HoldRunning
  <2>1. Range(running) = {Head(running)} \cup Range(running') /\ Head(running) \in SeqIds
    BY <1>2, <1>3, Popped DEF HoldRunning
  <2>2. Range(held') = Range(held) \cup {Head(running)} /\ waiting' = waiting /\ lost' = lost
    BY <1>2, <1>3, <2>1, Appended DEF HoldRunning
  <2>3. Live' \subseteq Live
    BY <2>1, <2>2 DEF Live
  <2> QED BY <1>1, <2>3, MoveTells
<1>4. ASSUME NEW s \in SeqIds, Preempt(s) PROVE StreamInv'
  <2>1. lost' = lost
    BY <1>4 DEF Preempt
  <2>2. Live' \subseteq Live
    BY <1>4, <2>1, PreemptMoves DEF Live
  <2> QED BY <1>1, <2>2, MoveTells
<1>5. ASSUME NEW s \in SeqIds, Lose(s) PROVE StreamInv'
  <2>1. Range(held') \subseteq Range(held)
    BY <1>2, <1>5, WithoutProperties DEF Lose
  <2>2. Live' \subseteq Live
    BY <1>5, <2>1 DEF Lose, Live
  <2> QED BY <1>1, <2>2, MoveTells
<1>6. CASE ScheduleDecode
  <2>1. running' = held \o running /\ held' = <<>> /\ waiting' = waiting /\ lost' = lost
    BY <1>6 DEF ScheduleDecode
  <2>2. Range(running') = Range(held) \cup Range(running)
    BY <1>2, <2>1, RangeConcatenation
  <2>3. Live' \subseteq Live
    BY <2>1, <2>2, EmptyQueue DEF Live
  <2> QED BY <1>1, <2>3, MoveTells
<1>7. ASSUME NEW s \in SeqIds, TakeWaiting(s) PROVE StreamInv'
  <2>1. Range(waiting') \subseteq Range(waiting)
    BY <1>2, <1>7, WithoutProperties DEF TakeWaiting
  <2>2. Range(running') = Range(running) \cup {s}
    BY <1>2, <1>7, Appended DEF TakeWaiting
  <2>3. Live' \subseteq Live
    BY <1>7, <2>1, <2>2 DEF TakeWaiting, Live
  <2> QED BY <1>1, <2>3, MoveTells
<1>8. CASE SchedulePrefill
  <2>1. Live' = Live
    BY <1>8 DEF SchedulePrefill, deques, Live
  <2> QED BY <1>1, <2>1, MoveTells
<1> QED BY <1>3, <1>4, <1>5, <1>6, <1>7, <1>8

(* The new tokens of a sequence go on where the count before the step was, *)
(* or start over if the sequence was not counted.                          *)
LEMMA PostprocessTells ==
  ASSUME AsyncInv, StreamInv, NEW ends \in SUBSET Range(batch), Postprocess(ends)
  PROVE  StreamInv'
<1> DEFINE counts == [s \in DOMAIN generated |->
                        generated[s] + IF s \in Range(batch) THEN 1 ELSE 0]
<1>1. /\ loop = "run" /\ loop' = "dispatch" /\ generated' = counts /\ finished' = ends
      /\ running' = Without(running, ends)
      /\ new_tokens' = [s \in {q \in Range(running) : counts[q] > CountBefore(q)} |->
                          Text(s, CountBefore(s), counts[s])]
      /\ UNCHANGED <<token_queues, seq_to_request, failures, received, ended, submitted, source,
                    waiting, held, lost>>
  BY DEF Postprocess, mapVars, frontVars
<1>2. /\ waiting \in Seq(SeqIds) /\ running \in Seq(SeqIds) /\ held \in Seq(SeqIds)
      /\ Range(batch) \subseteq Range(running) /\ Range(running) \subseteq SeqIds
      /\ Range(waiting) \cap Range(running) = {} /\ Range(running) \cap Range(held) = {}
      /\ DOMAIN generated = SeqIds /\ Range(running) \subseteq Live /\ lost \cap Range(running) = {}
  BY ElementsOf DEF AsyncInv, Placed, Typed, Live
<1>3. \A s \in SeqIds : /\ generated[s] \in Nat
                        /\ counts[s] = IF s \in Range(batch) THEN generated[s] + 1 ELSE generated[s]
                        /\ CountBefore(s) \in {0, generated[s]}
  <2>1. \A s \in SeqIds : generated[s] \in Nat
    BY TrackedIds
  <2>2. \A s \in SeqIds : CountBefore(s) \in {0, generated[s]}
    BY <1>1 DEF CountBefore, StreamInv, Counted
  <2> QED BY <1>2, <2>1, <2>2
<1> HIDE DEF counts
<1>4. Range(running') = Range(running) \ ends
  BY <1>1, <1>2, WithoutProperties
<1>5. /\ Live' \subseteq Live /\ ends \cap Live' = {}
      /\ Tracked' = Tracked /\ SeqIds' = SeqIds /\ Tracked \subseteq SeqIds
  BY <1>1, <1>2, <1>4, TrackedIds DEF Live, Tracked, SeqIds
<1>6. Counted'
  <2>1. ASSUME NEW s \in DOMAIN new_tokens' PROVE new_tokens'[s] # <<>>
    <3>1. s \in SeqIds /\ counts[s] > CountBefore(s)
          /\ new_tokens'[s] = Text(s, CountBefore(s), counts[s])
      BY <1>1, <1>2, <2>1
    <3> DEFINE a == CountBefore(s)
               b == counts[s]
    <3>2. a \in Nat /\ b \in Nat /\ s \in Nat
      BY <1>3, <3>1, TrackedIds
    <3>3. a <= b /\ a # b
      BY <3>1, <3>2
    <3> HIDE DEF a, b
    <3>4. Text(s, a, b) # <<>>
      BY <3>2, <3>3, TextIs
    <3> QED BY <3>1, <3>4 DEF a, b
  <2> QED BY <1>1, <1>5, <2>1 DEF Counted
<1>7. Opened'
  BY <1>1 DEF StreamInv, Opened
<1>8. Followed'
  <2> SUFFICES ASSUME NEW s \in Tracked, source[s] \in DOMAIN token_queues
               PROVE  /\ \E n \in 0 .. counts[s] :
                           /\ Tells(token_queues[source[s]], received[source[s]], s, n)
                           /\ Due(s, n)'
                      /\ failures = 0 => NoEnd(token_queues[source[s]])
    BY <1>1, <1>5 DEF Followed
  <2>1. s \in SeqIds
    BY <1>5
  <2>2. PICK n \in 0 .. generated[s] :
          Tells(token_queues[source[s]], received[source[s]], s, n) /\ Due(s, n)
    BY DEF StreamInv, Followed
  <2>3. n = generated[s]
    BY <1>1, <2>2, EmptyQueue DEF StreamInv, Counted, Due, Empty
  <2>4. n \in 0 .. counts[s]
    BY <1>3, <2>1, <2>3
  <2>5. Due(s, n)'
    <3>1. CASE s \in DOMAIN new_tokens'
      <4>1. new_tokens'[s] = Text(s, CountBefore(s), counts[s])
        BY <1>1, <3>1
      <4> QED BY <1>1, <1>3, <2>1, <2>3, <3>1, <4>1 DEF Due
    <3>2. CASE s \notin DOMAIN new_tokens'
      <4>1. s \notin Range(batch)
        <5>1. SUFFICES ASSUME s \in Range(batch) PROVE FALSE
          OBVIOUS
        <5>2. s \in Range(running)
          BY <1>2, <5>1
        <5>3. /\ generated[s] \in Nat /\ counts[s] = generated[s] + 1
              /\ CountBefore(s) \in {0, generated[s]}
          BY <1>3, <2>1, <5>1
        <5>4. counts[s] > CountBefore(s)
          BY <5>3
        <5> QED BY <1>1, <3>2, <5>2, <5>4
      <4>2. counts[s] = generated[s]
        BY <1>3, <2>1, <4>1
      <4> QED BY <1>1, <2>3, <3>2, <4>2 DEF Due
    <3> QED BY <3>1, <3>2
  <2>6. failures = 0 => NoEnd(token_queues[source[s]])
    BY DEF StreamInv, Followed
  <2> QED BY <2>2, <2>4, <2>5, <2>6
<1>9. Completed'
  <2>1. \A s \in SeqIds : s \notin Live => /\ counts[s] = generated[s] /\ s \notin Live'
                                           /\ Output(s)' = Output(s)
    BY <1>1, <1>2, <1>3, <1>5 DEF Output
  <2> SUFFICES ASSUME failures = 0
               PROVE  /\ \A p \in DOMAIN token_queues : \A k \in DOMAIN token_queues[p] :
                           token_queues[p][k] = END =>
                             /\ k = Len(token_queues[p])
                             /\ \E s \in SeqIds :
                                  /\ source[s] = p /\ s \notin Live'
                                  /\ Tells(token_queues[p], received[p], s, counts[s])
                      /\ \A p \in ended : \E s \in SeqIds :
                           /\ source[s] = p /\ s \notin Live'
                           /\ IsSuffix(Output(s)', received[p])
    BY <1>1, <1>5 DEF Completed
  <2> QED BY <2>1 DEF StreamInv, Completed
<1> QED BY <1>6, <1>7, <1>8, <1>9 DEF StreamInv

-----------------------------------------------------------------------------
(* What the dispatch puts into the queue of a sequence of the table.       *)
LEMMA Dispatched ==
  ASSUME AsyncInv, StreamInv, Dispatch,
         NEW s \in DOMAIN seq_to_request, source[s] \in DOMAIN token_queues
  PROVE  LET q == token_queues[source[s]]
             p == IF s \in DOMAIN new_tokens THEN Append(q, new_tokens[s]) ELSE q
         IN  /\ p \in Seq(Seq(Tokens))
             /\ Tells(p, received[source[s]], s, generated[s])
             /\ failures = 0 => NoEnd(p)
             /\ token_queues'[source[s]] = IF s \in finished THEN Append(p, END) ELSE p
<1> DEFINE r == source[s]
           q == token_queues[r]
           p == IF s \in DOMAIN new_tokens THEN Append(q, new_tokens[s]) ELSE q
<1>1. /\ s \in SeqIds /\ s \in Nat /\ generated[s] \in Nat /\ s \in Tracked
      /\ r \in Requests /\ q \in Seq(Seq(Tokens)) /\ received[r] \in Seq(Tokens)
  BY TrackedIds, StreamTypes DEF Tracked
<1>2. \A s2 \in DOMAIN seq_to_request : seq_to_request[s2] = r => s2 = s
  <2>1. \A s2 \in DOMAIN seq_to_request : s2 \in SeqIds /\ seq_to_request[s2] = source[s2]
    BY DEF AsyncInv, Mapped, Typed
  <2> QED BY <1>1, <2>1 DEF AsyncInv, Numbered, IsInjective, SeqIds
<1>3. seq_to_request[s] = r
  BY DEF AsyncInv, Mapped
<1>4. SequenceOf(r) = s
  <2>1. SequenceOf(r) \in DOMAIN seq_to_request /\ seq_to_request[SequenceOf(r)] = r
    BY <1>3 DEF SequenceOf
  <2> QED BY <1>2, <2>1
<1>5. /\ r \in RequestsOf(DOMAIN new_tokens) <=> s \in DOMAIN new_tokens
      /\ r \in RequestsOf(finished) <=> s \in finished
  BY <1>2, <1>3 DEF RequestsOf
<1>6. PICK n \in 0 .. generated[s] : Tells(q, received[r], s, n) /\ Due(s, n)
  BY <1>1 DEF StreamInv, Followed
<1>7. failures = 0 => NoEnd(q)
  BY <1>1 DEF StreamInv, Followed
<1>8. token_queues'[r] = q \o (IF s \in DOMAIN new_tokens THEN <<new_tokens[s]>> ELSE <<>>)
                           \o (IF s \in finished THEN <<END>> ELSE <<>>)
  BY <1>4, <1>5 DEF Dispatch
<1> HIDE DEF r, q
<1>9. CASE s \in DOMAIN new_tokens
  <2> DEFINE t == new_tokens[s]
             g == generated[s]
  <2>1. p = Append(q, t)
    BY <1>9
  <2>2. n \in Nat /\ g \in Nat /\ n <= g /\ 0 \in Nat /\ 0 <= g
    BY <1>1
  <2>3. t \in {Text(s, n, g), Text(s, 0, g)} /\ t # <<>>
    BY <1>6, <1>9 DEF Due, StreamInv, Counted
  <2>4. t \in Seq(Tokens)
    <3>1. Text(s, n, g) \in Seq(Tokens)
      BY <1>1, <2>2, TextIs
    <3>2. Text(s, 0, g) \in Seq(Tokens)
      BY <1>1, <2>2, TextIs
    <3> QED BY <2>3, <3>1, <3>2
  <2> HIDE DEF t, g, p
  <2>5. /\ p \in Seq(Seq(Tokens)) /\ DOMAIN p = DOMAIN q \cup {Len(q) + 1}
        /\ Last(p) = t /\ Len(p) = Len(q) + 1 /\ \A k \in DOMAIN q : p[k] = q[k]
    BY <1>1, <2>1, <2>4, Appended
  <2>6. Tells(p, received[r], s, g)
    BY <1>1, <1>6, <2>1, <2>2, <2>3, TellsMore
  <2>7. failures = 0 => NoEnd(p)
    BY <1>7, <2>3, <2>5 DEF NoEnd, END, Last
  <2>8. q \o <<t>> = p
    BY <1>1, <2>1, <2>4
  <2>9. p \o <<END>> = Append(p, END)
    BY <2>5, EmptyQueue DEF END
  <2>10. p \o <<>> = p
    BY <2>5, ConcatEmptySeq
  <2>11. token_queues'[r] = IF s \in finished THEN Append(p, END) ELSE p
    BY <1>8, <1>9, <2>8, <2>9, <2>10 DEF t
  <2> QED BY <2>5, <2>6, <2>7, <2>11 DEF r, q, p, g
<1>10. CASE s \notin DOMAIN new_tokens
  <2>1. p = q /\ n = generated[s]
    BY <1>6, <1>10 DEF Due
  <2>2. q \o <<>> = q
    BY <1>1, ConcatEmptySeq
  <2>3. q \o <<END>> = Append(q, END)
    BY <1>1, EmptyQueue DEF END
  <2>4. token_queues'[r] = IF s \in finished THEN Append(q, END) ELSE q
    BY <1>8, <1>10, <2>2, <2>3
  <2> QED BY <1>1, <1>6, <1>7, <2>1, <2>4 DEF r, q
<1> QED BY <1>9, <1>10

(* What the last step produced goes to the queue of the request it is of;  *)
(* a finished sequence leaves the table, and its queue has its end mark.   *)
LEMMA DispatchTells ==
  ASSUME AsyncInv, StreamInv, Dispatch
  PROVE  StreamInv'
<1>1. /\ loop = "dispatch" /\ loop' = "drain" /\ DOMAIN new_tokens' = {} /\ finished' = {}
      /\ new_tokens' = Empty
      /\ DOMAIN token_queues' = DOMAIN token_queues
      /\ seq_to_request' = [s \in DOMAIN seq_to_request \ finished |-> seq_to_request[s]]
      /\ UNCHANGED <<failures, received, ended, submitted, source, generated,
                    waiting, running, held, lost, prev_counts>>
  BY EmptyQueue DEF Dispatch, Empty, Unmapped, frontVars, seqVars, deques
<1>2. /\ Tracked' = Tracked \ finished /\ Tracked = DOMAIN seq_to_request
      /\ Live' = Live /\ SeqIds' = SeqIds /\ Tracked \subseteq SeqIds
      /\ \A s : Output(s)' = Output(s)
  BY <1>1, TrackedIds DEF Tracked, Live, SeqIds, Output
<1>3. Counted'
  BY <1>1, <1>2 DEF Counted
<1>4. Opened'
  BY <1>1 DEF StreamInv, Opened
<1>5. Followed'
  <2> SUFFICES ASSUME NEW s \in Tracked, s \notin finished, source[s] \in DOMAIN token_queues
               PROVE  /\ \E n \in 0 .. generated[s] :
                           /\ Tells(token_queues'[source[s]], received[source[s]], s, n)
                           /\ Due(s, n)'
                      /\ failures = 0 => NoEnd(token_queues'[source[s]])
    BY <1>1, <1>2 DEF Followed
  <2>1. /\ Tells(token_queues'[source[s]], received[source[s]], s, generated[s])
        /\ failures = 0 => NoEnd(token_queues'[source[s]])
    BY <1>2, Dispatched
  <2>2. generated[s] \in 0 .. generated[s]
    BY <1>2, TrackedIds
  <2>3. \A n : n = generated[s] => Due(s, n)'
    BY <1>1 DEF Due
  <2> QED BY <2>1, <2>2, <2>3
<1>6. Completed'
  <2> SUFFICES ASSUME failures = 0
               PROVE  /\ \A r \in DOMAIN token_queues : \A k \in DOMAIN token_queues'[r] :
                           token_queues'[r][k] = END =>
                             /\ k = Len(token_queues'[r])
                             /\ \E s \in SeqIds :
                                  /\ source[s] = r /\ s \notin Live
                                  /\ Tells(token_queues'[r], received[r], s, generated[s])
                      /\ \A r \in ended : \E s \in SeqIds :
                           /\ source[s] = r /\ s \notin Live
                           /\ IsSuffix(Output(s), received[r])
    BY <1>1, <1>2 DEF Completed
  <2>1. ASSUME NEW r \in DOMAIN token_queues, NEW k \in DOMAIN token_queues'[r],
               token_queues'[r][k] = END
        PROVE  /\ k = Len(token_queues'[r])
               /\ \E s \in SeqIds :
                    /\ source[s] = r /\ s \notin Live
                    /\ Tells(token_queues'[r], received[r], s, generated[s])
    <3>1. CASE \E s \in DOMAIN seq_to_request : source[s] = r
      <4>1. PICK s \in DOMAIN seq_to_request : source[s] = r
        BY <3>1
      <4> DEFINE q == token_queues[r]
                 p == IF s \in DOMAIN new_tokens THEN Append(q, new_tokens[s]) ELSE q
      <4>2. /\ p \in Seq(Seq(Tokens)) /\ Tells(p, received[r], s, generated[s]) /\ NoEnd(p)
            /\ token_queues'[r] = IF s \in finished THEN Append(p, END) ELSE p
        BY <4>1, Dispatched
      <4> HIDE DEF p
      <4>3. s \in finished
        BY <2>1, <4>2 DEF NoEnd
      <4>4. /\ s \in SeqIds /\ s \in Nat /\ generated[s] \in Nat /\ received[r] \in Seq(Tokens)
            /\ s \notin Live
        BY <1>2, <4>1, <4>3, TrackedIds, StreamTypes DEF StreamInv, Counted
      <4> DEFINE g == generated[s]
                 w == Append(p, END)
      <4>5. END = Text(s, g, g) /\ g \in Nat /\ g <= g
        <5>1. g \in Nat /\ g <= g
          BY <4>4
        <5> HIDE DEF g
        <5>2. Text(s, g, g) = <<>>
          BY <4>4, <5>1, TextIs
        <5> QED BY <5>1, <5>2 DEF END
      <4>6. Tells(w, received[r], s, g)
        BY <4>2, <4>4, <4>5, TellsMore
      <4>7. /\ DOMAIN w = DOMAIN p \cup {Len(p) + 1} /\ Len(w) = Len(p) + 1
            /\ \A i \in DOMAIN p : w[i] = p[i]
        BY <4>2, EmptyQueue, Appended DEF END
      <4>8. token_queues'[r] = w
        BY <4>2, <4>3
      <4> HIDE DEF w
      <4>9. k = Len(w)
        BY <2>1, <4>2, <4>7, <4>8 DEF NoEnd
      <4> QED BY <4>1, <4>4, <4>6, <4>8, <4>9
    <3>2. CASE ~ \E s \in DOMAIN seq_to_request : source[s] = r
      <4>1. \A s \in DOMAIN seq_to_request : seq_to_request[s] # r
        BY <3>2 DEF AsyncInv, Mapped
      <4>2. r \notin RequestsOf(DOMAIN new_tokens) /\ r \notin RequestsOf(finished)
        BY <4>1 DEF RequestsOf
      <4>3. token_queues'[r] = token_queues[r] \o <<>> \o <<>>
        BY <4>2 DEF Dispatch
      <4>4. token_queues[r] \in Seq(Seq(Tokens))
        BY StreamTypes
      <4>5. token_queues'[r] = token_queues[r]
        BY <4>3, <4>4, ConcatEmptySeq
      <4> QED BY <2>1, <4>5 DEF StreamInv, Completed
    <3> QED BY <3>1, <3>2
  <2> QED BY <2>1 DEF StreamInv, Completed
<1> QED BY <1>3, <1>4, <1>5, <1>6 DEF StreamInv

(* Failures and the end.                                                   *)
LEMMA FailsTells ==
  ASSUME AsyncInv, StreamInv, Fails
  PROVE  StreamInv'
<1>1. /\ loop \in {"adding", "run", "schedule"} /\ loop' = "failed"
      /\ failures' \in Nat /\ failures' > 0
      /\ UNCHANGED <<token_queues, seq_to_request, received, ended, submitted, source,
                    generated, waiting, running, held, lost, new_tokens, finished>>
  <2>1. failures \in Nat /\ failures' = failures + 1
    BY LimitsAssumption DEF Fails, AsyncInv, Typed
  <2> QED BY <2>1 DEF Fails, mapVars, frontVars, seqVars, deques, resultVars
<1>2. Tracked' = Tracked /\ Live' = Live
  BY <1>1 DEF Tracked, Live
<1>3. Counted'
  BY <1>1, <1>2 DEF StreamInv, Counted
<1> QED BY <1>1, <1>2, <1>3, NothingTold DEF StreamInv

(* After a failed step the table is empty, and each queue has an end mark. *)
LEMMA HandleFailureTells ==
  ASSUME AsyncInv, StreamInv, HandleFailure
  PROVE  StreamInv'
<1>1. /\ loop = "failed" /\ loop' = "drain" /\ failures > 0 /\ failures \in Nat
      /\ DOMAIN seq_to_request' = {} /\ DOMAIN token_queues' = DOMAIN token_queues
      /\ UNCHANGED <<failures, received, ended, submitted, source,
                    generated, waiting, running, held, lost, prev_counts, new_tokens, finished>>
  BY EmptyQueue, LimitsAssumption
     DEF HandleFailure, Empty, StreamInv, Counted, AsyncInv, Typed, frontVars, seqVars, deques,
         resultVars
<1>2. Tracked' = {} /\ Live' = Live
  BY <1>1 DEF Tracked, Live
<1>3. Counted' /\ Opened'
  BY <1>1, <1>2 DEF StreamInv, Counted, Opened
<1>4. Followed'
  BY <1>2 DEF Followed
<1>5. Completed'
  BY <1>1 DEF Completed
<1> QED BY <1>3, <1>4, <1>5 DEF StreamInv

(* Counting requests, refusing one and stopping change no queue.           *)
LEMMA StopTells ==
  ASSUME AsyncInv, StreamInv, CountQueued \/ Refuse \/ Stop \/ UNCHANGED asyncVars
  PROVE  StreamInv'
<1>1. UNCHANGED <<token_queues, seq_to_request, loop, failures, received, ended, submitted, source,
                  generated, waiting, running, held, lost, prev_counts, new_tokens, finished>>
  BY DEF CountQueued, Refuse, Stop, asyncVars, mapVars, frontVars, seqVars, deques, resultVars
<1>2. Tracked' = Tracked /\ Live' = Live
  BY <1>1 DEF Tracked, Live, JustAdded
<1>3. Counted'
  BY <1>1, <1>2 DEF StreamInv, Counted
<1> QED BY <1>1, <1>2, <1>3, NothingTold DEF StreamInv

-----------------------------------------------------------------------------
(* Every step keeps what the streams tell.                                 *)
LEMMA AsyncNextTells == AsyncInv /\ StreamInv /\ [AsyncNext]_asyncVars => StreamInv'
<1> SUFFICES ASSUME AsyncInv, StreamInv, [AsyncNext]_asyncVars PROVE StreamInv'
  OBVIOUS
<1>1. ASSUME NEW r \in Requests, Submit(r) \/ Read(r) \/ Abandon(r) PROVE StreamInv'
  BY <1>1, SubmitTells, ReadTells, AbandonTells
<1>2. CASE StartAdd \/ EngineAdd \/ MapAdded
  BY <1>2, StartAddTells, EngineAddTells, MapAddedTells
<1>3. CASE \/ HoldRunning \/ ScheduleDecode \/ SchedulePrefill
           \/ \E s \in SeqIds : Preempt(s) \/ Lose(s) \/ TakeWaiting(s)
  BY <1>3, ScheduleTells
<1>4. ASSUME NEW ends \in SUBSET Range(batch), Postprocess(ends) PROVE StreamInv'
  BY <1>4, PostprocessTells
<1>5. CASE StartStep \/ Dispatch \/ HandleFailure \/ Fails
  BY <1>5, StartStepTells, DispatchTells, HandleFailureTells, FailsTells
<1>6. CASE CountQueued \/ Refuse \/ Stop \/ UNCHANGED asyncVars
  BY <1>6, StopTells
<1> QED BY <1>1, <1>2, <1>3, <1>4, <1>5, <1>6 DEF AsyncNext, LoopStep, Answer

(* What was sent to a client is known in every state.                      *)
THEOREM StreamsTell == AsyncSpec => []StreamInv
<1>1. AsyncInit => StreamInv
  BY InitStreams
<1>2. AsyncInv /\ StreamInv /\ [AsyncNext]_asyncVars => StreamInv'
  BY AsyncNextTells
<1> QED BY <1>1, <1>2, AsyncSafety, PTL DEF AsyncSpec

(* No token of a sequence in the table is skipped, whatever was preempted  *)
(* between the counts a step is framed by.                                 *)
THEOREM NoTokenSkipped == AsyncSpec => []NothingSkipped
<1>1. AsyncInv /\ StreamInv => NothingSkipped
  <2> SUFFICES ASSUME AsyncInv, StreamInv, loop # "dispatch", NEW s \in DOMAIN seq_to_request,
                      seq_to_request[s] \in DOMAIN token_queues
               PROVE  ToldAll(seq_to_request[s], s)
    BY DEF NothingSkipped
  <2>1. s \in Tracked /\ seq_to_request[s] = source[s]
    BY DEF Tracked, AsyncInv, Mapped
  <2>2. PICK n \in 0 .. generated[s] :
          Tells(token_queues[source[s]], received[source[s]], s, n) /\ Due(s, n)
    BY <2>1 DEF StreamInv, Followed
  <2>3. n = generated[s]
    BY <2>2, EmptyQueue DEF StreamInv, Counted, Due, Empty
  <2> QED BY <2>1, <2>2, <2>3 DEF Tells, ToldAll
<1> QED BY <1>1, AsyncSafety, StreamsTell, PTL

(* A stream that the engine closed is complete, unless something failed.   *)
THEOREM EndedAreComplete == AsyncSpec => []EndedComplete
<1>1. AsyncInv /\ StreamInv => EndedComplete
  <2> SUFFICES ASSUME AsyncInv, StreamInv, failures = 0, NEW r \in ended
               PROVE  \E s \in SeqIds : /\ source[s] = r
                                        /\ s \notin Range(waiting \o running \o held) \cup lost
                                        /\ IsSuffix(Output(s), received[r])
    BY DEF EndedComplete
  <2>1. waiting \in Seq(SeqIds) /\ running \in Seq(SeqIds) /\ held \in Seq(SeqIds)
    BY DEF AsyncInv, Placed
  <2> DEFINE queued == waiting \o running
  <2>2. queued \in Seq(SeqIds) /\ Range(queued) = Range(waiting) \cup Range(running)
    BY <2>1, ConcatProperties, RangeConcatenation
  <2> HIDE DEF queued
  <2>3. Range(queued \o held) \cup lost = Live
    BY <2>1, <2>2, RangeConcatenation DEF Live
  <2> QED BY <2>3 DEF StreamInv, Completed, queued
<1> QED BY <1>1, AsyncSafety, StreamsTell, PTL
=============================================================================
