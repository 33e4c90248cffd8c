---------------------------- MODULE EngineProofs ----------------------------
(***************************************************************************)
(* The engine under FCFS, decode-first or chunked prefill, for every pool, *)
(* every set of requests and every limit: it uses the allocator as a legal *)
(* caller, loses no request, keeps the order of service and the limits of  *)
(* a batch, and its KV cache holds what each sequence's own tokens produce.*)
(* And the engine under FCFS when its steps may fail.                      *)
(***************************************************************************)
EXTENDS Schedulers, EngineFailure, SchedulerProofs

-----------------------------------------------------------------------------

(* The chunked prefill loop ends: it shares the rest with FCFS.            *)
LEMMA EndChunkedPrefillKeeps ==
  ASSUME EngineInv, EndChunkedPrefill
  PROVE  EngineInv' /\ AllocatorStep
<1>1. /\ pc = "prefill" /\ batch_is_prefill' = TRUE
      /\ pc' = IF scheduled_seqs # <<>> THEN "run" ELSE "decode"
      /\ UNCHANGED <<bmVars, queueVars, seqVars, kv, scheduled_seqs,
                    num_batched_tokens, cur, processed>>
  BY DEF EndChunkedPrefill
<1>2. CASE scheduled_seqs # <<>>
  BY <1>1, <1>2, MovesOnKeeps DEF InDecodeLoop
<1>3. CASE scheduled_seqs = <<>>
  BY <1>1, <1>3, IntoDecodeKeeps
<1> QED BY <1>2, <1>3

(* A visit of the chunked prefill loop.                                    *)
LEMMA ChunkHeadKeeps ==
  ASSUME EngineInv, ChunkHead
  PROVE  EngineInv' /\ AllocatorStep
<1> USE DEF EngineInv, CoreInv
<1>1. pc = "prefill" /\ waiting # <<>> /\ remaining > 0
  BY DEF ChunkHead, CanVisitHead
<1>2. PICK s \in Seqs : s = Head(waiting) /\ status[s] = "WAITING"
  BY <1>1, HeadWaits
<1>3. PICK n \in Nat : n = chunk(s) /\ 0 < n /\ n <= num_tokens(s) /\ n <= remaining
  BY <1>1, <1>2, TokensLeft, BudgetLeft, ChunkAssumption DEF chunk, Smaller
<1>4. is_prefill' = is_prefill
  BY <1>2, MarkedAlready DEF ChunkHead
<1>5. /\ HasBlocks(s)
      /\ AllocateOnFirstVisit(s)
      /\ num_scheduled_tokens' = [num_scheduled_tokens EXCEPT ![s] = n]
      /\ num_batched_tokens' = num_batched_tokens + n
      /\ status' = IF n = num_tokens(s) THEN [status EXCEPT ![s] = "RUNNING"] ELSE status
      /\ waiting' = IF n = num_tokens(s) THEN Tail(waiting) ELSE Append(Tail(waiting), s)
      /\ running' = IF n = num_tokens(s) THEN Append(running, s) ELSE running
      /\ scheduled_seqs' = Append(scheduled_seqs, s)
      /\ UNCHANGED <<token_ids, request, pc, batch_is_prefill, cur, processed>>
  BY <1>2, <1>3 DEF ChunkHead, CanVisitHead, Rotated
<1>6. /\ waiting' \in Seq(Seqs) /\ IsInjective(waiting')
      /\ Range(waiting') = IF n = num_tokens(s) THEN Range(waiting) \ {s} ELSE Range(waiting)
  BY <1>1, <1>2, <1>5, HeadMoves
<1> QED BY <1>1, <1>2, <1>3, <1>4, <1>5, <1>6, VisitKeeps

(* The loop breaks after it allocated.                                     *)
LEMMA BreakOnSmallChunkKeeps ==
  ASSUME EngineInv, BreakOnSmallChunk
  PROVE  EngineInv' /\ AllocatorStep
<1> USE DEF EngineInv, CoreInv, Sound
<1>1. /\ pc = "prefill" /\ waiting # <<>> /\ pc' = "run" /\ batch_is_prefill' = TRUE
      /\ HasBlocks(Head(waiting)) /\ AllocateOnFirstVisit(Head(waiting))
      /\ UNCHANGED <<token_ids, queueVars, seqVars, scheduled_seqs,
                     num_batched_tokens, cur, processed>>
  BY DEF BreakOnSmallChunk, CanVisitHead
<1>2. PICK s \in Seqs : s = Head(waiting) /\ status[s] = "WAITING"
  BY <1>1, HeadWaits
<1>3. /\ AllocatorStep
      /\ num_cached_tokens'[s] \in Nat
      /\ num_cached_tokens'[s] + num_tokens(s) = Len(token_ids[s])
      /\ block_table'[s] # <<>> /\ Len(block_table'[s]) = num_blocks(s)
      /\ block_table[s] # <<>> => num_cached_tokens'[s] = num_cached_tokens[s]
      /\ \A r \in Seqs : r # s => /\ num_cached_tokens'[r] = num_cached_tokens[r]
                                  /\ block_table'[r] = block_table[r]
  BY <1>1, <1>2, VisitAllocates
<1>4. BMInv'
  BY <1>3, StepsAllocator
<1>5. Fields'
  BY <1>1 DEF Fields, seqVars
<1>6. Placed'
  BY <1>1 DEF Placed, Taken, InHand, InDecodeLoop, queueVars, seqVars
<1>7. BatchPlanned'
  <2>1. /\ Batch' = Batch /\ Pending' = Pending
        /\ UNCHANGED <<status, is_prefill, num_scheduled_tokens, scheduled_seqs, processed>>
    BY <1>1 DEF Batch, Pending, seqVars
  <2>2. ~ Decoding /\ ~ Decoding'
    BY <1>1 DEF Decoding, InDecodeLoop
  <2> QED BY <1>1, <2>1, <2>2 DEF BatchPlanned
<1>8. block_table[s] = <<>> => num_scheduled_tokens[s] = 0
  <2>1. num_scheduled_tokens[s] > 0 => s \in Pending
    BY DEF Exact, NoneStale
  <2>2. num_scheduled_tokens[s] > 0 => block_table[s] # <<>>
    BY <2>1 DEF ScheduledHold
  <2>3. num_scheduled_tokens[s] \in Nat
    BY DEF Fields
  <2> QED BY <2>2, <2>3
<1>9. TablesFit'
  <2> SUFFICES ASSUME NEW r \in Seqs PROVE TableFits(r)'
    BY DEF TablesFit
  <2>1. CASE r # s
    BY <1>1, <1>3, <2>1, TableFitsStill DEF TablesFit, seqVars
  <2>2. CASE r = s
    <3>1. /\ token_ids'[s] = token_ids[s] /\ num_blocks(s)' = num_blocks(s)
          /\ UNCHANGED <<status, request, is_prefill, num_scheduled_tokens>>
      BY <1>1 DEF num_blocks, seqVars
    <3>2. num_cached_tokens'[s] + num_scheduled_tokens[s] < Len(token_ids[s])
      <4>1. CASE block_table[s] = <<>>
        <5>1. num_tokens(s) \in Nat \ {0} /\ Len(token_ids[s]) \in Nat
          BY <1>2, TokensLeft DEF BMInv, BMTypeOK
        <5> QED BY <1>3, <1>8, <4>1, <5>1
      <4>2. CASE block_table[s] # <<>>
        BY <1>2, <1>3, <4>2 DEF TablesFit, TableFits
      <4> QED BY <4>1, <4>2
    <3>3. TableFits(s)
      BY DEF TablesFit
    <3>4. TableFits(s)'
      BY <1>2, <1>3, <3>1, <3>2, <3>3 DEF TableFits
    <3> QED BY <2>2, <3>4
  <2> QED BY <2>1, <2>2
<1>10. /\ Pending' = Pending /\ Taken = {} /\ Taken' = {} /\ InHand = {} /\ InHand' = {}
       /\ UNCHANGED <<status, running, num_scheduled_tokens>>
  BY <1>1 DEF Pending, Taken, InHand, InDecodeLoop, queueVars, seqVars
<1>11. ScheduledHold'
  <2> SUFFICES ASSUME NEW r \in Seqs, num_scheduled_tokens[r] > 0
               PROVE  r \in Pending <=> block_table'[r] # <<>>
    BY <1>10 DEF ScheduledHold
  <2>1. r \in Pending <=> block_table[r] # <<>>
    BY DEF ScheduledHold
  <2>2. r = s => block_table[s] # <<>>
    BY <1>8 DEF Fields
  <2> QED BY <1>3, <2>1, <2>2
<1>12. Exact'
  BY <1>1, <1>10 DEF Exact, NoneDropped, NoneStale
<1> QED BY <1>3, <1>4, <1>5, <1>6, <1>7, <1>9, <1>11, <1>12

(* A step of the policy that was chosen.                                   *)
LEMMA PolicyStepKeeps ==
  ASSUME EngineInv, PolicyStep
  PROVE  EngineInv' /\ AllocatorStep
<1>1. CASE EngineStep
  BY <1>1, StartStepKeeps, PrefillHeadKeeps, EndPrefillKeeps, CoreStepKeeps DEF EngineStep
<1>2. CASE DecodeFirstStep
  BY <1>2, StartStepKeeps, PrefillHeadKeeps, EndPrefillKeeps, CoreStepKeeps
     DEF DecodeFirstStep
<1>3. CASE ChunkedStep
  BY <1>3, StartStepKeeps, ChunkHeadKeeps, BreakOnSmallChunkKeeps,
     EndChunkedPrefillKeeps, CoreStepKeeps DEF ChunkedStep, StartChunkedStep
<1> QED BY <1>1, <1>2, <1>3 DEF PolicyStep

(* A step of the engine.                                                   *)
LEMMA NextKeeps ==
  ASSUME EngineInv, [SchedulersNext]_schedulersVars
  PROVE  EngineInv' /\ AllocatorStep
<1>1. CASE \E s \in Seqs : AddRequest(s)
  BY <1>1, AddRequestKeeps DEF EngineInv
<1>2. CASE PolicyStep
  BY <1>2, PolicyStepKeeps
<1>3. CASE UNCHANGED schedulersVars
  BY <1>3, StutterStep DEF schedulersVars, chunkedVars
<1> QED BY <1>1, <1>2, <1>3 DEF SchedulersNext

(* The inductive invariant holds, and every step uses the allocator as it  *)
(* may be used.                                                            *)
THEOREM EngineCorrect ==
  SchedulersSpec => []EngineInv /\ [][AllocatorStep]_schedulersVars
<1>1. SchedulersInit => EngineInv
  BY EngineInit DEF SchedulersInit, ChunkedInit
<1>2. EngineInv /\ [SchedulersNext]_schedulersVars => EngineInv' /\ AllocatorStep
  BY NextKeeps
<1> QED BY <1>1, <1>2, PTL DEF SchedulersSpec

(* The engine, under each of the three policies, is a legal caller of the  *)
(* allocator: whatever is proved of the allocator alone holds in it.       *)
THEOREM EngineUsesAllocator == SchedulersSpec => UsesBlockManager
<1>1. SchedulersInit => BMInit
  BY DEF SchedulersInit, ChunkedInit, CoreInit
<1>2. [AllocatorStep]_schedulersVars => [BMNext]_bmVars
  BY DEF AllocatorStep, schedulersVars, chunkedVars, vars
<1> QED BY <1>1, <1>2, EngineCorrect, PTL DEF SchedulersSpec, UsesBlockManager, BMSpec

(* No scheduling, preemption, chunk or completion loses or duplicates a    *)
(* request.                                                                *)
THEOREM RequestsKept == SchedulersSpec => []NoRequestLost
BY EngineCorrect, EachInOnePlace, PTL

(* A tensor-parallel worker gets the tokens of every sequence it is to     *)
(* prefill.                                                                *)
THEOREM TokensShipped == SchedulersSpec => []PrefillShipsTokens
<1>1. EngineInv => PrefillShipsTokens
  BY PrefilledWithTokens DEF EngineInv
<1> QED BY <1>1, EngineCorrect, PTL

-----------------------------------------------------------------------------

(* The order of service under FCFS and decode-first.  Identities are given *)
(* out in the order of arrival, and every place that holds requests during *)
(* a step is in order and before the next: the batch of the decode loop,   *)
(* the hand of that loop, running, waiting.                                *)
Arrivals == \A s, r \in Seqs : r < s /\ status[s] # "NEW" => status[r] # "NEW"

Ordered ==
  /\ Sorted(waiting) /\ Sorted(running)
  /\ InDecodeLoop => Sorted(scheduled_seqs)
  /\ Before(Taken, InHand)
  /\ Before(Taken \cup InHand, Range(running))
  /\ Before(Taken \cup InHand \cup Range(running), Range(waiting))

OrderInv == Arrivals /\ Ordered

(* Nobody arrives in a step that changes the status of old ones only.      *)
LEMMA ArrivalsStill ==
  ASSUME Arrivals, \A s \in Seqs : status'[s] = "NEW" <=> status[s] = "NEW"
  PROVE  Arrivals'
BY DEF Arrivals

(* The empty deque is in order.                                            *)
LEMMA EmptySorted == Sorted(<<>>)
BY DEF Sorted

(* A step that moves nobody.                                               *)
LEMMA SameOrder ==
  ASSUME OrderInv, UNCHANGED <<waiting, running, status>>,
         Taken' = Taken, InHand' = InHand, InDecodeLoop' => Sorted(scheduled_seqs')
  PROVE  OrderInv'
BY ArrivalsStill DEF OrderInv, Ordered

(* A step outside of the decode loop, or into it, that moves nobody.       *)
LEMMA OutOfLoopOrder ==
  ASSUME OrderInv, ~ InDecodeLoop, UNCHANGED <<waiting, running, status>>,
         \/ ~ InDecodeLoop'
         \/ pc' = "decode" /\ scheduled_seqs' = <<>>
  PROVE  OrderInv'
<1>1. Taken = {} /\ InHand = {}
  BY DEF Taken, InHand, InDecodeLoop
<1>2. Taken' = {} /\ InHand' = {}
  BY EmptyBatch DEF Taken, InHand, InDecodeLoop, Batch
<1> QED BY <1>1, <1>2, EmptySorted, SameOrder

(* Who arrives last joins the waiting deque at its back.                   *)
LEMMA AddRequestOrder ==
  ASSUME EngineInv, OrderInv, NEW s \in Seqs, AddRequest(s)
  PROVE  OrderInv'
<1> USE DEF EngineInv, CoreInv, Sound
<1>1. /\ pc = "idle" /\ status[s] = "NEW" /\ \A r \in Seqs : r < s => status[r] # "NEW"
      /\ status' = [status EXCEPT ![s] = "WAITING"] /\ waiting' = Append(waiting, s)
      /\ UNCHANGED <<running, stepVars>>
  BY DEF AddRequest
<1>2. Seqs \subseteq Int
  <2>1. Cardinality(Seqs) \in Nat
    BY SeqsAssumption, FS_CardinalityType
  <2>2. 1 .. Cardinality(Seqs) \subseteq Int
    BY <2>1
  <2> QED BY <2>2, SeqIdsAssumption
<1>3. \A r \in Seqs : status'[r] = IF r = s THEN "WAITING" ELSE status[r]
  BY <1>1 DEF Fields
<1>4. \A r \in Seqs : status[r] # "NEW" => r < s
  BY <1>1, <1>2 DEF OrderInv, Arrivals
<1>5. Arrivals'
  BY <1>1, <1>2, <1>3 DEF OrderInv, Arrivals
<1>6. Taken = {} /\ InHand = {} /\ Taken' = {} /\ InHand' = {} /\ ~ InDecodeLoop'
  BY <1>1 DEF Taken, InHand, InDecodeLoop, stepVars
<1>7. Range(waiting) \subseteq Seqs /\ Range(running) \subseteq Seqs
  BY LenProperties DEF Placed, Range
<1>8. Before(Range(waiting), {s}) /\ Before(Range(running), {s})
  <2>1. \A r \in Range(waiting) \cup Range(running) : status[r] # "NEW"
    BY <1>7 DEF Placed
  <2> QED BY <1>4, <1>7, <2>1 DEF Before
<1>9. Sorted(waiting') /\ Range(waiting') = Range(waiting) \cup {s}
  BY <1>1, <1>8, Appended, SortedAppended DEF Placed, OrderInv, Ordered
<1> QED BY <1>1, <1>5, <1>6, <1>8, <1>9 DEF OrderInv, Ordered, Before

(* The head of waiting, younger than every running sequence, joins them.   *)
LEMMA PrefillHeadOrder ==
  ASSUME EngineInv, OrderInv, PrefillHead
  PROVE  OrderInv'
<1> USE DEF EngineInv, CoreInv, Sound
<1>1. pc = "prefill" /\ pc' = "prefill" /\ waiting # <<>>
  BY DEF PrefillHead, CanPrefillHead
<1>2. ~ InDecodeLoop /\ ~ InDecodeLoop'
  BY <1>1 DEF InDecodeLoop
<1>3. CASE UNCHANGED <<status, queueVars>>
  BY <1>2, <1>3, OutOfLoopOrder DEF queueVars
<1>4. CASE ~ UNCHANGED <<status, queueVars>>
  <2>1. PICK s \in Seqs : s = Head(waiting) /\ status[s] = "WAITING"
    BY <1>1, HeadWaits
  <2>2. /\ status' = [status EXCEPT ![s] = "RUNNING"]
        /\ waiting' = Tail(waiting) /\ running' = Append(running, s)
    BY <1>4, <2>1 DEF PrefillHead
  <2>3. Arrivals'
    <3>1. \A r \in Seqs : status'[r] = "NEW" <=> status[r] = "NEW"
      BY <2>1, <2>2 DEF Fields
    <3> QED BY <3>1, ArrivalsStill DEF OrderInv
  <2>4. /\ Sorted(waiting') /\ Before({s}, Range(waiting'))
        /\ Range(waiting) = {s} \cup Range(waiting')
    BY <1>1, <2>1, <2>2, Popped, SortedPopped DEF Placed, OrderInv, Ordered
  <2>5. Before(Range(running), {s}) /\ Before(Range(running), Range(waiting'))
    BY <2>4 DEF OrderInv, Ordered, Before
  <2>6. Sorted(running') /\ Range(running') = Range(running) \cup {s}
    BY <2>2, <2>5, Appended, SortedAppended DEF Placed, OrderInv, Ordered
  <2>7. Taken' = {} /\ InHand' = {}
    BY <1>1, <1>2 DEF Taken, InHand
  <2> QED BY <1>2, <2>3, <2>4, <2>5, <2>6, <2>7 DEF OrderInv, Ordered, Before
<1> QED BY <1>3, <1>4

(* The oldest running sequence is after the batch and before the others.   *)
LEMMA PopRunningOrder ==
  ASSUME EngineInv, OrderInv, PopRunning
  PROVE  OrderInv'
<1> USE DEF EngineInv, CoreInv, Sound
<1>1. /\ pc = "decode" /\ pc' = "append" /\ running # <<>> /\ cur' = Head(running)
      /\ running' = Tail(running) /\ UNCHANGED <<waiting, scheduled_seqs, status>>
  BY DEF PopRunning, CanDecode, seqVars
<1>2. /\ Sorted(running') /\ Before({cur'}, Range(running'))
      /\ Range(running) = {cur'} \cup Range(running')
  BY <1>1, Popped, SortedPopped DEF Placed, OrderInv, Ordered
<1>3. Taken' = Taken /\ InHand = {} /\ InHand' = {cur'} /\ InDecodeLoop
  BY <1>1 DEF Taken, InHand, InDecodeLoop, Batch
<1>4. /\ Sorted(waiting) /\ Sorted(scheduled_seqs)
      /\ Before(Taken, Range(running))
      /\ Before(Taken \cup Range(running), Range(waiting))
  BY <1>3 DEF OrderInv, Ordered, Before
<1>5. Arrivals'
  BY <1>1, ArrivalsStill DEF OrderInv
<1>6. Ordered'
  BY <1>1, <1>2, <1>3, <1>4 DEF Ordered, Before
<1> QED BY <1>5, <1>6 DEF OrderInv

(* The victim is the youngest that is not waiting: it becomes the oldest   *)
(* that is.                                                                *)
LEMMA PreemptNewestOrder ==
  ASSUME EngineInv, OrderInv, PreemptNewest
  PROVE  OrderInv'
<1> USE DEF EngineInv, CoreInv, Sound
<1>1. /\ pc = "append" /\ running # <<>> /\ preempt(running[Len(running)])
      /\ running' = SubSeq(running, 1, Len(running) - 1)
      /\ UNCHANGED <<stepVars>>
  BY DEF PreemptNewest
<1>2. PICK s \in Seqs :
        /\ s = running[Len(running)]
        /\ Sorted(running') /\ Before(Range(running'), {s})
        /\ Range(running) = {s} \cup Range(running')
  BY <1>1, Shortened, SortedShortened DEF Placed, OrderInv, Ordered, Last, Front
<1>3. /\ status' = [status EXCEPT ![s] = "WAITING"] /\ waiting' = <<s>> \o waiting
      /\ status[s] = "RUNNING"
  BY <1>1, <1>2 DEF preempt, Placed
<1>4. Arrivals'
  <2>1. \A r \in Seqs : status'[r] = "NEW" <=> status[r] = "NEW"
    BY <1>3 DEF Fields
  <2> QED BY <2>1, ArrivalsStill DEF OrderInv
<1>5. Taken' = Taken /\ InHand' = InHand /\ InDecodeLoop /\ scheduled_seqs' = scheduled_seqs
  BY <1>1 DEF Taken, InHand, InDecodeLoop, Batch, stepVars
<1>6. /\ Sorted(waiting) /\ Sorted(scheduled_seqs) /\ Before(Taken, InHand)
      /\ Before(Taken \cup InHand, Range(running))
      /\ Before(Taken \cup InHand \cup Range(running), Range(waiting))
  BY <1>5 DEF OrderInv, Ordered
<1>7. Before({s}, Range(waiting))
  BY <1>2, <1>6 DEF Before
<1>8. Sorted(waiting') /\ Range(waiting') = Range(waiting) \cup {s}
  BY <1>3, <1>6, <1>7, Pushed, SortedPushed DEF Placed
<1>9. Ordered'
  BY <1>2, <1>5, <1>6, <1>8 DEF Ordered, Before
<1> QED BY <1>4, <1>9 DEF OrderInv

(* The one in hand is before all who wait.                                 *)
LEMMA PreemptSelfOrder ==
  ASSUME EngineInv, OrderInv, PreemptSelf
  PROVE  OrderInv'
<1> USE DEF EngineInv, CoreInv, Sound
<1>1. /\ pc = "append" /\ pc' = "decode" /\ running = <<>> /\ preempt(cur)
      /\ UNCHANGED <<running, scheduled_seqs>>
  BY DEF PreemptSelf
<1>2. PICK s \in Seqs : s = cur
  BY <1>1 DEF Placed
<1>3. /\ status' = [status EXCEPT ![s] = "WAITING"] /\ waiting' = <<s>> \o waiting
      /\ status[s] = "RUNNING"
  BY <1>1, <1>2 DEF preempt, Placed, InHand
<1>4. Arrivals'
  <2>1. \A r \in Seqs : status'[r] = "NEW" <=> status[r] = "NEW"
    BY <1>3 DEF Fields
  <2> QED BY <2>1, ArrivalsStill DEF OrderInv
<1>5. Taken' = Taken /\ InHand = {s} /\ InHand' = {} /\ InDecodeLoop
      /\ scheduled_seqs' = scheduled_seqs /\ Range(running) = {} /\ Range(running') = {}
  BY <1>1, <1>2, EmptyBatch DEF Taken, InHand, InDecodeLoop, Batch
<1>6. /\ Sorted(waiting) /\ Sorted(scheduled_seqs) /\ Before(Taken, {s})
      /\ Before(Taken \cup {s}, Range(waiting))
  BY <1>5 DEF OrderInv, Ordered, Before
<1>7. Before({s}, Range(waiting))
  BY <1>6 DEF Before
<1>8. Sorted(waiting') /\ Range(waiting') = Range(waiting) \cup {s}
  BY <1>3, <1>6, <1>7, Pushed, SortedPushed DEF Placed
<1>9. Ordered'
  <2>1. Sorted(running')
    BY <1>1, EmptySorted
  <2> QED BY <1>5, <1>6, <1>8, <2>1 DEF Ordered, Before
<1> QED BY <1>4, <1>9 DEF OrderInv

(* The one in hand is after all who are in the batch.                      *)
LEMMA DecodeCurOrder ==
  ASSUME EngineInv, OrderInv, DecodeCur
  PROVE  OrderInv'
<1> USE DEF EngineInv, CoreInv, Sound
<1>1. /\ pc = "append" /\ pc' = "decode" /\ scheduled_seqs' = Append(scheduled_seqs, cur)
      /\ UNCHANGED <<status, waiting, running>>
  BY DEF DecodeCur, queueVars
<1>2. PICK s \in Seqs : s = cur
  BY <1>1 DEF Placed
<1>3. Taken = Batch /\ InHand = {s} /\ InHand' = {} /\ InDecodeLoop /\ InDecodeLoop'
  BY <1>1, <1>2 DEF Taken, InHand, InDecodeLoop
<1>4. Sorted(scheduled_seqs) /\ Before(Range(scheduled_seqs), {s})
  BY <1>3 DEF OrderInv, Ordered, Batch
<1>5. Sorted(scheduled_seqs') /\ Batch' = Batch \cup {s}
  BY <1>1, <1>2, <1>4, Appended, SortedAppended DEF Fields, Batch
<1>6. Taken' = Taken \cup InHand
  BY <1>3, <1>5 DEF Taken
<1>7. Arrivals'
  BY <1>1, ArrivalsStill DEF OrderInv
<1>8. Ordered'
  BY <1>1, <1>3, <1>5, <1>6 DEF OrderInv, Ordered, Before
<1> QED BY <1>7, <1>8 DEF OrderInv

(* The batch returns to the front of the running deque.                    *)
LEMMA EndDecodeOrder ==
  ASSUME EngineInv, OrderInv, EndDecode("raised") \/ EndDecode("prefill")
  PROVE  OrderInv'
<1> USE DEF EngineInv, CoreInv, Sound
<1>1. /\ pc = "decode" /\ pc' \in {"run", "raised", "prefill"}
      /\ running' = scheduled_seqs \o running
      /\ UNCHANGED <<status, waiting, scheduled_seqs>>
  BY DEF EndDecode, Requeued, seqVars
<1>2. Taken = Batch /\ InHand = {} /\ Taken' = {} /\ InHand' = {} /\ InDecodeLoop
      /\ ~ InDecodeLoop' /\ Decoding
  BY <1>1 DEF Taken, InHand, InDecodeLoop, Decoding
<1>3. /\ scheduled_seqs \in Seq(Seqs) /\ running \in Seq(Seqs)
      /\ IsInjective(scheduled_seqs) /\ IsInjective(running)
      /\ Range(scheduled_seqs) \cap Range(running) = {}
  BY <1>2 DEF Fields, Placed, BatchPlanned, Batch
<1>4. /\ Sorted(scheduled_seqs) /\ Sorted(running) /\ Sorted(waiting)
      /\ Before(Range(scheduled_seqs), Range(running))
      /\ Before(Range(scheduled_seqs) \cup Range(running), Range(waiting))
  BY <1>2 DEF OrderInv, Ordered, Batch, Before
<1>5. /\ Sorted(running')
      /\ Range(running') = Range(scheduled_seqs) \cup Range(running)
  BY <1>1, <1>3, <1>4, JoinInjective, SortedJoined
<1>6. Arrivals'
  BY <1>1, ArrivalsStill DEF OrderInv
<1>7. Ordered'
  BY <1>1, <1>2, <1>4, <1>5 DEF Ordered, Before
<1> QED BY <1>6, <1>7 DEF OrderInv

(* A finished sequence leaves the running deque in order.                  *)
LEMMA PostprocessOneOrder ==
  ASSUME EngineInv, OrderInv, NEW t \in Token, PostprocessOne(t)
  PROVE  OrderInv'
<1> USE DEF EngineInv, CoreInv, Sound
<1>1. pc = "post" /\ pc' = "post" /\ processed < Len(scheduled_seqs) /\ waiting' = waiting
  BY DEF PostprocessOne
<1>2. PICK s \in Seqs : s = scheduled_seqs[processed + 1] /\ status[s] # "NEW"
  BY <1>1, NextOfBatch
<1>3. ~ InDecodeLoop /\ ~ InDecodeLoop'
  BY <1>1 DEF InDecodeLoop
<1>4. \/ UNCHANGED <<status, running>>
      \/ /\ status' = [status EXCEPT ![s] = "FINISHED"]
         /\ running' = Without(running, {s})
  BY <1>2 DEF PostprocessOne
<1>5. CASE UNCHANGED <<status, running>>
  BY <1>1, <1>3, <1>5, OutOfLoopOrder
<1>6. CASE /\ status' = [status EXCEPT ![s] = "FINISHED"]
           /\ running' = Without(running, {s})
  <2>1. Arrivals'
    <3>1. \A r \in Seqs : status'[r] = "NEW" <=> status[r] = "NEW"
      BY <1>2, <1>6 DEF Fields
    <3> QED BY <3>1, ArrivalsStill DEF OrderInv
  <2>2. Sorted(running') /\ Range(running') \subseteq Range(running)
    BY <1>6, WithoutProperties, SortedWithout DEF Placed, OrderInv, Ordered
  <2>3. Taken' = {} /\ InHand' = {}
    BY <1>1, <1>3 DEF Taken, InHand
  <2>4. Ordered'
    BY <1>1, <1>3, <2>2, <2>3 DEF OrderInv, Ordered, Before
  <2> QED BY <2>1, <2>4 DEF OrderInv
<1> QED BY <1>4, <1>5, <1>6

(* The steps that move nobody.                                             *)
LEMMA OtherStepsOrder ==
  ASSUME EngineInv, OrderInv,
         \/ StartStep("prefill") \/ StartStep("decode")
         \/ EndPrefill("decode") \/ EndPrefill("raised")
         \/ RunModel \/ EndStep
  PROVE  OrderInv'
<1>1. /\ ~ InDecodeLoop /\ UNCHANGED <<waiting, running, status>>
      /\ ~ InDecodeLoop' \/ (pc' = "decode" /\ scheduled_seqs' = <<>>)
  BY DEF StartStep, EndPrefill, RunModel, EndStep, InDecodeLoop, queueVars, seqVars,
         EngineInv, CoreInv, Sound, BatchPlanned, bmVars
<1> QED BY <1>1, OutOfLoopOrder

(* A step of the engine under FCFS or decode-first.                        *)
LEMMA NextOrder ==
  ASSUME EngineInv, scheduler_name # "chunked_prefill" => OrderInv,
         [SchedulersNext]_schedulersVars
  PROVE  (scheduler_name # "chunked_prefill" => OrderInv)'
<1>1. scheduler_name' = scheduler_name
  BY DEF SchedulersNext, PolicyStep, schedulersVars
<1> SUFFICES ASSUME scheduler_name # "chunked_prefill" PROVE OrderInv'
  BY <1>1
<1>2. OrderInv
  OBVIOUS
<1>3. CASE \E s \in Seqs : AddRequest(s)
  BY <1>2, <1>3, AddRequestOrder
<1>4. CASE EngineStep \/ DecodeFirstStep
  BY <1>2, <1>4, OtherStepsOrder, PrefillHeadOrder, PopRunningOrder, PreemptNewestOrder,
     PreemptSelfOrder, DecodeCurOrder, EndDecodeOrder, PostprocessOneOrder
     DEF EngineStep, DecodeFirstStep, DecodePhase, RunAndPostprocess
<1>5. CASE UNCHANGED schedulersVars
  <2>1. UNCHANGED <<queueVars, stepVars, seqVars>>
    BY <1>5 DEF schedulersVars, chunkedVars, vars
  <2>2. Taken' = Taken /\ InHand' = InHand /\ InDecodeLoop' = InDecodeLoop
        /\ UNCHANGED <<waiting, running, status, scheduled_seqs>>
    BY <2>1 DEF Taken, InHand, InDecodeLoop, Batch, queueVars, stepVars, seqVars
  <2> QED BY <1>2, <2>2, SameOrder DEF OrderInv, Ordered
<1> QED BY <1>3, <1>4, <1>5 DEF SchedulersNext, PolicyStep

(* Every place in order and before the next: so is the list of them all.   *)
LEMMA HeldInOrder == EngineInv /\ OrderInv => ArrivalOrder
<1> SUFFICES ASSUME EngineInv, OrderInv PROVE Sorted(Held)
  BY DEF Sorted, ArrivalOrder
<1> USE DEF EngineInv, CoreInv, Sound
<1> DEFINE taken == IF InDecodeLoop THEN scheduled_seqs ELSE <<>>
           hand  == IF cur # NoSeq THEN <<cur>> ELSE <<>>
<1>1. /\ taken \in Seq(Seqs) /\ IsInjective(taken) /\ Range(taken) = Taken /\ Sorted(taken)
  <2>1. CASE InDecodeLoop
    BY <2>1 DEF Fields, BatchPlanned, Decoding, Taken, Batch, OrderInv, Ordered
  <2>2. CASE ~ InDecodeLoop
    BY <2>2, EmptyBatch, EmptySorted DEF Taken
  <2> QED BY <2>1, <2>2
<1>2. /\ hand \in Seq(Seqs) /\ IsInjective(hand) /\ Range(hand) = InHand /\ Sorted(hand)
  <2>1. CASE pc = "append"
    BY <2>1, Singleton DEF Placed, InHand, Sorted
  <2>2. CASE pc # "append"
    BY <2>2, EmptyBatch, EmptySorted DEF Placed, InHand
  <2> QED BY <2>1, <2>2
<1>3. /\ waiting \in Seq(Seqs) /\ IsInjective(waiting)
      /\ running \in Seq(Seqs) /\ IsInjective(running)
  BY DEF Placed
<1>4. /\ Sorted(waiting) /\ Sorted(running) /\ Before(Taken, InHand)
      /\ Before(Taken \cup InHand, Range(running))
      /\ Before(Taken \cup InHand \cup Range(running), Range(waiting))
  BY DEF OrderInv, Ordered
<1>5. Taken \cap InHand = {} /\ (Taken \cup InHand) \cap Range(running) = {}
  BY DEF Placed, InHand, Taken, InDecodeLoop
<1> DEFINE a == taken \o hand
           b == a \o running
<1>6. Held = b \o waiting
  BY DEF Held
<1> HIDE DEF taken, hand
<1>7. a \in Seq(Seqs) /\ IsInjective(a) /\ Range(a) = Taken \cup InHand /\ Sorted(a)
  BY <1>1, <1>2, <1>4, <1>5, JoinInjective, SortedJoined
<1> HIDE DEF a
<1>8. b \in Seq(Seqs) /\ Range(b) = Taken \cup InHand \cup Range(running) /\ Sorted(b)
  <2>1. b \in Seq(Seqs) /\ Range(b) = Range(a) \cup Range(running)
    BY <1>3, <1>5, <1>7, JoinInjective
  <2>2. Sorted(b)
    BY <1>3, <1>4, <1>7, SortedJoined
  <2> QED BY <1>7, <2>1, <2>2
<1> HIDE DEF b
<1> QED BY <1>3, <1>4, <1>6, <1>8, SortedJoined

(* Requests are served in the order of their arrival under FCFS and under  *)
(* decode-first, preemptions included.                                     *)
THEOREM OrderKept == SchedulersSpec => []ServedInOrder
<1> DEFINE I == scheduler_name # "chunked_prefill" => OrderInv
<1>1. SchedulersInit => I
  BY EmptyBatch, EmptySorted DEF SchedulersInit, ChunkedInit, CoreInit, OrderInv, Arrivals,
     Ordered, Before, Taken, InHand, InDecodeLoop
<1>2. EngineInv /\ I /\ [SchedulersNext]_schedulersVars => I'
  BY NextOrder
<1>3. EngineInv /\ I => ServedInOrder
  BY HeldInOrder DEF ServedInOrder
<1> HIDE DEF I
<1> QED BY <1>1, <1>2, <1>3, EngineCorrect, PTL DEF SchedulersSpec

-----------------------------------------------------------------------------

(* The refinement of InferenceService.  A chunk of a prefill is not seen.  *)
LEMMA ChunksUnseen ==
  ASSUME CoreInv, ChunkHead \/ BreakOnSmallChunk \/ EndChunkedPrefill
  PROVE  Unseen
<1>1. CASE ChunkHead
  <2>1. waiting # <<>> /\ UNCHANGED <<token_ids, request>>
    BY <1>1 DEF ChunkHead, CanVisitHead
  <2>2. PICK s \in Seqs : s = Head(waiting) /\ status[s] = "WAITING"
    BY <2>1, HeadWaits DEF CoreInv
  <2>3. status' = [status EXCEPT ![s] = "RUNNING"] \/ status' = status
    BY <1>1, <2>2 DEF ChunkHead
  <2>4. CASE status' = status
    BY <2>1, <2>4 DEF Unseen
  <2> QED BY <2>1, <2>2, <2>3, <2>4, StatusMoves DEF CoreInv, Sound
<1>2. CASE BreakOnSmallChunk \/ EndChunkedPrefill
  BY <1>2 DEF BreakOnSmallChunk, EndChunkedPrefill, Unseen, bmVars, seqVars
<1> QED BY <1>1, <1>2

(* All the steps between an arrival and the sampled tokens.                *)
LEMMA PolicyUnseen ==
  ASSUME CoreInv, PolicyStep, \A t \in Token : ~ PostprocessOne(t)
  PROVE  Unseen
BY ScheduleUnseen, ChunksUnseen
   DEF PolicyStep, EngineStep, DecodeFirstStep, ChunkedStep, StartChunkedStep,
       RunAndPostprocess

(* Every step of the engine is one of the service, or is not seen there.   *)
LEMMA StepsAreServed ==
  ASSUME CoreInv, PromptsKept, [SchedulersNext]_schedulersVars
  PROVE  [Service!ServiceNext]_(Service!serviceVars) /\ PromptsKept'
<1>1. CASE \E s \in Seqs : AddRequest(s)
  BY <1>1, ArrivalAccepted DEF Service!ServiceNext
<1>2. CASE \E t \in Token : PostprocessOne(t)
  BY <1>2, TokenEmitted DEF Service!ServiceNext, Service!EmitSome
<1>3. CASE PolicyStep /\ \A t \in Token : ~ PostprocessOne(t)
  BY <1>3, PolicyUnseen, UnseenStutters
<1>4. CASE UNCHANGED schedulersVars
  <2>1. Unseen
    BY <1>4 DEF schedulersVars, chunkedVars, vars, bmVars, seqVars, Unseen
  <2> QED BY <2>1, UnseenStutters
<1> QED BY <1>1, <1>2, <1>3, <1>4 DEF SchedulersNext

(* What the engine does is, to its clients, what InferenceService allows:  *)
(* no token of a request is lost, changed or generated past its end.       *)
THEOREM EngineServes == SchedulersSpec => KeepsServiceSafe
<1>1. SchedulersInit => Service!ServiceInit /\ PromptsKept
  BY ServiceStarts DEF SchedulersInit, ChunkedInit
<1>2. EngineInv /\ PromptsKept /\ [SchedulersNext]_schedulersVars
        => [Service!ServiceNext]_(Service!serviceVars) /\ PromptsKept'
  BY StepsAreServed DEF EngineInv
<1> QED BY <1>1, <1>2, EngineCorrect, PTL DEF SchedulersSpec, KeepsServiceSafe

-----------------------------------------------------------------------------

(* The oldest request.  What stands between it and its next block is a     *)
(* waiting sequence that holds blocks, as it was prefilled in part.        *)
Partials == {s \in Seqs : status[s] = "WAITING" /\ block_table[s] # <<>>}

(* There is one such sequence at most, the head of waiting; FCFS prefills  *)
(* it before anybody decodes, and decode-first has nobody running while    *)
(* there is one.                                                           *)
PartialInv ==
  /\ \A s \in Partials : waiting # <<>> /\ s = Head(waiting)
  /\ scheduled_seqs = <<>> => num_batched_tokens = 0
  /\ scheduler_name = "fcfs" /\ InDecodeLoop => Partials = {}
  /\ scheduler_name = "decode_first" =>
       /\ pc = "prefill" /\ scheduled_seqs = <<>> => running = <<>>
       /\ \/ Partials = {}
          \/ running = <<>> /\ pc # "append" /\ (InDecodeLoop => scheduled_seqs = <<>>)

(* No other sequence holds blocks while one of these policies decodes.     *)
LEMMA NoneWhileAppending ==
  ASSUME PartialInv, pc = "append", scheduler_name \in {"fcfs", "decode_first"}
  PROVE  Partials = {}
BY DEF PartialInv, InDecodeLoop

(* Preemption and the call of may_append leave none either.                *)
LEMMA AppendingPartials ==
  ASSUME EngineInv, PartialInv, scheduler_name \in {"fcfs", "decode_first"},
         scheduler_name' = scheduler_name,
         PreemptNewest \/ PreemptSelf \/ DecodeCur
  PROVE  PartialInv'
<1> USE DEF EngineInv, CoreInv, Sound
<1>1. pc = "append"
  BY DEF PreemptNewest, PreemptSelf, DecodeCur
<1>2. Partials = {}
  BY <1>1, NoneWhileAppending
<1>3. /\ status \in [Seqs -> {"NEW", "WAITING", "RUNNING", "FINISHED"}]
      /\ block_table \in [Seqs -> Seq(Blocks)]
  BY DEF Fields, BMInv, BMTypeOK
<1>4. Partials' = {}
  <2> SUFFICES ASSUME NEW r \in Seqs, status'[r] = "WAITING" PROVE block_table'[r] = <<>>
    BY DEF Partials
  <2>1. CASE PreemptNewest \/ PreemptSelf
    <3>1. PICK s : preempt(s)
      BY <2>1 DEF PreemptNewest, PreemptSelf
    <3>2. CASE r = s
      BY <1>3, <3>1, <3>2 DEF preempt, deallocate
    <3>3. CASE r # s
      BY <1>2, <1>3, <3>1, <3>3 DEF preempt, deallocate, Partials
    <3> QED BY <3>2, <3>3
  <2>2. CASE DecodeCur
    <3>1. status[cur] = "RUNNING" /\ cur \in Seqs /\ UNCHANGED status
      BY <1>1, <2>2 DEF DecodeCur, Placed, InHand
    <3>2. r # cur
      BY <3>1
    <3>3. may_append(cur)
      BY <2>2 DEF DecodeCur
    <3>4. block_table'[r] = block_table[r]
      BY <1>3, <3>2, <3>3 DEF may_append
    <3> QED BY <1>2, <3>1, <3>4 DEF Partials
  <2> QED BY <2>1, <2>2
<1>5. CASE PreemptNewest \/ PreemptSelf
  <2>1. UNCHANGED <<scheduled_seqs, num_batched_tokens>> /\ pc' # "prefill"
    BY <1>1, <1>5 DEF PreemptNewest, PreemptSelf, stepVars
  <2> QED BY <1>4, <2>1 DEF PartialInv
<1>6. CASE DecodeCur
  <2>1. scheduled_seqs' = Append(scheduled_seqs, cur) /\ pc' = "decode"
    BY <1>6 DEF DecodeCur
  <2>2. scheduled_seqs \in Seq(Seqs) /\ cur \in Seqs
    BY <1>1 DEF Fields, Placed
  <2>3. scheduled_seqs' # <<>>
    BY <2>1, <2>2
  <2> QED BY <1>4, <2>1, <2>3 DEF PartialInv
<1> QED BY <1>5, <1>6

(* The head of waiting: it is the only one prefilled in part, and then     *)
(* first of its batch.                                                     *)
LEMMA PrefillHeadPartials ==
  ASSUME EngineInv, PartialInv, scheduler_name \in {"fcfs", "decode_first"},
         scheduler_name' = scheduler_name, PrefillHead
  PROVE  PartialInv'
<1> USE DEF EngineInv, CoreInv, Sound
<1> DEFINE s == Head(waiting)
           n == Smaller(num_tokens(s), remaining)
<1>1. /\ pc = "prefill" /\ pc' = "prefill" /\ waiting # <<>> /\ remaining # 0
      /\ remaining < num_tokens(s) => scheduled_seqs = <<>>
      /\ scheduled_seqs' = Append(scheduled_seqs, s)
      /\ IF n = num_tokens(s)
         THEN /\ status' = [status EXCEPT ![s] = "RUNNING"]
              /\ waiting' = Tail(waiting)
              /\ running' = Append(running, s)
         ELSE UNCHANGED <<status, waiting, running>>
  BY DEF PrefillHead, CanPrefillHead, queueVars
<1>2. s \in Seqs /\ status[s] = "WAITING"
  BY <1>1, HeadWaits
<1>3. /\ status \in [Seqs -> {"NEW", "WAITING", "RUNNING", "FINISHED"}]
      /\ block_table \in [Seqs -> Seq(Blocks)] /\ scheduled_seqs \in Seq(Seqs)
  BY DEF Fields, BMInv, BMTypeOK
<1> HIDE DEF s, n
<1>4. ~ InDecodeLoop' /\ scheduled_seqs' # <<>>
  BY <1>1, <1>2, <1>3 DEF InDecodeLoop
<1>5. \A r \in Seqs : r # s => block_table'[r] = block_table[r]
  BY <1>3 DEF PrefillHead, AllocateOnFirstVisit, allocate, s
<1>6. Partials \subseteq {s}
  BY DEF PartialInv, s
<1>7. Partials' \subseteq {s}
  <2>1. \A r \in Seqs : r # s => status'[r] = status[r]
    BY <1>1, <1>3
  <2> QED BY <1>5, <1>6, <2>1 DEF Partials
<1>8. CASE n = num_tokens(s)
  <2>1. status'[s] = "RUNNING"
    BY <1>1, <1>2, <1>3, <1>8
  <2>2. Partials' = {}
    BY <1>7, <2>1 DEF Partials
  <2> QED BY <1>4, <2>2 DEF PartialInv
<1>9. CASE n # num_tokens(s)
  <2>1. n = remaining /\ remaining < num_tokens(s)
    <3>1. remaining \in Nat /\ num_tokens(s) \in Nat
      BY <1>2, BudgetLeft, TokensLeft
    <3> QED BY <1>9, <3>1 DEF n, Smaller
  <2>2. scheduled_seqs = <<>> /\ UNCHANGED <<waiting, running>>
    BY <1>1, <1>9, <2>1
  <2>3. scheduler_name = "decode_first" => running' = <<>>
    BY <1>1, <2>2 DEF PartialInv
  <2>4. \A r \in Partials' : waiting' # <<>> /\ r = Head(waiting')
    BY <1>1, <1>7, <2>2 DEF s
  <2> QED BY <1>1, <1>4, <2>3, <2>4 DEF PartialInv
<1> QED BY <1>8, <1>9

(* Decoding starts, under FCFS, only when the head of waiting could not be *)
(* given blocks, which a sequence that holds them need not be.             *)
LEMMA EndPrefillPartials ==
  ASSUME EngineInv, PartialInv, scheduler_name' = scheduler_name,
         \/ scheduler_name = "fcfs" /\ EndPrefill("decode")
         \/ scheduler_name = "decode_first" /\ EndPrefill("raised")
  PROVE  PartialInv'
<1>1. /\ pc = "prefill" /\ ~ CanPrefillHead
      /\ pc' = IF scheduled_seqs # <<>> THEN "run"
               ELSE IF scheduler_name = "fcfs" THEN "decode" ELSE "raised"
      /\ UNCHANGED <<block_table, status, waiting, running, scheduled_seqs,
                     num_batched_tokens>>
  BY DEF EndPrefill, bmVars, queueVars, seqVars
<1>2. Partials' = Partials
  BY <1>1 DEF Partials
<1>3. ASSUME scheduled_seqs = <<>>, NEW s \in Partials PROVE FALSE
  <2>1. waiting # <<>> /\ s = Head(waiting) /\ num_batched_tokens = 0
    BY <1>3 DEF PartialInv
  <2>2. HasBlocks(Head(waiting))
    BY <2>1 DEF Partials, HasBlocks
  <2>3. remaining # 0
    BY <2>1, LimitsAssumption DEF remaining
  <2>4. Len(scheduled_seqs) < MaxNumSeqs
    BY <1>3, EmptyBatch, LimitsAssumption
  <2> QED BY <1>1, <1>3, <2>1, <2>2, <2>3, <2>4 DEF CanPrefillHead
<1>4. pc' # "append" /\ pc' # "prefill" /\ (InDecodeLoop' => scheduled_seqs = <<>>)
  BY <1>1 DEF InDecodeLoop
<1>5. InDecodeLoop' => Partials' = {}
  BY <1>2, <1>3, <1>4
<1> QED BY <1>1, <1>2, <1>4, <1>5 DEF PartialInv

(* The decode loop ends; decode-first goes on to prefill when nobody runs. *)
LEMMA EndDecodePartials ==
  ASSUME EngineInv, PartialInv, scheduler_name' = scheduler_name,
         \/ scheduler_name = "fcfs" /\ EndDecode("raised")
         \/ scheduler_name = "decode_first" /\ EndDecode("prefill")
  PROVE  PartialInv'
<1>1. /\ pc = "decode" /\ ~ CanDecode /\ running' = Requeued
      /\ pc' = IF scheduled_seqs # <<>> THEN "run"
               ELSE IF scheduler_name = "fcfs" THEN "raised" ELSE "prefill"
      /\ UNCHANGED <<block_table, status, waiting, scheduled_seqs, num_batched_tokens>>
  BY DEF EndDecode, bmVars, seqVars
<1>2. Partials' = Partials /\ InDecodeLoop /\ ~ InDecodeLoop' /\ pc' # "append"
  BY <1>1 DEF Partials, InDecodeLoop
<1>3. ASSUME scheduled_seqs = <<>> PROVE running = <<>> /\ running' = <<>>
  <2>1. Len(scheduled_seqs) < MaxNumSeqs
    BY <1>3, EmptyBatch, LimitsAssumption
  <2>2. running = <<>>
    BY <1>1, <2>1 DEF CanDecode
  <2>3. <<>> \o <<>> = <<>>
    BY EmptyBatch, ConcatEmptySeq
  <2> QED BY <1>1, <1>3, <2>2, <2>3 DEF Requeued
<1>4. scheduler_name = "decode_first" => Partials = {} \/ scheduled_seqs = <<>>
  BY <1>2 DEF PartialInv
<1> QED BY <1>1, <1>2, <1>3, <1>4 DEF PartialInv

(* The other steps.                                                        *)
LEMMA OtherStepsPartials ==
  ASSUME EngineInv, PartialInv, scheduler_name' = scheduler_name,
         \/ scheduler_name = "fcfs" /\ StartStep("prefill")
         \/ scheduler_name = "decode_first" /\ StartStep("decode")
         \/ scheduler_name \in {"fcfs", "decode_first"} /\ (PopRunning \/ RunModel \/ EndStep)
  PROVE  PartialInv'
<1>1. UNCHANGED <<block_table, status, waiting>>
  BY DEF StartStep, PopRunning, RunModel, EndStep, bmVars, queueVars, seqVars
<1>2. Partials' = Partials
  BY <1>1 DEF Partials
<1>3. CASE StartStep("prefill") \/ StartStep("decode")
  <2>1. pc = "idle" /\ UNCHANGED <<running, scheduled_seqs, num_batched_tokens>>
    BY <1>3 DEF StartStep, queueVars
  <2>2. /\ scheduler_name = "fcfs" => pc' = "prefill"
        /\ scheduler_name = "decode_first" => pc' = "decode"
    BY <2>1 DEF StartStep, PopRunning, RunModel, EndStep
  <2>3. scheduled_seqs' = <<>>
    BY <2>1 DEF EngineInv, CoreInv, Sound, BatchPlanned
  <2> QED BY <1>1, <1>2, <2>1, <2>2, <2>3 DEF PartialInv, InDecodeLoop
<1>4. CASE PopRunning
  <2>1. /\ pc = "decode" /\ pc' = "append" /\ running # <<>>
        /\ UNCHANGED <<scheduled_seqs, num_batched_tokens>>
    BY <1>4 DEF PopRunning, CanDecode
  <2>2. scheduler_name \in {"fcfs", "decode_first"} => Partials = {}
    BY <2>1 DEF PartialInv, InDecodeLoop
  <2> QED BY <1>1, <1>2, <2>1, <2>2 DEF PartialInv, InDecodeLoop
<1>5. CASE RunModel \/ EndStep
  <2>1. /\ pc' \in {"post", "idle"} /\ UNCHANGED running
        /\ scheduled_seqs' = <<>> => scheduled_seqs = <<>> \/ num_batched_tokens' = 0
        /\ scheduled_seqs' = scheduled_seqs => num_batched_tokens' \in {0, num_batched_tokens}
    BY <1>5 DEF RunModel, EndStep, queueVars
  <2>2. scheduled_seqs' = <<>> => num_batched_tokens' = 0
    BY <1>5 DEF RunModel, EndStep, PartialInv
  <2> QED BY <1>1, <1>2, <2>1, <2>2 DEF PartialInv, InDecodeLoop
<1> QED BY <1>3, <1>4, <1>5

(* A sequence that is finished holds nothing and is in no deque.           *)
LEMMA PostprocessOnePartials ==
  ASSUME EngineInv, PartialInv, scheduler_name' = scheduler_name,
         NEW t \in Token, PostprocessOne(t)
  PROVE  PartialInv'
<1> USE DEF EngineInv, CoreInv, Sound
<1>1. /\ pc = "post" /\ pc' = "post"
      /\ UNCHANGED <<waiting, scheduled_seqs, num_batched_tokens>>
  BY DEF PostprocessOne
<1>2. PICK s : \/ UNCHANGED <<status, running, block_table>>
               \/ /\ status' = [status EXCEPT ![s] = "FINISHED"]
                  /\ running' = Without(running, {s})
                  /\ deallocate(s)
  BY DEF PostprocessOne
<1>3. /\ status \in [Seqs -> {"NEW", "WAITING", "RUNNING", "FINISHED"}]
      /\ block_table \in [Seqs -> Seq(Blocks)]
  BY DEF Fields, BMInv, BMTypeOK
<1>4. Partials' \subseteq Partials
  <2>1. CASE UNCHANGED <<status, running, block_table>>
    BY <2>1 DEF Partials
  <2>2. CASE status' = [status EXCEPT ![s] = "FINISHED"] /\ deallocate(s)
    <3> SUFFICES ASSUME NEW r \in Seqs, status'[r] = "WAITING", block_table'[r] # <<>>
                 PROVE  status[r] = "WAITING" /\ block_table[r] # <<>>
      BY DEF Partials
    <3>1. r # s
      BY <1>3, <2>2
    <3> QED BY <1>3, <2>2, <3>1 DEF deallocate
  <2> QED BY <1>2, <2>1, <2>2
<1>5. running = <<>> => running' = <<>>
  <2>1. Without(<<>>, {s}) \in Seq(Seqs) /\ Range(Without(<<>>, {s})) = {}
    BY EmptyBatch, WithoutProperties, ZenonT(30)
  <2>2. Without(<<>>, {s}) = <<>>
    <3>1. Without(<<>>, {s}) # <<>> => 1 \in DOMAIN Without(<<>>, {s})
      BY <2>1, EmptySeq, LenProperties
    <3> QED BY <2>1, <3>1 DEF Range
  <2> QED BY <1>2, <2>2
<1> QED BY <1>1, <1>4, <1>5 DEF PartialInv, InDecodeLoop

(* A new request has no blocks and joins behind the head.                  *)
LEMMA AddRequestPartials ==
  ASSUME EngineInv, PartialInv, scheduler_name' = scheduler_name,
         NEW s \in Seqs, AddRequest(s)
  PROVE  PartialInv'
<1>1. /\ pc = "idle" /\ pc' = "idle" /\ status[s] = "NEW" /\ waiting' = Append(waiting, s)
      /\ status' = [status EXCEPT ![s] = "WAITING"]
      /\ UNCHANGED <<block_table, running, scheduled_seqs, num_batched_tokens>>
  BY DEF AddRequest, stepVars
<1>2. block_table[s] = <<>> /\ waiting \in Seq(Seqs)
      /\ status \in [Seqs -> {"NEW", "WAITING", "RUNNING", "FINISHED"}]
  BY <1>1 DEF EngineInv, CoreInv, Sound, TablesFit, TableFits, Placed, Fields
<1>3. Partials' = Partials
  BY <1>1, <1>2 DEF Partials
<1>4. waiting # <<>> => waiting' # <<>> /\ Head(waiting') = Head(waiting)
  BY <1>1, <1>2
<1> QED BY <1>1, <1>3, <1>4 DEF PartialInv, InDecodeLoop

(* A step of the engine under FCFS or decode-first.                        *)
LEMMA NextPartials ==
  ASSUME EngineInv, scheduler_name \in SCHEDULER_REGISTRY,
         scheduler_name # "chunked_prefill" => PartialInv,
         [SchedulersNext]_schedulersVars
  PROVE  /\ scheduler_name' \in SCHEDULER_REGISTRY
         /\ (scheduler_name # "chunked_prefill" => PartialInv)'
<1>1. scheduler_name' = scheduler_name
  BY DEF SchedulersNext, PolicyStep, schedulersVars
<1> SUFFICES ASSUME scheduler_name # "chunked_prefill" PROVE PartialInv'
  BY <1>1
<1>2. PartialInv /\ scheduler_name \in {"fcfs", "decode_first"}
  BY DEF SCHEDULER_REGISTRY
<1>3. CASE \E s \in Seqs : AddRequest(s)
  BY <1>1, <1>2, <1>3, AddRequestPartials
<1>4. CASE UNCHANGED schedulersVars
  <2>1. UNCHANGED <<block_table, status, waiting, running, scheduled_seqs,
                    num_batched_tokens, pc>>
    BY <1>4 DEF schedulersVars, chunkedVars, vars, bmVars, queueVars, stepVars, seqVars
  <2>2. Partials' = Partials
    BY <2>1 DEF Partials
  <2> QED BY <1>1, <1>2, <2>1, <2>2 DEF PartialInv, InDecodeLoop
<1>5. CASE PreemptNewest \/ PreemptSelf \/ DecodeCur
  BY <1>1, <1>2, <1>5, AppendingPartials
<1>6. CASE PrefillHead
  BY <1>1, <1>2, <1>6, PrefillHeadPartials
<1>7. CASE PopRunning \/ RunModel \/ EndStep
  BY <1>1, <1>2, <1>7, OtherStepsPartials
<1>8. CASE \E t \in Token : PostprocessOne(t)
  BY <1>1, <1>2, <1>8, PostprocessOnePartials
<1>9. CASE scheduler_name = "fcfs" /\ EngineStep
  BY <1>1, <1>2, <1>5, <1>6, <1>7, <1>8, <1>9, OtherStepsPartials, EndPrefillPartials,
     EndDecodePartials DEF EngineStep, DecodePhase, RunAndPostprocess
<1>10. CASE scheduler_name = "decode_first" /\ DecodeFirstStep
  BY <1>1, <1>2, <1>5, <1>6, <1>7, <1>8, <1>10, OtherStepsPartials, EndPrefillPartials,
     EndDecodePartials DEF DecodeFirstStep, DecodePhase, RunAndPostprocess
<1> QED BY <1>3, <1>4, <1>9, <1>10 DEF SchedulersNext, PolicyStep

(* A sequence that loses its table was preempted, unless it is finished.   *)
LEMMA LosesTable ==
  ASSUME EngineInv, scheduler_name # "chunked_prefill", SchedulersNext,
         NEW s \in Seqs, block_table[s] # <<>>, block_table'[s] = <<>>,
         status'[s] # "FINISHED"
  PROVE  \/ PreemptNewest /\ s = running[Len(running)]
         \/ PreemptSelf /\ s = cur
<1>1. /\ status \in [Seqs -> {"NEW", "WAITING", "RUNNING", "FINISHED"}]
      /\ block_table \in [Seqs -> Seq(Blocks)]
  BY DEF EngineInv, CoreInv, Sound, Fields, BMInv, BMTypeOK
<1>2. block_table' # block_table
  OBVIOUS
<1>4. ~ PrefillHead
  <2> SUFFICES ASSUME PrefillHead PROVE FALSE
    OBVIOUS
  <2>1. block_table[Head(waiting)] = <<>> /\ allocate(Head(waiting))
    BY <1>2 DEF PrefillHead, AllocateOnFirstVisit
  <2>2. s # Head(waiting)
    BY <2>1
  <2> QED BY <1>1, <2>1, <2>2 DEF allocate
<1>5. ~ DecodeCur
  <2> SUFFICES ASSUME DecodeCur PROVE FALSE
    OBVIOUS
  <2>1. block_table' = [block_table EXCEPT ![cur] = Append(@, Head(free_block_ids))]
    BY <1>2 DEF DecodeCur, may_append
  <2>2. s = cur
    BY <1>1, <2>1
  <2>3. block_table'[s] = Append(block_table[s], Head(free_block_ids))
    BY <1>1, <2>1, <2>2
  <2>4. block_table[s] \in Seq(Blocks)
    BY <1>1
  <2> QED BY <2>3, <2>4
<1>6. \A t \in Token : ~ PostprocessOne(t)
  <2> SUFFICES ASSUME NEW t \in Token, PostprocessOne(t) PROVE FALSE
    OBVIOUS
  <2>1. PICK r : /\ status' = [status EXCEPT ![r] = "FINISHED"]
                 /\ block_table' = [block_table EXCEPT ![r] = <<>>]
    BY <1>2 DEF PostprocessOne, deallocate
  <2> QED BY <1>1, <2>1
<1>7. /\ ~ \E r \in Seqs : AddRequest(r)
      /\ ~ StartStep("prefill") /\ ~ StartStep("decode")
      /\ ~ EndPrefill("decode") /\ ~ EndPrefill("raised")
      /\ ~ EndDecode("prefill") /\ ~ EndDecode("raised")
      /\ ~ PopRunning /\ ~ RunModel /\ ~ EndStep
  BY <1>2 DEF AddRequest, StartStep, EndPrefill, EndDecode, PopRunning, RunModel, EndStep,
              bmVars
<1>8. PreemptNewest \/ PreemptSelf
  BY <1>4, <1>5, <1>6, <1>7
     DEF SchedulersNext, PolicyStep, EngineStep, DecodeFirstStep, DecodePhase,
         RunAndPostprocess
<1>9. \A r : preempt(r) => s = r
  BY <1>1 DEF preempt, deallocate
<1> QED BY <1>8, <1>9 DEF PreemptNewest, PreemptSelf

(* A sequence that alone holds blocks has room for its next token.         *)
LEMMA AloneFits ==
  ASSUME EngineInv, NEW s \in Seqs, status[s] = "RUNNING", num_scheduled_tokens[s] = 0,
         \A r \in Seqs : r # s => block_table[r] = <<>>
  PROVE  can_append(s)
<1> USE DEF EngineInv, CoreInv, Sound
<1> DEFINE l == Len(token_ids[s])
           table == block_table[s]
<1>1. /\ l \in Nat /\ l > 0 /\ table \in Seq(Blocks) /\ Len(table) \in Nat
      /\ DOMAIN table = 1 .. Len(table)
      /\ Len(table) = BlocksFor(l - 1)
      /\ l < Len(request[s].prompt) + request[s].max_tokens
      /\ free_block_ids \in Seq(Blocks) /\ Len(free_block_ids) \in Nat
  <2>1. token_ids[s] \in Seq(Token) /\ token_ids[s] # <<>>
    BY DEF BMInv, BMTypeOK, TablesFit, TableFits
  <2>2. l \in Nat /\ l > 0
    BY <2>1, EmptySeq
  <2>3. table \in Seq(Blocks) /\ free_block_ids \in Seq(Blocks)
    BY DEF BMInv, BMTypeOK
  <2> QED BY <2>2, <2>3, LenProperties DEF TablesFit, TableFits
<1>2. SUFFICES ASSUME l % BlockSize = 1, Len(free_block_ids) = 0 PROVE FALSE
  <2>1. l % BlockSize # 1 => can_append(s)
    BY <1>1 DEF can_append
  <2>2. Len(free_block_ids) # 0 => can_append(s)
    BY <1>1 DEF can_append
  <2> QED BY <2>1, <2>2
<1> HIDE DEF l, table
<1>3. Range(table) = Blocks
  <2>1. Range(free_block_ids) = {}
    BY <1>1, <1>2, LenProperties DEF Range
  <2>2. \A b \in Blocks : Holders(b) # {}
    BY <2>1 DEF BMInv, BlockAccounting
  <2>3. Range(<<>>) = {}
    BY EmptyBatch
  <2>4. \A b \in Blocks : b \in Range(table)
    BY <2>2, <2>3 DEF Holders, table
  <2>5. Range(table) \subseteq Blocks
    BY <1>1, LenProperties DEF Range
  <2> QED BY <2>4, <2>5
<1>4. NumBlocks <= Len(table)
  <2>1. table \in Surjection(1 .. Len(table), Blocks)
    <3>1. table \in [1 .. Len(table) -> Blocks]
      BY <1>1, LenProperties
    <3> QED BY <1>1, <1>3, <3>1 DEF Surjection, Range
  <2>2. IsFiniteSet(1 .. Len(table)) /\ Cardinality(1 .. Len(table)) = Len(table)
    BY <1>1, FS_Interval, SMTT(30)
  <2>3. Cardinality(Blocks) <= Len(table)
    BY <2>1, <2>2, FS_Surjection
  <2>4. Cardinality(Blocks) = NumBlocks
    BY NumBlocksAssumption, FS_Interval DEF Blocks
  <2> QED BY <2>3, <2>4
<1>5. BlocksFor(l) = Len(table) + 1
  BY <1>1, <1>2, NewBlockStarts
<1>6. BlocksFor(l) <= NumBlocks
  <2>1. /\ request[s] \in Requests
        /\ request[s].prompt \in Seq(Token) /\ request[s].max_tokens \in Nat \ {0}
        /\ BlocksFor(Len(request[s].prompt) + request[s].max_tokens - 1) <= NumBlocks
    BY FeasibleAssumption, PromptsAssumption DEF Fields
  <2> DEFINE k == Len(request[s].prompt) + request[s].max_tokens - 1
  <2>2. Len(request[s].prompt) \in Nat
    BY <2>1, LenProperties
  <2>3. k \in Nat /\ l <= k
    BY <1>1, <2>1, <2>2, SMTT(30)
  <2>4. BlocksFor(k) <= NumBlocks
    BY <2>1
  <2> HIDE DEF k
  <2>5. BlocksFor(l) <= BlocksFor(k)
    BY <1>1, <2>3, BlocksForMonotonic
  <2>6. BlocksFor(l) \in Nat /\ BlocksFor(k) \in Nat /\ NumBlocks \in Nat
    BY <1>1, <2>3, BlocksForBounds, NumBlocksAssumption
  <2> QED BY <2>4, <2>5, <2>6
<1>7. NumBlocks \in Nat /\ Len(table) \in Nat
  BY <1>1, NumBlocksAssumption
<1> QED BY <1>4, <1>5, <1>6, <1>7

(* So who is preempted has an older request before it: the one in hand, or *)
(* one that has joined the batch.                                          *)
LEMMA OlderOneLeft ==
  ASSUME EngineInv, OrderInv, PartialInv, scheduler_name \in {"fcfs", "decode_first"},
         SchedulersNext
  PROVE  KeepsOldest
<1> USE DEF EngineInv, CoreInv, Sound
<1> SUFFICES ASSUME NEW s \in Seqs, block_table[s] # <<>>, block_table'[s] = <<>>,
                    status'[s] # "FINISHED"
             PROVE  \E r \in 1 .. s - 1 : status[r] # "FINISHED"
  BY DEF KeepsOldest
<1>1. \A r \in Seqs : r < s => r \in 1 .. s - 1
  <2>1. Cardinality(Seqs) \in Nat
    BY SeqsAssumption, FS_CardinalityType
  <2>2. \A r, q \in 1 .. Cardinality(Seqs) : r < q => r \in 1 .. q - 1
    BY <2>1
  <2> QED BY <2>2, SeqIdsAssumption
<1>2. SUFFICES \E r \in Seqs : r < s /\ status[r] = "RUNNING"
  BY <1>1
<1>3. CASE PreemptNewest /\ s = running[Len(running)]
  <2>1. pc = "append" /\ running # <<>>
    BY <1>3 DEF PreemptNewest
  <2>2. s \in Range(running)
    <3>1. Len(running) \in DOMAIN running
      BY <2>1, LenProperties, EmptySeq DEF Placed
    <3> QED BY <1>3, <3>1 DEF Range
  <2>3. cur \in Seqs /\ cur \in InHand
    BY <2>1 DEF Placed, InHand
  <2>4. status[cur] = "RUNNING"
    BY <2>3 DEF Placed
  <2>5. cur < s
    BY <2>2, <2>3 DEF OrderInv, Ordered, Before
  <2> QED BY <2>3, <2>4, <2>5
<1>4. CASE PreemptSelf /\ s = cur
  <2>1. pc = "append" /\ running = <<>> /\ ~ can_append(s)
    BY <1>4 DEF PreemptSelf
  <2>2. InDecodeLoop /\ Taken = Batch /\ InHand = {s} /\ Batch \subseteq Seqs
    BY <1>4, <2>1, DecodeLoop DEF InDecodeLoop, InHand
  <2>3. \A r \in Batch : status[r] = "RUNNING" /\ r < s
    BY <2>2 DEF Placed, OrderInv, Ordered, Before
  <2>4. ASSUME Batch = {} PROVE FALSE
    <3>1. Range(running) = {}
      BY <2>1, EmptyBatch
    <3>2. \A r \in Seqs : status[r] = "RUNNING" <=> r = s
      BY <2>2, <2>4, <3>1 DEF Exact, NoneDropped, Placed
    <3>3. Partials = {}
      BY <2>1, NoneWhileAppending
    <3>4. ASSUME NEW r \in Seqs, r # s PROVE block_table[r] = <<>>
      <4>1. status[r] \in {"NEW", "WAITING", "FINISHED"}
        BY <3>2, <3>4 DEF Fields
      <4> QED BY <3>3, <4>1 DEF Partials, TablesFit, TableFits
    <3>5. num_scheduled_tokens[s] = 0
      BY <2>2, <2>4, DecodeLoop
    <3>6. can_append(s)
      BY <3>2, <3>4, <3>5, AloneFits
    <3> QED BY <2>1, <3>6
  <2> QED BY <2>2, <2>3, <2>4
<1>5. scheduler_name # "chunked_prefill"
  OBVIOUS
<1> QED BY <1>3, <1>4, <1>5, LosesTable

(* Under FCFS and decode-first the oldest unfinished request never loses   *)
(* its blocks: the reason why preemption cannot undo all progress.         *)
THEOREM OldestKept == SchedulersSpec => OldestNeverPreempted
<1> DEFINE O == scheduler_name # "chunked_prefill" => OrderInv
           P == scheduler_name \in SCHEDULER_REGISTRY
                /\ (scheduler_name # "chunked_prefill" => PartialInv)
           K == scheduler_name # "chunked_prefill" => KeepsOldest
<1>1. SchedulersInit => O /\ P
  <2>1. SchedulersInit => O
    BY EmptyBatch, EmptySorted DEF SchedulersInit, ChunkedInit, CoreInit, OrderInv, Arrivals,
       Ordered, Before, Taken, InHand, InDecodeLoop
  <2>2. SchedulersInit => P
    BY DEF SchedulersInit, ChunkedInit, CoreInit, BMInit, PartialInv, Partials, InDecodeLoop
  <2> QED BY <2>1, <2>2
<1>2. EngineInv /\ O /\ P /\ [SchedulersNext]_schedulersVars => O' /\ P'
  BY NextOrder, NextPartials
<1>3. EngineInv /\ O /\ P /\ [SchedulersNext]_schedulersVars => [K]_schedulersVars
  <2>1. ASSUME EngineInv, O, P, SchedulersNext PROVE K
    BY <2>1, OlderOneLeft DEF SCHEDULER_REGISTRY
  <2> QED BY <2>1
<1> HIDE DEF O, P
<1> QED BY <1>1, <1>2, <1>3, EngineCorrect, PTL DEF SchedulersSpec, OldestNeverPreempted

-----------------------------------------------------------------------------

(* The KV cache.  A visit of the chunked prefill loop.                     *)
LEMMA ChunkHeadCache ==
  ASSUME CoreInv, BMInv', CacheInv, ChunkHead \/ BreakOnSmallChunk
  PROVE  CacheInv'
<1>1. /\ pc = "prefill" /\ waiting # <<>> /\ pc' \in {"prefill", "run"}
      /\ HasBlocks(Head(waiting)) /\ AllocateOnFirstVisit(Head(waiting))
      /\ UNCHANGED <<token_ids, kv>>
  BY DEF ChunkHead, BreakOnSmallChunk, CanVisitHead
<1> QED BY <1>1, HeadWaits, VisitCache DEF CoreInv

(* The end of that loop.                                                   *)
LEMMA EndChunkedPrefillCache ==
  ASSUME BMInv, BMInv', CacheInv, EndChunkedPrefill
  PROVE  CacheInv'
BY BetweenPassesIdle DEF EndChunkedPrefill

(* A step of the engine.                                                   *)
LEMMA NextCache ==
  ASSUME CoreInv, BMInv', CacheInv, [SchedulersNext]_schedulersVars
  PROVE  CacheInv'
<1>0. BMInv /\ Sound
  BY DEF CoreInv, Sound
<1>1. CASE \E s \in Seqs : AddRequest(s)
  BY <1>0, <1>1, AddRequestCache
<1>2. CASE EngineStep
  BY <1>0, <1>2, LoopEndCache, PrefillHeadCache, CoreStepCache DEF EngineStep
<1>3. CASE DecodeFirstStep
  BY <1>0, <1>3, LoopEndCache, PrefillHeadCache, CoreStepCache DEF DecodeFirstStep
<1>4. CASE ChunkedStep
  BY <1>0, <1>4, LoopEndCache, ChunkHeadCache, EndChunkedPrefillCache, CoreStepCache
     DEF ChunkedStep, StartChunkedStep
<1>5. CASE UNCHANGED schedulersVars
  BY <1>5, StutterCache DEF schedulersVars, chunkedVars
<1> QED BY <1>1, <1>2, <1>3, <1>4, <1>5 DEF SchedulersNext, PolicyStep

(* The inductive invariant of the cache, on top of that of the engine.     *)
THEOREM CacheCorrect == SchedulersSpec => []CacheInv
<1>1. SchedulersInit => CacheInv
  BY CacheInit DEF SchedulersInit, ChunkedInit
<1>2. EngineInv /\ EngineInv' /\ CacheInv /\ [SchedulersNext]_schedulersVars => CacheInv'
  BY NextCache DEF EngineInv, CoreInv, Sound
<1> QED BY <1>1, <1>2, EngineCorrect, PTL DEF SchedulersSpec

(* Attention never reads another sequence's tokens, nor stale ones of its  *)
(* own, however blocks were shared, evicted, reused and recomputed.        *)
THEOREM CacheIsolated == SchedulersSpec => []KVMatchesPrefix
BY CacheCorrect, CacheMatches, PTL

(* Every variable of the engine keeps its type.                            *)
THEOREM EngineTypes == SchedulersSpec => []SchedulerTypeOK
BY EngineCorrect, CacheCorrect, EngineTyped, PTL

-----------------------------------------------------------------------------
(* The limits of a batch.  What is handed out by an FCFS prefill loop adds *)
(* up, and while something is left of the budget, all who were given some  *)
(* of it were given all they needed, so that nobody is visited twice.      *)
BatchRoom ==
  /\ Len(scheduled_seqs) <= MaxNumSeqs
  /\ pc = "append" => Len(scheduled_seqs) < MaxNumSeqs

BatchLimits ==
  /\ BatchRoom
  /\ IsInjective(scheduled_seqs)
  /\ pc = "prefill" \/ (pc = "run" /\ batch_is_prefill) =>
       AddsUpTo(scheduled_seqs, num_batched_tokens)
  /\ pc = "prefill" /\ remaining # 0 => \A s \in Batch : status[s] = "RUNNING"

ChunkLimits ==
  /\ BatchRoom
  /\ \A s \in Seqs : num_scheduled_tokens[s] <= MaxPrefillChunk

LimitInv ==
  IF scheduler_name = "chunked_prefill" THEN ChunkLimits ELSE BatchLimits /\ PartialInv

(* Nothing is handed out at first.                                         *)
LEMMA EmptyAddsUp == AddsUpTo(<<>>, 0)
<1> DEFINE upto == [i \in 0 .. 0 |-> 0]
<1>1. Len(<<>>) = 0 /\ upto \in [0 .. 0 -> 0 .. 0] /\ upto[0] = 0
  OBVIOUS
<1>2. \A i \in 1 .. 0 : FALSE
  OBVIOUS
<1> QED BY <1>1, <1>2 DEF AddsUpTo

(* One more sequence takes k more tokens.                                  *)
LEMMA AppendedAddsUp ==
  ASSUME NEW q \in Seq(Seqs), NEW n \in Nat, AddsUpTo(q, n),
         NEW s \in Seqs, s \notin Range(q), NEW k \in Nat,
         num_scheduled_tokens \in [Seqs -> Nat],
         num_scheduled_tokens' = [num_scheduled_tokens EXCEPT ![s] = k]
  PROVE  AddsUpTo(Append(q, s), n + k)'
<1>1. PICK upto \in [0 .. Len(q) -> 0 .. n] :
        /\ upto[0] = 0 /\ upto[Len(q)] = n
        /\ \A i \in 1 .. Len(q) : upto[i] = upto[i - 1] + num_scheduled_tokens[q[i]]
  BY DEF AddsUpTo
<1>2. /\ Len(q) \in Nat /\ Len(Append(q, s)) = Len(q) + 1
      /\ \A i \in 1 .. Len(q) : q[i] \in Seqs /\ q[i] # s /\ Append(q, s)[i] = q[i]
      /\ Append(q, s)[Len(q) + 1] = s
  BY LenProperties DEF Range
<1> DEFINE more == [i \in 0 .. Len(q) + 1 |-> IF i <= Len(q) THEN upto[i] ELSE n + k]
<1>3. more \in [0 .. Len(q) + 1 -> 0 .. n + k]
  BY <1>1, <1>2
<1>4. more[0] = 0 /\ more[Len(q) + 1] = n + k
  BY <1>1, <1>2
<1>5. ASSUME NEW i \in 1 .. Len(q) + 1
      PROVE  more[i] = more[i - 1] + num_scheduled_tokens'[Append(q, s)[i]]
  <2>1. CASE i <= Len(q)
    <3>1. i \in 1 .. Len(q) /\ i - 1 \in 0 .. Len(q)
      BY <1>2, <2>1
    <3>2. more[i] = upto[i] /\ more[i - 1] = upto[i - 1]
      BY <1>2, <2>1, <3>1
    <3>3. num_scheduled_tokens'[Append(q, s)[i]] = num_scheduled_tokens[q[i]]
      BY <1>2, <3>1
    <3> QED BY <1>1, <3>1, <3>2, <3>3
  <2>2. CASE i > Len(q)
    <3>1. i = Len(q) + 1 /\ i - 1 = Len(q)
      BY <1>2, <2>2
    <3>2. more[i] = n + k /\ more[i - 1] = n
      BY <1>1, <1>2, <3>1
    <3>3. num_scheduled_tokens'[Append(q, s)[i]] = k
      BY <1>2, <3>1
    <3> QED BY <3>2, <3>3
  <2> QED BY <1>2, <2>1, <2>2
<1> HIDE DEF more
<1> QED BY <1>2, <1>3, <1>4, <1>5 DEF AddsUpTo

(* A visit of the FCFS prefill loop.                                       *)
LEMMA PrefillHeadLimits ==
  ASSUME EngineInv, BatchLimits, PrefillHead
  PROVE  BatchLimits'
<1> USE DEF EngineInv, CoreInv, Sound
<1> DEFINE s == Head(waiting)
           n == Smaller(num_tokens(s), remaining)
<1>1. /\ pc = "prefill" /\ pc' = "prefill" /\ waiting # <<>> /\ remaining # 0
      /\ Len(scheduled_seqs) < MaxNumSeqs
      /\ num_scheduled_tokens' = [num_scheduled_tokens EXCEPT ![s] = n]
      /\ num_batched_tokens' = num_batched_tokens + n
      /\ n = num_tokens(s) => status' = [status EXCEPT ![s] = "RUNNING"]
      /\ scheduled_seqs' = Append(scheduled_seqs, s)
  BY DEF PrefillHead, CanPrefillHead
<1>2. s \in Seqs /\ status[s] = "WAITING"
  BY <1>1, HeadWaits
<1>3. /\ remaining \in Nat /\ num_tokens(s) \in Nat /\ n \in Nat
      /\ n = num_tokens(s) \/ n = remaining
  BY <1>2, BudgetLeft, TokensLeft DEF Smaller
<1>4. /\ scheduled_seqs \in Seq(Seqs) /\ num_batched_tokens \in Nat
      /\ num_scheduled_tokens \in [Seqs -> Nat]
      /\ status \in [Seqs -> {"NEW", "WAITING", "RUNNING", "FINISHED"}]
      /\ MaxNumSeqs \in Nat /\ MaxBatchedTokens \in Nat
  BY LimitsAssumption DEF Fields
<1> HIDE DEF s, n
<1>5. s \notin Batch /\ \A r \in Batch : status[r] = "RUNNING"
  BY <1>1, <1>2 DEF BatchLimits
<1>6. /\ IsInjective(scheduled_seqs') /\ Batch' = Batch \cup {s}
      /\ Len(scheduled_seqs') <= MaxNumSeqs
  BY <1>1, <1>2, <1>4, <1>5, Appended DEF BatchLimits, BatchRoom, Batch
<1>7. AddsUpTo(scheduled_seqs, num_batched_tokens)'
  <2>1. PICK q \in Seq(Seqs), m \in Nat, r \in Seqs, k \in Nat :
          q = scheduled_seqs /\ m = num_batched_tokens /\ r = s /\ k = n
    BY <1>2, <1>3, <1>4
  <2>2. AddsUpTo(q, m) /\ r \notin Range(q)
    BY <1>1, <1>5, <2>1 DEF BatchLimits, Batch
  <2>3. AddsUpTo(Append(q, r), m + k)'
    BY <1>1, <1>4, <2>1, <2>2, AppendedAddsUp
  <2>4. scheduled_seqs' = Append(q, r) /\ num_batched_tokens' = m + k
    BY <1>1, <2>1
  <2> QED BY <2>3, <2>4 DEF AddsUpTo
<1>8. remaining' # 0 => \A r \in Batch' : status'[r] = "RUNNING"
  <2>1. remaining' = remaining - n
    BY <1>1, <1>3, <1>4 DEF remaining
  <2>2. remaining' # 0 => n = num_tokens(s)
    BY <1>3, <2>1
  <2>3. Batch \subseteq Seqs
    BY <1>4, RangeInSeqs DEF Batch
  <2> QED BY <1>1, <1>2, <1>4, <1>5, <1>6, <2>2, <2>3
<1> QED BY <1>1, <1>6, <1>7, <1>8 DEF BatchLimits, BatchRoom

(* The batch of a decode grows by the sequence in hand, for which there was*)
(* room when it was popped.                                                *)
LEMMA RoomKept ==
  ASSUME EngineInv, BatchRoom,
         \/ \E s \in Seqs : AddRequest(s)
         \/ StartStep("prefill") \/ StartStep("decode")
         \/ EndPrefill("decode") \/ EndPrefill("raised")
         \/ DecodePhase \/ EndDecode("prefill") \/ EndDecode("raised")
         \/ RunAndPostprocess
  PROVE  BatchRoom'
<1>1. scheduled_seqs \in Seq(Seqs) /\ MaxNumSeqs \in Nat
  BY LimitsAssumption DEF EngineInv, CoreInv, Sound, Fields
<1>2. CASE PopRunning
  BY <1>2 DEF PopRunning, CanDecode, BatchRoom
<1>3. CASE DecodeCur
  <2>1. /\ pc = "append" /\ pc' = "decode" /\ scheduled_seqs' = Append(scheduled_seqs, cur)
    BY <1>3 DEF DecodeCur
  <2>2. Len(scheduled_seqs') = Len(scheduled_seqs) + 1 /\ Len(scheduled_seqs) \in Nat
    BY <1>1, <2>1
  <2> QED BY <1>1, <2>1, <2>2 DEF BatchRoom
<1>4. CASE EndStep
  <2>1. Len(scheduled_seqs') = 0 /\ pc' = "idle" /\ 0 <= MaxNumSeqs
    BY <1>1, <1>4, EmptyBatch DEF EndStep
  <2> QED BY <2>1 DEF BatchRoom
<1>5. CASE PreemptNewest
  BY <1>5 DEF PreemptNewest, stepVars, BatchRoom
<1>6. CASE \/ \E s \in Seqs : AddRequest(s)
           \/ StartStep("prefill") \/ StartStep("decode")
           \/ EndPrefill("decode") \/ EndPrefill("raised") \/ PreemptSelf
           \/ EndDecode("prefill") \/ EndDecode("raised")
           \/ RunModel \/ \E t \in Token : PostprocessOne(t)
  <2>1. scheduled_seqs' = scheduled_seqs /\ pc' # "append"
    BY <1>6 DEF AddRequest, StartStep, EndPrefill, PreemptSelf, EndDecode, RunModel,
                PostprocessOne, stepVars
  <2> QED BY <2>1 DEF BatchRoom
<1> QED BY <1>2, <1>3, <1>4, <1>5, <1>6 DEF DecodePhase, RunAndPostprocess

(* A step other than a visit: the prefill loop is entered with nothing     *)
(* handed out yet, and left with all of it.                                *)
LEMMA OtherStepsLimits ==
  ASSUME EngineInv, EngineInv', BatchLimits, PartialInv,
         \/ \E s \in Seqs : AddRequest(s)
         \/ StartStep("prefill") \/ StartStep("decode")
         \/ EndPrefill("decode") \/ EndPrefill("raised")
         \/ DecodePhase \/ EndDecode("prefill") \/ EndDecode("raised")
         \/ RunAndPostprocess
  PROVE  BatchLimits'
<1>1. BatchRoom'
  BY RoomKept DEF BatchLimits
<1>2. IsInjective(scheduled_seqs')
  <2>1. CASE DecodeCur
    <3>1. pc' = "decode"
      BY <2>1 DEF DecodeCur
    <3> QED BY <3>1 DEF EngineInv, CoreInv, BatchPlanned, Decoding, InDecodeLoop
  <2>2. CASE scheduled_seqs' \in {scheduled_seqs, <<>>}
    BY <2>2, EmptyBatch DEF BatchLimits
  <2> QED BY <2>1, <2>2 DEF AddRequest, StartStep, EndPrefill, DecodePhase, PopRunning,
             PreemptNewest, PreemptSelf, EndDecode, RunAndPostprocess, RunModel,
             PostprocessOne, EndStep, stepVars
<1>3. CASE \/ StartStep("prefill") \/ StartStep("decode")
           \/ EndDecode("prefill") \/ EndDecode("raised")
  <2>1. /\ UNCHANGED <<scheduled_seqs, num_batched_tokens>>
        /\ pc' = "run" => ~ batch_is_prefill'
        /\ pc' = "prefill" => scheduled_seqs = <<>>
    BY <1>3 DEF StartStep, EndDecode, EngineInv, CoreInv, BatchPlanned
  <2>2. pc' = "prefill" => num_batched_tokens = 0 /\ Batch' = {}
    BY <2>1, EmptyBatch DEF PartialInv, Batch
  <2>3. AddsUpTo(<<>>, 0)'
    BY EmptyAddsUp DEF AddsUpTo
  <2> QED BY <1>1, <1>2, <2>1, <2>2, <2>3 DEF BatchLimits, AddsUpTo
<1>4. CASE EndPrefill("decode") \/ EndPrefill("raised")
  <2>1. /\ UNCHANGED <<scheduled_seqs, num_batched_tokens, num_scheduled_tokens>>
        /\ pc = "prefill" /\ pc' # "prefill"
    BY <1>4 DEF EndPrefill, seqVars
  <2> QED BY <1>1, <1>2, <2>1 DEF BatchLimits, AddsUpTo
<1>5. CASE (\E s \in Seqs : AddRequest(s)) \/ DecodePhase \/ RunAndPostprocess
  <2>1. pc' \notin {"prefill", "run"}
    BY <1>5 DEF AddRequest, DecodePhase, PopRunning, PreemptNewest, PreemptSelf, DecodeCur,
                RunAndPostprocess, RunModel, PostprocessOne, EndStep, stepVars
  <2> QED BY <1>1, <1>2, <2>1 DEF BatchLimits
<1> QED BY <1>3, <1>4, <1>5

(* The chunked loop never gives more than a chunk, a decode one token.     *)
LEMMA ChunkStepLimits ==
  ASSUME EngineInv, ChunkLimits, ChunkedStep \/ \E s \in Seqs : AddRequest(s)
  PROVE  ChunkLimits'
<1>1. /\ scheduled_seqs \in Seq(Seqs) /\ MaxNumSeqs \in Nat /\ Len(scheduled_seqs) \in Nat
      /\ num_scheduled_tokens \in [Seqs -> 0 .. MaxBatchedTokens]
      /\ MaxPrefillChunk \in Nat \ {0}
  BY LimitsAssumption, ChunkAssumption DEF EngineInv, CoreInv, Sound, Fields
<1>2. BatchRoom'
  <2>1. CASE ChunkHead
    <3>1. /\ pc' = "prefill" /\ scheduled_seqs' = Append(scheduled_seqs, Head(waiting))
          /\ Len(scheduled_seqs) < MaxNumSeqs
      BY <2>1 DEF ChunkHead, CanVisitHead
    <3>2. Len(scheduled_seqs') = Len(scheduled_seqs) + 1
      BY <1>1, <3>1
    <3> QED BY <1>1, <3>1, <3>2 DEF BatchRoom
  <2>2. CASE BreakOnSmallChunk \/ EndChunkedPrefill
    BY <2>2 DEF BreakOnSmallChunk, EndChunkedPrefill, ChunkLimits, BatchRoom
  <2> QED BY <2>1, <2>2, RoomKept DEF ChunkLimits, ChunkedStep, StartChunkedStep
<1>3. \E s \in Seqs \cup {NoSeq}, n \in 0 .. MaxPrefillChunk :
         num_scheduled_tokens' = [num_scheduled_tokens EXCEPT ![s] = n]
  <2>1. CASE ChunkHead
    <3>1. PICK s \in Seqs : s = Head(waiting) /\ status[s] = "WAITING" /\ remaining > 0
      BY <2>1, HeadWaits DEF ChunkHead, CanVisitHead, EngineInv, CoreInv
    <3>2. chunk(s) \in 0 .. MaxPrefillChunk
      BY <1>1, <3>1, TokensLeft, BudgetLeft DEF EngineInv, CoreInv, chunk, Smaller
    <3> QED BY <2>1, <3>1, <3>2 DEF ChunkHead
  <2>2. CASE DecodeCur
    <3>1. cur \in Seqs /\ 1 \in 0 .. MaxPrefillChunk
      BY <1>1, <2>2 DEF DecodeCur, EngineInv, CoreInv, Placed
    <3> QED BY <2>2, <3>1 DEF DecodeCur
  <2>3. CASE \E t \in Token : PostprocessOne(t)
    <3>1. PICK s \in Seqs : s = scheduled_seqs[processed + 1]
      BY <2>3, NextOfBatch DEF PostprocessOne, EngineInv
    <3>2. 0 \in 0 .. MaxPrefillChunk
      BY <1>1
    <3> QED BY <2>3, <3>1, <3>2 DEF PostprocessOne
  <2>4. CASE UNCHANGED num_scheduled_tokens
    <3>1. 0 \in 0 .. MaxPrefillChunk
      BY <1>1
    <3>2. num_scheduled_tokens = [num_scheduled_tokens EXCEPT ![NoSeq] = 0]
      BY <1>1, NoSeqIsNone
    <3> QED BY <2>4, <3>1, <3>2
  <2>5. CASE \/ \E s \in Seqs : AddRequest(s)
             \/ StartChunkedStep \/ BreakOnSmallChunk \/ EndChunkedPrefill
             \/ PopRunning \/ PreemptNewest \/ PreemptSelf \/ EndDecode("raised")
             \/ RunModel \/ EndStep
    BY <2>4, <2>5 DEF AddRequest, StartChunkedStep, StartStep, BreakOnSmallChunk,
       EndChunkedPrefill, PopRunning, PreemptNewest, PreemptSelf, EndDecode, RunModel,
       EndStep, seqVars
  <2> QED BY <2>1, <2>2, <2>3, <2>5 DEF ChunkedStep, DecodePhase, RunAndPostprocess
<1>4. \A r \in Seqs : num_scheduled_tokens'[r] <= MaxPrefillChunk
  BY <1>1, <1>3 DEF ChunkLimits
<1> QED BY <1>2, <1>4 DEF ChunkLimits

(* A step of the engine.                                                   *)
LEMMA NextLimits ==
  ASSUME EngineInv, EngineInv', scheduler_name \in SCHEDULER_REGISTRY, LimitInv,
         [SchedulersNext]_schedulersVars
  PROVE  LimitInv' /\ scheduler_name' \in SCHEDULER_REGISTRY
<1>1. scheduler_name' = scheduler_name
  BY DEF SchedulersNext, PolicyStep, schedulersVars
<1>2. CASE UNCHANGED schedulersVars
  <2>1. UNCHANGED <<bmVars, queueVars, stepVars, seqVars>>
    BY <1>2 DEF schedulersVars, chunkedVars, vars
  <2>2. /\ UNCHANGED <<block_table, waiting, running, status, num_scheduled_tokens, pc,
                       scheduled_seqs, num_batched_tokens, batch_is_prefill>>
    BY <2>1 DEF bmVars, queueVars, stepVars, seqVars
  <2>3. BatchLimits => BatchLimits'
    BY <2>2 DEF BatchLimits, BatchRoom, AddsUpTo, remaining, Batch
  <2>4. ChunkLimits => ChunkLimits'
    BY <2>2 DEF ChunkLimits, BatchRoom
  <2>5. Partials' = Partials
    BY <2>2 DEF Partials
  <2>6. PartialInv => PartialInv'
    BY <1>1, <2>2, <2>5 DEF PartialInv, InDecodeLoop
  <2> QED BY <1>1, <2>3, <2>4, <2>6 DEF LimitInv
<1>3. CASE SchedulersNext /\ scheduler_name = "chunked_prefill"
  <2>1. ChunkedStep \/ \E s \in Seqs : AddRequest(s)
    BY <1>3 DEF SchedulersNext, PolicyStep
  <2> QED BY <1>1, <1>3, <2>1, ChunkStepLimits DEF LimitInv
<1>4. CASE SchedulersNext /\ scheduler_name # "chunked_prefill"
  <2>1. EngineStep \/ DecodeFirstStep \/ \E s \in Seqs : AddRequest(s)
    BY <1>4 DEF SchedulersNext, PolicyStep
  <2>2. BatchLimits /\ PartialInv
    BY <1>4 DEF LimitInv
  <2>3. PartialInv'
    BY <1>1, <1>4, <2>2, NextPartials
  <2>4. BatchLimits'
    BY <2>1, <2>2, PrefillHeadLimits, OtherStepsLimits DEF EngineStep, DecodeFirstStep
  <2> QED BY <1>1, <1>4, <2>3, <2>4 DEF LimitInv
<1> QED BY <1>2, <1>3, <1>4

(* What a chunked batch holds of a sequence lies within its prompt.        *)
LEMMA ChunksFit ==
  ASSUME EngineInv, NEW s \in Seqs, pc \in {"prefill", "run"}
  PROVE  num_cached_tokens[s] + num_scheduled_tokens[s] <= Len(token_ids[s])
<1> USE DEF EngineInv, CoreInv, Sound
<1>1. /\ num_cached_tokens[s] \in Nat /\ num_scheduled_tokens[s] \in Nat
      /\ Len(token_ids[s]) \in Nat /\ num_cached_tokens[s] <= Len(token_ids[s])
  <2>1. num_scheduled_tokens[s] \in Nat /\ num_cached_tokens[s] \in Nat
        /\ Len(token_ids[s]) \in Nat
    BY DEF Fields, BMInv, BMTypeOK
  <2>2. num_cached_tokens[s] > 0 => num_cached_tokens[s] \in 1 .. num_cached_tokens[s]
    BY <2>1
  <2> QED BY <2>1, <2>2, CachedInTable
<1>2. CASE num_scheduled_tokens[s] = 0
  BY <1>1, <1>2
<1>3. CASE num_scheduled_tokens[s] > 0
  <2>1. block_table[s] # <<>>
    BY <1>3 DEF Exact, NoneStale, ScheduledHold
  <2>2. status[s] \in {"NEW", "WAITING", "RUNNING", "FINISHED"} /\ TableFits(s)
    BY DEF Fields, TablesFit
  <2> QED BY <1>1, <1>3, <2>1, <2>2 DEF TableFits
<1> QED BY <1>1, <1>2, <1>3

(* Every batch keeps to the limits the KV cache, the CUDA graphs and the   *)
(* warm-up run were sized for.                                             *)
THEOREM BatchesWithinLimits == SchedulersSpec => []EveryBatchWithinLimits
<1> DEFINE L == scheduler_name \in SCHEDULER_REGISTRY /\ LimitInv
<1>1. SchedulersInit => L
  <2> SUFFICES ASSUME SchedulersInit PROVE L
    OBVIOUS
  <2>1. /\ scheduled_seqs = <<>> /\ pc = "idle" /\ num_batched_tokens = 0
        /\ num_scheduled_tokens = [s \in Seqs |-> 0] /\ status = [s \in Seqs |-> "NEW"]
        /\ scheduler_name \in SCHEDULER_REGISTRY
    BY DEF SchedulersInit, ChunkedInit, CoreInit
  <2>2. BatchRoom
    BY <2>1, EmptyBatch, LimitsAssumption DEF BatchRoom
  <2>3. BatchLimits /\ ChunkLimits
    BY <2>1, <2>2, EmptyBatch, ChunkAssumption DEF BatchLimits, ChunkLimits
  <2>4. PartialInv
    BY <2>1 DEF PartialInv, Partials, InDecodeLoop
  <2> QED BY <2>1, <2>3, <2>4 DEF LimitInv
<1>2. EngineInv /\ EngineInv' /\ L /\ [SchedulersNext]_schedulersVars => L'
  BY NextLimits
<1>3. EngineInv /\ L => EveryBatchWithinLimits
  <2> SUFFICES ASSUME EngineInv, L PROVE EveryBatchWithinLimits
    OBVIOUS
  <2>1. CASE scheduler_name = "chunked_prefill"
    BY <2>1, ChunksFit DEF LimitInv, ChunkLimits, BatchRoom, ChunksWithinBudget,
       EveryBatchWithinLimits, EngineInv, CoreInv, Sound, Fields
  <2>2. CASE scheduler_name # "chunked_prefill"
    <3>1. BatchLimits
      BY <2>2 DEF LimitInv
    <3>2. pc = "run" /\ ~ batch_is_prefill => \A s \in Batch : num_scheduled_tokens[s] = 1
      BY AllPending DEF EngineInv, CoreInv, Sound, BatchPlanned, Decoding
    <3> QED BY <2>2, <3>1, <3>2 DEF BatchLimits, BatchRoom, BatchWithinLimits,
               EveryBatchWithinLimits
  <2> QED BY <2>1, <2>2
<1> HIDE DEF L
<1> QED BY <1>1, <1>2, <1>3, EngineCorrect, PTL DEF SchedulersSpec

-----------------------------------------------------------------------------

(* When the forward pass fails, or schedule() asserts, nothing undoes what *)
(* schedule() did.  Then the tables are no longer as long as the tokens of *)
(* their sequences need, and no legal caller would go on: a decode that is *)
(* scheduled again takes one more block.  What is left is that the tables  *)
(* are never too short.                                                    *)
TableCovers(s) ==
  LET c == num_cached_tokens[s]
      n == num_scheduled_tokens[s]
      l == Len(token_ids[s])
  IN  /\ status[s] = "NEW" => token_ids[s] = <<>>
      /\ status[s] # "NEW" => token_ids[s] # <<>>
      /\ status[s] \in {"NEW", "FINISHED"} => block_table[s] = <<>>
      /\ status[s] \in {"WAITING", "RUNNING"} =>
           l < Len(request[s].prompt) + request[s].max_tokens
      /\ status[s] = "WAITING" /\ block_table[s] # <<>> =>
           Len(block_table[s]) >= num_blocks(s) /\ c + n < l
      /\ status[s] = "RUNNING" =>
           /\ block_table[s] # <<>>
           /\ n = 0 => c < l /\ Len(block_table[s]) >= BlocksFor(l - 1)
           /\ n > 0 => c + n <= l /\ Len(block_table[s]) >= num_blocks(s)

TablesCover == \A s \in Seqs : TableCovers(s)

(* The pool and the tables, wherever a step is.                            *)
Covered == PoolInv /\ Fields /\ TablesCover

(* A batch is planned until it is dropped: each of its sequences is in it  *)
(* once, holds blocks and has tokens scheduled.  As long as the prefill    *)
(* loop has budget left, all of the batch moved to running.                *)
Planned ==
  /\ pc \in {"idle", "raised"} => scheduled_seqs = <<>>
  /\ pc # "post" => processed = 0
  /\ IsInjective(scheduled_seqs)
  /\ \A s \in Pending : num_scheduled_tokens[s] > 0 /\ block_table[s] # <<>>
  /\ Decoding => \A s \in Pending : status[s] = "RUNNING"
  /\ pc = "prefill" /\ remaining # 0 => \A s \in Batch : status[s] = "RUNNING"

(* The inductive invariant of the engine whose steps may fail.             *)
FailureInv ==
  /\ Covered /\ Placed /\ NoneDropped /\ Planned
  /\ pc \in {"idle", "prefill", "decode", "append", "run", "post", "raised"}

(* A call of the allocator, by a caller that may have lost count.          *)
PoolStep == [LaxNext]_bmVars

(* A step that leaves the allocator alone.                                 *)
LEMMA SamePool ==
  ASSUME PoolInv, UNCHANGED bmVars
  PROVE  PoolInv' /\ PoolStep
BY StutterKeeps DEF PoolStep

(* The pool stays in order.                                                *)
LEMMA StepsPool ==
  ASSUME PoolInv, PoolStep
  PROVE  PoolInv'
BY PoolNext DEF PoolStep

(* A sequence whose fields a step leaves alone.                            *)
LEMMA TableCoversStill ==
  ASSUME NEW s \in Seqs, TableCovers(s),
         token_ids'[s] = token_ids[s], num_cached_tokens'[s] = num_cached_tokens[s],
         block_table'[s] = block_table[s], request' = request,
         status'[s] = status[s], num_scheduled_tokens'[s] = num_scheduled_tokens[s]
  PROVE  TableCovers(s)'
BY DEF TableCovers, num_blocks

(* The start of the engine.                                                *)
LEMMA FailureStarts == CoreInit => FailureInv
<1> SUFFICES ASSUME CoreInit PROVE FailureInv
  OBVIOUS
<1>1. EngineInv
  BY EngineInit
<1>2. PoolInv /\ Fields /\ Placed /\ NoneDropped /\ pc = "idle"
  BY <1>1, BMParts DEF EngineInv, CoreInv, Sound, Exact, CoreInit
<1>3. /\ scheduled_seqs = <<>> /\ processed = 0 /\ status = [s \in Seqs |-> "NEW"]
      /\ token_ids = [s \in Seqs |-> <<>>] /\ block_table = [s \in Seqs |-> <<>>]
  BY DEF CoreInit, BMInit
<1>4. Planned
  BY <1>2, <1>3, NothingPending, EmptyBatch DEF Planned
<1>5. TablesCover
  BY <1>3 DEF TablesCover, TableCovers
<1> QED BY <1>2, <1>4, <1>5 DEF FailureInv, Covered

(* Without a batch there is nothing to plan.                               *)
LEMMA NothingPlanned ==
  ASSUME scheduled_seqs' = <<>>, processed' = 0
  PROVE  Planned' /\ Batch' = {} /\ Pending' = {}
<1>1. Batch' = {} /\ Pending' = {}
  BY EmptyBatch DEF Batch, Pending
<1>2. IsInjective(scheduled_seqs')
  BY EmptyBatch
<1> QED BY <1>1, <1>2 DEF Planned

(* An arrival.                                                             *)
LEMMA ArrivalCovered ==
  ASSUME FailureInv, NEW s \in Seqs, AddRequest(s)
  PROVE  FailureInv' /\ PoolStep
<1> USE DEF FailureInv, Covered
<1>1. /\ pc = "idle" /\ status[s] = "NEW" /\ token_ids[s] = <<>> /\ block_table[s] = <<>>
      /\ token_ids' = [token_ids EXCEPT ![s] = request[s].prompt]
      /\ status' = [status EXCEPT ![s] = "WAITING"]
      /\ waiting' = Append(waiting, s)
      /\ UNCHANGED <<num_cached_tokens, block_table, ref_count, hash,
                     hash_to_block_id, free_block_ids, used_block_ids, request,
                     is_prefill, num_scheduled_tokens, running, stepVars, kv>>
  BY DEF AddRequest, TablesCover, TableCovers
<1>2. /\ request[s].prompt \in Prompts /\ request[s].prompt \in Seq(Token)
      /\ request[s].prompt # <<>> /\ request[s].max_tokens \in Nat \ {0}
  BY FeasibleAssumption, PromptsAssumption DEF Fields
<1>3. PoolStep
  <2>1. BMCreate(s, request[s].prompt)
    BY <1>1 DEF BMCreate
  <2> QED BY <1>2, <2>1 DEF PoolStep, LaxNext
<1>4. PoolInv'
  BY <1>3, StepsPool
<1>5. Fields'
  BY <1>1 DEF Fields, stepVars
<1>6. s \notin Range(waiting) /\ s \notin Range(running)
  BY <1>1 DEF Placed
<1>7. Placed' /\ NoneDropped'
  <2>1. /\ waiting' \in Seq(Seqs) /\ IsInjective(waiting')
        /\ Range(waiting') = Range(waiting) \cup {s}
    BY <1>1, <1>6, Appended DEF Placed
  <2>2. Taken' = Taken /\ InHand' = InHand /\ Batch' = Batch
    BY <1>1 DEF Taken, InHand, Batch, InDecodeLoop, stepVars
  <2>3. \A r \in Seqs : status'[r] = IF r = s THEN "WAITING" ELSE status[r]
    BY <1>1 DEF Fields
  <2>4. UNCHANGED <<running, pc, cur>>
    BY <1>1 DEF stepVars
  <2> QED BY <1>1, <1>6, <2>1, <2>2, <2>3, <2>4 DEF Placed, NoneDropped
<1>8. Planned'
  <2>1. scheduled_seqs' = <<>> /\ processed' = 0
    BY <1>1 DEF Planned, stepVars
  <2> QED BY <2>1, NothingPlanned
<1>9. TablesCover'
  <2> SUFFICES ASSUME NEW r \in Seqs PROVE TableCovers(r)'
    BY DEF TablesCover
  <2>1. CASE r # s
    BY <1>1, <2>1, TableCoversStill DEF TablesCover, Fields
  <2>2. CASE r = s
    <3>1. token_ids'[s] = request[s].prompt /\ status'[s] = "WAITING"
          /\ block_table'[s] = <<>> /\ request' = request
      BY <1>1 DEF PoolInv, BMTypeOK, Fields
    <3>2. Len(request[s].prompt) \in Nat
      BY <1>2
    <3>3. TableCovers(s)'
      BY <1>2, <3>1, <3>2 DEF TableCovers
    <3> QED BY <2>2, <3>3
  <2> QED BY <2>1, <2>2
<1>10. pc' = pc
  BY <1>1 DEF stepVars
<1> QED BY <1>3, <1>4, <1>5, <1>7, <1>8, <1>9, <1>10

(* Steps that move on: the sequences, the deques and the pool stay.        *)
LEMMA StepMovesOn ==
  ASSUME FailureInv, UNCHANGED <<bmVars, queueVars, seqVars, cur>>,
         Taken = {}, Taken' = {}, pc # "append", pc' # "append",
         pc' \in {"idle", "prefill", "decode", "run", "post", "raised"},
         Fields', Planned'
  PROVE  FailureInv' /\ PoolStep
<1> USE DEF FailureInv, Covered
<1>1. PoolInv' /\ PoolStep
  BY SamePool
<1>2. Placed' /\ NoneDropped'
  BY DEF Placed, NoneDropped, InHand, queueVars, seqVars
<1>3. TablesCover'
  BY TableCoversStill DEF TablesCover, bmVars, seqVars
<1> QED BY <1>1, <1>2, <1>3

(* The start of a step.                                                    *)
LEMMA StepStarts ==
  ASSUME FailureInv, StartStep("prefill")
  PROVE  FailureInv' /\ PoolStep
<1> USE DEF FailureInv, Covered
<1>1. /\ pc = "idle" /\ pc' = "prefill" /\ scheduled_seqs = <<>> /\ processed = 0
      /\ UNCHANGED <<bmVars, queueVars, seqVars, kv, scheduled_seqs,
                     num_batched_tokens, batch_is_prefill, cur, processed>>
  BY DEF StartStep, Planned
<1>2. Fields'
  BY <1>1 DEF Fields, seqVars
<1>3. Planned' /\ Taken = {} /\ Taken' = {}
  BY <1>1, NothingPlanned DEF Taken, InDecodeLoop
<1> QED BY <1>1, <1>2, <1>3, StepMovesOn

(* The prefill loop ends with a batch to run, or goes on to decode.        *)
LEMMA PrefillEnds ==
  ASSUME FailureInv, EndPrefill("decode")
  PROVE  FailureInv' /\ PoolStep
<1> USE DEF FailureInv, Covered
<1>1. /\ pc = "prefill" /\ batch_is_prefill' = TRUE /\ processed = 0
      /\ pc' = IF scheduled_seqs # <<>> THEN "run" ELSE "decode"
      /\ UNCHANGED <<bmVars, queueVars, seqVars, kv, scheduled_seqs,
                     num_batched_tokens, cur, processed>>
  BY DEF EndPrefill, Planned
<1>2. Fields'
  BY <1>1 DEF Fields, seqVars
<1>3. Planned' /\ Taken = {} /\ Taken' = {}
  <2>1. CASE scheduled_seqs = <<>>
    BY <1>1, <2>1, NothingPlanned DEF Taken, InDecodeLoop
  <2>2. CASE scheduled_seqs # <<>>
    <3>1. /\ Pending' = Pending /\ ~ Decoding' /\ pc' = "run"
          /\ UNCHANGED <<num_scheduled_tokens, block_table, scheduled_seqs, processed>>
      BY <1>1, <2>2 DEF Pending, Decoding, InDecodeLoop, bmVars, seqVars
    <3> QED BY <1>1, <3>1 DEF Planned, Taken, InDecodeLoop
  <2> QED BY <2>1, <2>2
<1> QED BY <1>1, <1>2, <1>3, StepMovesOn

(* The forward pass succeeds.                                              *)
LEMMA PassSucceeds ==
  ASSUME FailureInv, RunModel
  PROVE  FailureInv' /\ PoolStep
<1> USE DEF FailureInv, Covered
<1>1. /\ pc = "run" /\ pc' = "post"
      /\ UNCHANGED <<bmVars, queueVars, seqVars, scheduled_seqs,
                     num_batched_tokens, batch_is_prefill, cur, processed>>
  BY DEF RunModel
<1>2. Fields'
  BY <1>1 DEF Fields, seqVars
<1>3. Planned' /\ Taken = {} /\ Taken' = {}
  <2>1. /\ Pending' = Pending /\ (Decoding' <=> Decoding)
        /\ UNCHANGED <<num_scheduled_tokens, block_table, scheduled_seqs, processed, status>>
    BY <1>1 DEF Pending, Decoding, InDecodeLoop, bmVars, seqVars
  <2> QED BY <1>1, <2>1 DEF Planned, Taken, InDecodeLoop
<1> QED BY <1>1, <1>2, <1>3, StepMovesOn

(* The step is over, its batch processed or dropped.                       *)
LEMMA BatchGone ==
  ASSUME FailureInv, pc \in {"run", "post", "raised"}, pc' = "idle",
         scheduled_seqs' = <<>>, num_batched_tokens' = 0, processed' = 0,
         UNCHANGED <<bmVars, queueVars, seqVars, batch_is_prefill, cur>>
  PROVE  FailureInv' /\ PoolStep
<1>1. Fields'
  BY EmptyBatch, LimitsAssumption DEF FailureInv, Covered, Fields, seqVars
<1>2. Planned' /\ Taken = {} /\ Taken' = {}
  BY NothingPlanned DEF Taken, InDecodeLoop
<1> QED BY <1>1, <1>2, StepMovesOn

(* The prefill loop.  Something is left to compute for a waiting sequence, *)
(* and its budget is not exceeded.                                         *)
LEMMA LeftToCompute ==
  ASSUME Covered, NEW s \in Seqs, status[s] = "WAITING"
  PROVE  /\ num_tokens(s) \in Nat \ {0} /\ remaining \in Nat
         /\ Len(token_ids[s]) \in Nat
         /\ block_table[s] = <<>> =>
              /\ num_cached_blocks(s) * BlockSize \in Nat
              /\ num_tokens(s) = Len(token_ids[s]) - num_cached_blocks(s) * BlockSize
         /\ block_table[s] # <<>> =>
              num_tokens(s) = Len(token_ids[s]) - num_cached_tokens[s]
<1> USE DEF Covered
<1>1. /\ token_ids[s] \in Seq(Token) /\ token_ids[s] # <<>>
      /\ num_cached_tokens[s] \in Nat /\ num_scheduled_tokens[s] \in Nat
      /\ block_table[s] # <<>> =>
           num_cached_tokens[s] + num_scheduled_tokens[s] < Len(token_ids[s])
  BY LimitsAssumption DEF TablesCover, TableCovers, PoolInv, BMTypeOK, Fields
<1>2. Len(token_ids[s]) \in Nat /\ Len(token_ids[s]) > 0
  BY <1>1, EmptySeq
<1>3. remaining \in Nat
  BY LimitsAssumption DEF Fields, remaining
<1>4. CASE block_table[s] # <<>>
  BY <1>1, <1>2, <1>3, <1>4 DEF num_tokens
<1>5. CASE block_table[s] = <<>>
  <2> DEFINE k == num_cached_blocks(s)
             m == num_blocks(s)
             l == Len(token_ids[s])
  <2>1. m \in Nat /\ m > 0 /\ (m - 1) * BlockSize < l
    BY <1>2, BlocksForBounds DEF num_blocks
  <2>2. k \in 0 .. m - 1
    BY <1>1, CachedBlocksHit DEF PoolInv
  <2>3. num_tokens(s) = l - k * BlockSize
    BY <1>5 DEF num_tokens
  <2> HIDE DEF k, m, l
  <2>4. m - 1 \in Nat /\ k \in Nat /\ k <= m - 1
    BY <2>1, <2>2
  <2>5. k * BlockSize \in Nat /\ (m - 1) * BlockSize \in Nat
        /\ k * BlockSize <= (m - 1) * BlockSize
    BY <2>4, TimesBlockSize
  <2>6. l - k * BlockSize \in Nat \ {0}
    BY <1>2, <2>1, <2>5 DEF l
  <2> QED BY <1>2, <1>3, <1>5, <2>3, <2>5, <2>6 DEF k, l
<1> QED BY <1>4, <1>5

(* A visit gives the sequence blocks for all its tokens, if it has none.   *)
LEMMA VisitFillsTable ==
  ASSUME Covered, NEW s \in Seqs, status[s] = "WAITING", HasBlocks(s),
         AllocateOnFirstVisit(s), UNCHANGED token_ids
  PROVE  /\ PoolStep
         /\ num_cached_tokens'[s] \in Nat
         /\ num_cached_tokens'[s] + num_tokens(s) = Len(token_ids[s])
         /\ block_table'[s] # <<>> /\ Len(block_table'[s]) >= num_blocks(s)
         /\ \A r \in Seqs : r # s => /\ num_cached_tokens'[r] = num_cached_tokens[r]
                                     /\ block_table'[r] = block_table[r]
<1> USE DEF Covered
<1>1. /\ token_ids[s] \in Seq(Token) /\ token_ids[s] # <<>>
      /\ block_table \in [Seqs -> Seq(Blocks)] /\ num_cached_tokens \in [Seqs -> Nat]
      /\ Len(token_ids[s]) \in Nat
  BY DEF TablesCover, TableCovers, PoolInv, BMTypeOK
<1>2. CASE block_table[s] # <<>>
  <2>1. UNCHANGED bmVars
    BY <1>2 DEF AllocateOnFirstVisit, bmVars
  <2>2. Len(block_table[s]) >= num_blocks(s)
    BY <1>2 DEF TablesCover, TableCovers
  <2> QED BY <1>1, <1>2, <2>1, <2>2, LeftToCompute, SamePool DEF bmVars
<1>3. CASE block_table[s] = <<>>
  <2>1. can_allocate(s) /\ allocate(s)
    BY <1>3 DEF HasBlocks, AllocateOnFirstVisit
  <2>2. BMAllocate(s)
    BY <1>1, <1>3, <2>1 DEF BMAllocate
  <2>3. PoolStep
    BY <2>2 DEF PoolStep, LaxNext
  <2> DEFINE table == CachedIds(s) \o FreshIds(s)
  <2>4. /\ block_table' = [block_table EXCEPT ![s] = table]
        /\ num_cached_tokens' =
             [num_cached_tokens EXCEPT ![s] = num_cached_blocks(s) * BlockSize]
    BY <2>1 DEF allocate
  <2>5. table \in Seq(Blocks) /\ Len(table) = num_blocks(s)
    BY <1>1, <2>1, AllocatedTable
  <2>6. num_blocks(s) \in Nat \ {0}
    BY <1>1, CachedBlocksHit DEF PoolInv
  <2> HIDE DEF table
  <2>7. block_table'[s] = table /\ table # <<>>
    BY <1>1, <2>4, <2>5, <2>6, EmptyBatch
  <2>8. /\ num_cached_tokens'[s] = num_cached_blocks(s) * BlockSize
        /\ num_cached_tokens'[s] \in Nat
        /\ num_cached_tokens'[s] + num_tokens(s) = Len(token_ids[s])
    BY <1>1, <1>3, <2>4, LeftToCompute
  <2>9. Len(block_table'[s]) >= num_blocks(s)
    BY <2>5, <2>6, <2>7
  <2>10. \A r \in Seqs : r # s => /\ num_cached_tokens'[r] = num_cached_tokens[r]
                                  /\ block_table'[r] = block_table[r]
    BY <1>1, <2>4
  <2> QED BY <2>3, <2>7, <2>8, <2>9, <2>10
<1> QED BY <1>2, <1>3

(* It is given n of the tokens that are left.                              *)
LEMMA VisitCovered ==
  ASSUME Covered, NEW s \in Seqs, status[s] = "WAITING", HasBlocks(s),
         NEW n \in Nat, 0 < n, n <= num_tokens(s), n <= remaining,
         AllocateOnFirstVisit(s),
         num_scheduled_tokens' = [num_scheduled_tokens EXCEPT ![s] = n],
         num_batched_tokens' = num_batched_tokens + n,
         status' = IF n = num_tokens(s) THEN [status EXCEPT ![s] = "RUNNING"] ELSE status,
         scheduled_seqs' \in Seq(Seqs), processed' \in 0 .. Len(scheduled_seqs'),
         UNCHANGED <<token_ids, request, is_prefill, batch_is_prefill>>
  PROVE  /\ Covered' /\ PoolStep
         /\ block_table'[s] # <<>>
         /\ \A r \in Seqs : r # s => block_table'[r] = block_table[r]
<1> USE DEF Covered
<1> DEFINE all == n = num_tokens(s)
<1>1. /\ PoolStep
      /\ num_cached_tokens'[s] \in Nat
      /\ num_cached_tokens'[s] + num_tokens(s) = Len(token_ids[s])
      /\ block_table'[s] # <<>> /\ Len(block_table'[s]) >= num_blocks(s)
      /\ \A r \in Seqs : r # s => /\ num_cached_tokens'[r] = num_cached_tokens[r]
                                  /\ block_table'[r] = block_table[r]
  BY VisitFillsTable
<1>2. PoolInv'
  BY <1>1, StepsPool
<1>3. /\ \A r \in Seqs : status'[r] = IF all /\ r = s THEN "RUNNING" ELSE status[r]
      /\ \A r \in Seqs : num_scheduled_tokens'[r] = IF r = s THEN n ELSE num_scheduled_tokens[r]
      /\ status' \in [Seqs -> {"NEW", "WAITING", "RUNNING", "FINISHED"}]
  BY DEF Fields
<1>4. n <= MaxBatchedTokens /\ num_batched_tokens + n \in 0 .. MaxBatchedTokens
  BY LimitsAssumption DEF Fields, remaining
<1>5. Fields'
  <2>1. num_scheduled_tokens' \in [Seqs -> 0 .. MaxBatchedTokens]
    BY <1>4 DEF Fields
  <2> QED BY <1>3, <1>4, <2>1 DEF Fields
<1>6. TablesCover'
  <2> SUFFICES ASSUME NEW r \in Seqs PROVE TableCovers(r)'
    BY DEF TablesCover
  <2>1. CASE r # s
    BY <1>1, <1>3, <2>1, TableCoversStill DEF TablesCover
  <2>2. CASE r = s
    <3>1. /\ token_ids'[s] = token_ids[s] /\ request' = request
          /\ num_scheduled_tokens'[s] = n
          /\ status'[s] = IF all THEN "RUNNING" ELSE "WAITING"
          /\ num_blocks(s)' = num_blocks(s)
      BY <1>3 DEF num_blocks
    <3>2. /\ token_ids[s] # <<>>
          /\ Len(token_ids[s]) < Len(request[s].prompt) + request[s].max_tokens
      BY DEF TablesCover, TableCovers
    <3>3. /\ all => num_cached_tokens'[s] + n <= Len(token_ids[s])
          /\ ~ all => num_cached_tokens'[s] + n < Len(token_ids[s])
      BY <1>1, LeftToCompute
    <3> HIDE DEF all
    <3>4. TableCovers(s)'
      BY <1>1, <3>1, <3>2, <3>3 DEF TableCovers
    <3> QED BY <2>2, <3>4
  <2> QED BY <2>1, <2>2
<1> QED BY <1>1, <1>2, <1>5, <1>6

(* The head of waiting joins the batch, which has not met it before: all   *)
(* of the batch is running.                                                *)
LEMMA HeadJoins ==
  ASSUME FailureInv, PrefillHead
  PROVE  FailureInv' /\ PoolStep
<1> USE DEF FailureInv
<1>1. pc = "prefill" /\ waiting # <<>> /\ remaining # 0
  BY DEF PrefillHead, CanPrefillHead
<1>2. PICK s \in Seqs : s = Head(waiting) /\ status[s] = "WAITING"
  BY <1>1, HeadWaits
<1>3. PICK n \in Nat : n = Smaller(num_tokens(s), remaining) /\ 0 < n
                       /\ n <= num_tokens(s) /\ n <= remaining
                       /\ (n = num_tokens(s) \/ n = remaining)
  BY <1>1, <1>2, LeftToCompute DEF Smaller
<1> DEFINE all == n = num_tokens(s)
<1>4. /\ HasBlocks(s)
      /\ AllocateOnFirstVisit(s)
      /\ num_scheduled_tokens' = [num_scheduled_tokens EXCEPT ![s] = n]
      /\ num_batched_tokens' = num_batched_tokens + n
      /\ status' = IF n = num_tokens(s) THEN [status EXCEPT ![s] = "RUNNING"] ELSE status
      /\ waiting' = IF n = num_tokens(s) THEN Tail(waiting) ELSE waiting
      /\ running' = IF n = num_tokens(s) THEN Append(running, s) ELSE running
      /\ scheduled_seqs' = Append(scheduled_seqs, s)
      /\ UNCHANGED <<token_ids, request, is_prefill, pc, batch_is_prefill, cur, processed>>
  BY <1>2, <1>3 DEF PrefillHead, CanPrefillHead, queueVars
<1>5. /\ waiting' \in Seq(Seqs) /\ IsInjective(waiting')
      /\ Range(waiting') = IF all THEN Range(waiting) \ {s} ELSE Range(waiting)
  BY <1>1, <1>2, <1>4, HeadMoves DEF Placed
<1>6. s \notin Range(running) /\ s \notin Batch
  BY <1>1, <1>2 DEF Placed, Planned
<1>7. /\ scheduled_seqs' \in Seq(Seqs) /\ Len(scheduled_seqs') = Len(scheduled_seqs) + 1
      /\ Batch' = Batch \cup {s} /\ IsInjective(scheduled_seqs')
  BY <1>2, <1>4, <1>6, Appended DEF Covered, Fields, Batch, Planned
<1>8. processed = 0 /\ processed' = 0 /\ ~ Decoding' /\ ~ InDecodeLoop /\ ~ InDecodeLoop'
  BY <1>1, <1>4 DEF Planned, Decoding, InDecodeLoop
<1>9. processed' \in 0 .. Len(scheduled_seqs')
  BY <1>7, <1>8, LenProperties DEF Covered, Fields
<1>10. /\ Covered' /\ PoolStep
       /\ block_table'[s] # <<>>
       /\ \A r \in Seqs : r # s => block_table'[r] = block_table[r]
  BY <1>2, <1>3, <1>4, <1>7, <1>9, VisitCovered
<1>11. /\ \A r \in Seqs : status'[r] = IF all /\ r = s THEN "RUNNING" ELSE status[r]
       /\ \A r \in Seqs : num_scheduled_tokens'[r] = IF r = s THEN n ELSE num_scheduled_tokens[r]
  BY <1>4 DEF Covered, Fields
<1>12. Placed' /\ NoneDropped'
  <2>1. /\ running' \in Seq(Seqs) /\ IsInjective(running')
        /\ Range(running') = IF all THEN Range(running) \cup {s} ELSE Range(running)
    <3>1. /\ Append(running, s) \in Seq(Seqs) /\ IsInjective(Append(running, s))
          /\ Range(Append(running, s)) = Range(running) \cup {s}
      BY <1>2, <1>6, Appended DEF Placed
    <3>2. running' = IF all THEN Append(running, s) ELSE running
      BY <1>4
    <3> HIDE DEF all
    <3> QED BY <3>1, <3>2 DEF Placed
  <2>2. Taken = {} /\ InHand = {} /\ Taken' = {} /\ InHand' = {}
    BY <1>1, <1>4, <1>8 DEF Taken, InHand
  <2>3. cur' = cur /\ pc' = "prefill" /\ pc = "prefill"
    BY <1>1, <1>4
  <2> HIDE DEF all
  <2> QED BY <1>2, <1>5, <1>6, <1>11, <2>1, <2>2, <2>3, RangeInSeqs DEF Placed, NoneDropped
<1>13. Planned'
  <2>1. Pending = Batch /\ Batch \subseteq Seqs /\ Pending' = Batch'
    <3>1. Pending = Batch /\ Batch \subseteq Seqs
      BY <1>8, AllPending DEF Covered
    <3>2. Pending' = Batch'
      BY <1>7, <1>8, AllOf DEF Pending, Batch
    <3> QED BY <3>1, <3>2
  <2>2. \A r \in Pending' : num_scheduled_tokens'[r] > 0 /\ block_table'[r] # <<>>
    BY <1>3, <1>6, <1>7, <1>10, <1>11, <2>1 DEF Planned
  <2>3. ASSUME remaining' # 0 PROVE \A r \in Batch' : status'[r] = "RUNNING"
    <3>1. remaining' = remaining - n /\ remaining \in Nat
      <4>1. num_batched_tokens \in Nat /\ MaxBatchedTokens \in Nat
        BY LimitsAssumption DEF Covered, Fields
      <4> QED BY <1>2, <1>4, <4>1, LeftToCompute DEF remaining
    <3>2. n = num_tokens(s)
      BY <1>3, <2>3, <3>1
    <3> QED BY <1>1, <1>6, <1>7, <1>11, <2>1, <3>2 DEF Planned
  <2> QED BY <1>1, <1>4, <1>7, <1>8, <2>2, <2>3 DEF Planned
<1> QED BY <1>1, <1>4, <1>10, <1>12, <1>13

(* The decode loop: its batch is disjoint from the two deques.             *)
LEMMA BatchInHand ==
  ASSUME FailureInv, InDecodeLoop
  PROVE  /\ processed = 0 /\ Pending = Batch /\ Batch \subseteq Seqs
         /\ Taken = Batch /\ Decoding
         /\ \A s \in Batch : status[s] = "RUNNING"
<1> USE DEF FailureInv
<1>1. processed = 0 /\ Taken = Batch /\ Decoding
  BY DEF Planned, InDecodeLoop, Taken, Decoding
<1>2. Pending = Batch /\ Batch \subseteq Seqs
  BY <1>1, AllPending DEF Covered
<1> QED BY <1>1, <1>2 DEF Planned

(* The oldest running sequence is taken in hand.                           *)
LEMMA OldestTaken ==
  ASSUME FailureInv, PopRunning
  PROVE  FailureInv' /\ PoolStep
<1> USE DEF FailureInv, Covered
<1>1. /\ pc = "decode" /\ running # <<>> /\ cur' = Head(running)
      /\ running' = Tail(running) /\ pc' = "append"
      /\ UNCHANGED <<bmVars, seqVars, waiting, scheduled_seqs, num_batched_tokens,
                     batch_is_prefill, processed>>
  BY DEF PopRunning, CanDecode
<1>2. InDecodeLoop /\ InDecodeLoop'
  BY <1>1 DEF InDecodeLoop
<1>3. PoolInv' /\ PoolStep
  BY <1>1, SamePool
<1>4. Fields'
  BY <1>1 DEF Fields, seqVars
<1>5. /\ cur' \in Seqs /\ running' \in Seq(Seqs) /\ IsInjective(running')
      /\ cur' \notin Range(running') /\ Range(running) = Range(running') \cup {cur'}
  BY <1>1, Popped DEF Placed
<1>6. Taken = Batch /\ Taken' = Batch /\ Batch' = Batch /\ InHand = {} /\ InHand' = {cur'}
  BY <1>1, <1>2 DEF Taken, Batch, InHand
<1>7. Placed' /\ NoneDropped'
  <2>1. cur' # NoSeq
    BY <1>5, NoSeqIsNone
  <2>2. UNCHANGED <<waiting, status>> /\ pc' = "append"
    BY <1>1 DEF seqVars
  <2>3. cur' \notin Range(waiting) /\ cur' \notin Batch
    BY <1>5, <1>6 DEF Placed
  <2> QED BY <1>5, <1>6, <2>1, <2>2, <2>3 DEF Placed, NoneDropped
<1>8. Planned'
  <2>1. /\ Batch' = Batch /\ Pending' = Pending
        /\ UNCHANGED <<status, num_scheduled_tokens, scheduled_seqs, processed, block_table>>
    BY <1>1 DEF Batch, Pending, seqVars, bmVars
  <2>2. Decoding /\ Decoding'
    BY <1>2 DEF Decoding
  <2> QED BY <1>1, <2>1, <2>2 DEF Planned
<1>9. TablesCover'
  BY <1>1, TableCoversStill DEF TablesCover, bmVars, seqVars
<1> QED BY <1>1, <1>3, <1>4, <1>7, <1>8, <1>9

(* A preempted sequence, which is no member of the batch, loses its blocks *)
(* and waits.                                                              *)
LEMMA VictimWaits ==
  ASSUME FailureInv, pc = "append", NEW s \in Seqs, s \in Range(running) \cup {cur},
         preempt(s), UNCHANGED <<token_ids, hash, hash_to_block_id, request,
                                 num_scheduled_tokens, scheduled_seqs,
                                 num_batched_tokens, batch_is_prefill, processed>>,
         pc' \in {"decode", "append"}
  PROVE  /\ Covered' /\ PoolStep /\ Planned'
         /\ \A r \in Seqs : status'[r] = IF r = s THEN "WAITING" ELSE status[r]
         /\ waiting' \in Seq(Seqs) /\ IsInjective(waiting')
         /\ Range(waiting') = Range(waiting) \cup {s}
         /\ s \notin Range(waiting) /\ s \notin Batch
<1> USE DEF FailureInv, Covered
<1>1. InDecodeLoop /\ InDecodeLoop'
  BY DEF InDecodeLoop
<1>2. s \notin Batch /\ status[s] = "RUNNING" /\ s \notin Range(waiting)
  BY <1>1, BatchInHand DEF Placed, InHand
<1>3. /\ status' = [status EXCEPT ![s] = "WAITING"]
      /\ is_prefill' = [is_prefill EXCEPT ![s] = TRUE]
      /\ deallocate(s) /\ waiting' = <<s>> \o waiting
  BY DEF preempt
<1>4. block_table[s] # <<>>
  BY <1>2 DEF TablesCover, TableCovers
<1>5. PoolStep
  <2>1. BMRelease(s)
    BY <1>3, <1>4 DEF BMRelease
  <2> QED BY <2>1 DEF PoolStep, LaxNext
<1>6. PoolInv'
  BY <1>5, StepsPool
<1>7. /\ status' \in [Seqs -> {"NEW", "WAITING", "RUNNING", "FINISHED"}]
      /\ is_prefill' \in [Seqs -> BOOLEAN]
      /\ \A r \in Seqs : status'[r] = IF r = s THEN "WAITING" ELSE status[r]
  BY <1>3 DEF Fields
<1>8. /\ waiting' \in Seq(Seqs) /\ IsInjective(waiting')
      /\ Range(waiting') = Range(waiting) \cup {s}
  BY <1>2, <1>3, Pushed DEF Placed
<1>9. /\ block_table'[s] = <<>>
      /\ \A r \in Seqs : r # s => /\ num_cached_tokens'[r] = num_cached_tokens[r]
                                  /\ block_table'[r] = block_table[r]
  BY <1>3, DeallocateEffect
<1>10. Fields'
  BY <1>7 DEF Fields
<1>11. TablesCover'
  <2> SUFFICES ASSUME NEW r \in Seqs PROVE TableCovers(r)'
    BY DEF TablesCover
  <2>1. CASE r # s
    BY <1>7, <1>9, <2>1, TableCoversStill DEF TablesCover
  <2>2. CASE r = s
    <3>1. /\ token_ids[s] # <<>>
          /\ Len(token_ids[s]) < Len(request[s].prompt) + request[s].max_tokens
      BY <1>2 DEF TablesCover, TableCovers
    <3>2. status'[s] = "WAITING"
      BY <1>7
    <3>3. TableCovers(s)'
      BY <1>9, <3>1, <3>2 DEF TableCovers
    <3> QED BY <2>2, <3>3
  <2> QED BY <2>1, <2>2
<1>12. Planned'
  <2>1. Pending' = Pending /\ Pending = Batch /\ Batch \subseteq Seqs /\ processed' = 0
        /\ Decoding /\ Decoding'
    BY <1>1, BatchInHand DEF Pending, Decoding
  <2>2. \A r \in Pending : status'[r] = status[r] /\ block_table'[r] = block_table[r]
    BY <1>2, <1>7, <1>9, <2>1
  <2> QED BY <2>1, <2>2 DEF Planned
<1> QED BY <1>2, <1>5, <1>6, <1>7, <1>8, <1>10, <1>11, <1>12

(* The newest running sequence makes room for the one in hand.             *)
LEMMA NewestMakesRoom ==
  ASSUME FailureInv, PreemptNewest
  PROVE  FailureInv' /\ PoolStep
<1> USE DEF FailureInv
<1>1. /\ pc = "append" /\ running # <<>> /\ preempt(running[Len(running)])
      /\ running' = SubSeq(running, 1, Len(running) - 1)
      /\ UNCHANGED <<token_ids, hash, hash_to_block_id, request,
                     num_scheduled_tokens, stepVars>>
  BY DEF PreemptNewest
<1>2. PICK s \in Seqs :
        /\ s = running[Len(running)]
        /\ running' \in Seq(Seqs) /\ IsInjective(running') /\ s \notin Range(running')
        /\ Range(running) = {s} \cup Range(running')
  BY <1>1, Shortened DEF Placed, Last, Front
<1>3. InDecodeLoop /\ InDecodeLoop'
  BY <1>1 DEF InDecodeLoop, stepVars
<1>4. /\ Covered' /\ PoolStep /\ Planned'
      /\ \A r \in Seqs : status'[r] = IF r = s THEN "WAITING" ELSE status[r]
      /\ waiting' \in Seq(Seqs) /\ IsInjective(waiting')
      /\ Range(waiting') = Range(waiting) \cup {s}
      /\ s \notin Range(waiting) /\ s \notin Batch
  BY <1>1, <1>2, VictimWaits DEF stepVars
<1>5. Taken = Batch /\ Taken' = Batch /\ Batch' = Batch /\ InHand = {cur} /\ InHand' = {cur}
      /\ pc' = "append" /\ cur' = cur
  BY <1>1, <1>3 DEF Taken, Batch, InHand, stepVars
<1>6. Placed' /\ NoneDropped'
  <2>1. cur \notin Range(running) \cup Batch /\ cur \in Seqs /\ cur # NoSeq
    BY <1>1, <1>2 DEF Placed
  <2>2. /\ Range(waiting) \cap Range(running) = {} /\ Batch \cap Range(running) = {}
        /\ \A r \in Seqs : r \in Range(waiting) <=> status[r] = "WAITING"
        /\ \A r \in Seqs : r \in Range(running) \cup Batch \cup {cur} <=> status[r] = "RUNNING"
    BY <1>5, RangeInSeqs DEF Placed, NoneDropped
  <2>3. /\ Range(waiting') \cap Range(running') = {} /\ Batch \cap Range(running') = {}
        /\ \A r \in Seqs : r \in Range(waiting') <=> status'[r] = "WAITING"
    BY <1>2, <1>4, <2>2
  <2>4. \A r \in Seqs : r \in Range(running') \cup Batch \cup {cur} <=> status'[r] = "RUNNING"
    <3>1. s \notin Range(running') \cup Batch \cup {cur}
      BY <1>2, <1>4, <2>1
    <3> QED BY <1>2, <1>4, <2>2, <3>1
  <2>5. Range(running') \cup Taken' \cup InHand' \subseteq Seqs
    BY <1>2, <1>3, <1>5, <2>1, RangeInSeqs, BatchInHand
  <2>6. Placed'
    BY <1>2, <1>4, <1>5, <2>1, <2>3, <2>4, <2>5 DEF Placed
  <2>7. NoneDropped'
    BY <1>5, <2>4 DEF NoneDropped
  <2> QED BY <2>6, <2>7
<1> QED BY <1>4, <1>5, <1>6

(* The one in hand goes back, as no other is left to make room.            *)
LEMMA CurGoesBack ==
  ASSUME FailureInv, PreemptSelf
  PROVE  FailureInv' /\ PoolStep
<1> USE DEF FailureInv
<1>1. /\ pc = "append" /\ running = <<>> /\ preempt(cur)
      /\ cur' = NoSeq /\ pc' = "decode"
      /\ UNCHANGED <<token_ids, hash, hash_to_block_id, request,
                     num_scheduled_tokens, running, scheduled_seqs,
                     num_batched_tokens, batch_is_prefill, processed>>
  BY DEF PreemptSelf
<1>2. PICK s \in Seqs : s = cur
  BY <1>1 DEF Placed
<1>3. InDecodeLoop /\ InDecodeLoop'
  BY <1>1 DEF InDecodeLoop
<1>4. /\ Covered' /\ PoolStep /\ Planned'
      /\ \A r \in Seqs : status'[r] = IF r = s THEN "WAITING" ELSE status[r]
      /\ waiting' \in Seq(Seqs) /\ IsInjective(waiting')
      /\ Range(waiting') = Range(waiting) \cup {s}
      /\ s \notin Range(waiting) /\ s \notin Batch
  BY <1>1, <1>2, VictimWaits
<1>5. /\ Taken = Batch /\ Taken' = Batch /\ Batch' = Batch
      /\ InHand = {s} /\ InHand' = {}
  BY <1>1, <1>2, <1>3 DEF Taken, Batch, InHand
<1>6. Placed' /\ NoneDropped'
  <2>1. s \notin Range(running)
    BY <1>1, <1>2 DEF Placed
  <2>2. /\ running' = running /\ running \in Seq(Seqs) /\ IsInjective(running)
        /\ Range(waiting) \cap Range(running) = {}
        /\ Batch \cap Range(running) = {}
        /\ \A r \in Seqs : r \in Range(waiting) <=> status[r] = "WAITING"
        /\ \A r \in Seqs : r \in Range(running) \cup Batch \cup {s} <=> status[r] = "RUNNING"
    BY <1>1, <1>5, RangeInSeqs DEF Placed, NoneDropped
  <2>3. Range(running) \cup Batch \subseteq Seqs
    BY <1>3, <2>2, RangeInSeqs, BatchInHand
  <2>4. \A r \in Seqs : r \in Range(running) \cup Batch <=> status'[r] = "RUNNING"
    BY <1>4, <2>1, <2>2
  <2>5. /\ Range(waiting') \cap Range(running) = {}
        /\ \A r \in Seqs : r \in Range(waiting') <=> status'[r] = "WAITING"
    BY <1>4, <2>1, <2>2
  <2>6. Placed'
    BY <1>1, <1>4, <1>5, <2>2, <2>3, <2>4, <2>5 DEF Placed
  <2>7. NoneDropped'
    BY <1>5, <2>2, <2>4 DEF NoneDropped
  <2> QED BY <2>6, <2>7
<1> QED BY <1>1, <1>4, <1>6

(* A running sequence gets a block when its last token starts one -- even  *)
(* if it got one for it in a step that failed -- and holds enough of them. *)
LEMMA RoomForToken ==
  ASSUME Covered, NEW s \in Seqs, status[s] = "RUNNING", can_append(s), may_append(s),
         num_scheduled_tokens' = [num_scheduled_tokens EXCEPT ![s] = 1],
         is_prefill' = [is_prefill EXCEPT ![s] = FALSE],
         scheduled_seqs' \in Seq(Seqs), processed' \in 0 .. Len(scheduled_seqs'),
         UNCHANGED <<token_ids, num_cached_tokens, request, status,
                     num_batched_tokens, batch_is_prefill>>
  PROVE  /\ Covered' /\ PoolStep
         /\ block_table'[s] # <<>>
         /\ \A r \in Seqs : r # s => block_table'[r] = block_table[r]
         /\ \A r \in Seqs : num_scheduled_tokens'[r] =
                              IF r = s THEN 1 ELSE num_scheduled_tokens[r]
<1> USE DEF Covered
<1> DEFINE l == Len(token_ids[s])
           held == Len(block_table[s])
<1>1. /\ block_table[s] # <<>> /\ token_ids[s] # <<>>
      /\ l < Len(request[s].prompt) + request[s].max_tokens
      /\ num_scheduled_tokens[s] = 0 => num_cached_tokens[s] < l /\ held >= BlocksFor(l - 1)
      /\ num_scheduled_tokens[s] > 0 =>
           num_cached_tokens[s] + num_scheduled_tokens[s] <= l /\ held >= BlocksFor(l)
  BY DEF TablesCover, TableCovers, num_blocks
<1>2. PoolStep
  <2>1. LaxAppend(s)
    BY DEF LaxAppend
  <2> QED BY <2>1 DEF PoolStep, LaxNext
<1>3. PoolInv'
  BY <1>2, StepsPool
<1>4. /\ l \in Nat /\ l > 0 /\ held \in Nat /\ num_scheduled_tokens[s] \in Nat
      /\ num_cached_tokens[s] \in Nat /\ block_table[s] \in Seq(Blocks)
      /\ block_table \in [Seqs -> Seq(Blocks)]
  <2>1. /\ token_ids[s] \in Seq(Token) /\ block_table[s] \in Seq(Blocks)
        /\ num_cached_tokens[s] \in Nat /\ block_table \in [Seqs -> Seq(Blocks)]
    BY DEF PoolInv, BMTypeOK
  <2>2. num_scheduled_tokens[s] \in Nat
    BY LimitsAssumption DEF Fields
  <2> HIDE DEF Covered
  <2>3. l \in Nat /\ l > 0 /\ held \in Nat
    BY <1>1, <2>1, EmptySeq, LenProperties
  <2> QED BY <2>1, <2>2, <2>3
<1>5. num_cached_tokens[s] + 1 <= l /\ held >= BlocksFor(l - 1)
  <2>1. BlocksFor(l - 1) <= BlocksFor(l) /\ BlocksFor(l - 1) \in Nat /\ BlocksFor(l) \in Nat
    <3>1. l - 1 \in Nat /\ l - 1 <= l
      BY <1>4
    <3> QED BY <1>4, <3>1, BlocksForMonotonic, BlocksForBounds
  <2>2. CASE num_scheduled_tokens[s] = 0
    <3>1. num_cached_tokens[s] < l /\ held >= BlocksFor(l - 1)
      BY <1>1, <2>2
    <3> QED BY ONLY <1>4, <3>1
  <2>3. CASE num_scheduled_tokens[s] > 0
    <3>1. num_cached_tokens[s] + num_scheduled_tokens[s] <= l /\ held >= BlocksFor(l)
      BY <1>1, <2>3
    <3> QED BY ONLY <1>4, <2>1, <2>3, <3>1
  <2> QED BY <1>4, <2>2, <2>3
<1>6. /\ Len(block_table'[s]) >= BlocksFor(l) /\ block_table'[s] # <<>>
      /\ \A r \in Seqs : r # s => block_table'[r] = block_table[r]
  <2>1. CASE l % BlockSize = 1
    <3>1. block_table' = [block_table EXCEPT ![s] = Append(@, Head(free_block_ids))]
      BY <2>1 DEF may_append
    <3>2. block_table'[s] = Append(block_table[s], Head(free_block_ids))
      BY <1>4, <3>1
    <3>3. Len(block_table'[s]) = held + 1
      BY <1>4, <3>2
    <3>4. BlocksFor(l) = BlocksFor(l - 1) + 1
      BY <1>4, <2>1, NewBlockStarts
    <3>5. BlocksFor(l - 1) \in Nat
      <4>1. l - 1 \in Nat
        BY <1>4
      <4> QED BY <4>1, BlocksForBounds
    <3>6. block_table'[s] # <<>> /\ Len(block_table'[s]) >= BlocksFor(l)
      <4> HIDE DEF l, held
      <4> QED BY <1>4, <1>5, <3>3, <3>4, <3>5, EmptyBatch
    <3> QED BY <1>4, <3>1, <3>6
  <2>2. CASE l % BlockSize # 1
    <3>1. block_table' = block_table
      BY <2>2 DEF may_append
    <3>2. BlocksFor(l) = BlocksFor(l - 1)
      BY <1>4, <2>2, SameBlocks
    <3> QED BY <1>1, <1>5, <3>1, <3>2
  <2> QED BY <2>1, <2>2
<1>7. /\ \A r \in Seqs : num_scheduled_tokens'[r] = IF r = s THEN 1 ELSE num_scheduled_tokens[r]
      /\ num_scheduled_tokens' \in [Seqs -> 0 .. MaxBatchedTokens]
      /\ is_prefill' \in [Seqs -> BOOLEAN]
  BY LimitsAssumption DEF Fields
<1>8. Fields'
  BY <1>7 DEF Fields
<1>9. TablesCover'
  <2> SUFFICES ASSUME NEW r \in Seqs PROVE TableCovers(r)'
    BY DEF TablesCover
  <2>1. CASE r # s
    BY <1>6, <1>7, <2>1, TableCoversStill DEF TablesCover
  <2>2. CASE r = s
    <3>1. /\ token_ids'[s] = token_ids[s] /\ num_blocks(s)' = BlocksFor(l)
          /\ status'[s] = "RUNNING" /\ request' = request
          /\ num_cached_tokens'[s] = num_cached_tokens[s] /\ num_scheduled_tokens'[s] = 1
      BY <1>7 DEF num_blocks
    <3>2. TableCovers(s)'
      BY <1>1, <1>4, <1>5, <1>6, <3>1 DEF TableCovers
    <3> QED BY <2>2, <3>2
  <2> QED BY <2>1, <2>2
<1> QED BY <1>2, <1>3, <1>6, <1>7, <1>8, <1>9

(* The one in hand joins the batch.                                        *)
LEMMA CurJoins ==
  ASSUME FailureInv, DecodeCur
  PROVE  FailureInv' /\ PoolStep
<1> USE DEF FailureInv
<1>1. /\ pc = "append" /\ can_append(cur)
      /\ num_scheduled_tokens' = [num_scheduled_tokens EXCEPT ![cur] = 1]
      /\ is_prefill' = [is_prefill EXCEPT ![cur] = FALSE]
      /\ may_append(cur)
      /\ scheduled_seqs' = Append(scheduled_seqs, cur)
      /\ cur' = NoSeq /\ pc' = "decode"
      /\ UNCHANGED <<token_ids, num_cached_tokens, request, status, queueVars,
                     num_batched_tokens, batch_is_prefill, processed>>
  BY DEF DecodeCur
<1>2. PICK s \in Seqs : s = cur
  BY <1>1 DEF Placed
<1>3. InDecodeLoop /\ InDecodeLoop'
  BY <1>1 DEF InDecodeLoop
<1>4. s \notin Batch /\ s \notin Range(running) /\ status[s] = "RUNNING"
  BY <1>1, <1>2 DEF Placed, InHand
<1>5. /\ scheduled_seqs' \in Seq(Seqs) /\ Len(scheduled_seqs') = Len(scheduled_seqs) + 1
      /\ Batch' = Batch \cup {s} /\ IsInjective(scheduled_seqs')
  BY <1>1, <1>2, <1>4, Appended DEF Covered, Fields, Batch, Planned
<1>6. processed = 0 /\ processed' = 0 /\ Decoding /\ Decoding' /\ Pending = Batch
      /\ Batch \subseteq Seqs /\ Taken = Batch
  BY <1>1, <1>3, BatchInHand DEF Decoding
<1>7. processed' \in 0 .. Len(scheduled_seqs')
  BY <1>5, <1>6, LenProperties DEF Covered, Fields
<1>8. /\ Covered' /\ PoolStep
      /\ block_table'[s] # <<>>
      /\ \A r \in Seqs : r # s => block_table'[r] = block_table[r]
      /\ \A r \in Seqs : num_scheduled_tokens'[r] =
                           IF r = s THEN 1 ELSE num_scheduled_tokens[r]
  BY <1>1, <1>2, <1>4, <1>5, <1>7, RoomForToken
<1>9. Pending' = Batch'
  BY <1>5, <1>6, AllOf DEF Pending, Batch
<1>10. Placed' /\ NoneDropped'
  <2>1. /\ Taken' = Batch \cup {s} /\ InHand = {s} /\ InHand' = {}
    BY <1>1, <1>2, <1>3, <1>5 DEF Taken, InHand
  <2> QED BY <1>1, <1>4, <1>6, <2>1, RangeInSeqs DEF Placed, NoneDropped, queueVars
<1>11. Planned'
  <2>1. \A r \in Pending' : /\ num_scheduled_tokens'[r] > 0 /\ block_table'[r] # <<>>
                            /\ status'[r] = "RUNNING"
    BY <1>1, <1>4, <1>5, <1>6, <1>8, <1>9 DEF Planned
  <2> QED BY <1>1, <1>5, <1>6, <2>1 DEF Planned
<1> QED BY <1>1, <1>8, <1>10, <1>11

(* The loop ends: its batch goes back to running, to be run if there is    *)
(* one; otherwise schedule() asserts.                                      *)
LEMMA DecodeEnds ==
  ASSUME FailureInv, EndDecode("raised")
  PROVE  FailureInv' /\ PoolStep
<1> USE DEF FailureInv, Covered
<1>1. /\ pc = "decode" /\ InDecodeLoop /\ running' = scheduled_seqs \o running
      /\ pc' = IF scheduled_seqs # <<>> THEN "run" ELSE "raised"
      /\ batch_is_prefill' = FALSE
      /\ UNCHANGED <<bmVars, seqVars, waiting, kv, scheduled_seqs,
                    num_batched_tokens, cur, processed>>
  BY DEF EndDecode, Requeued, InDecodeLoop
<1>2. PoolInv' /\ PoolStep
  BY <1>1, SamePool
<1>3. Fields'
  BY <1>1 DEF Fields, seqVars
<1>4. /\ running' \in Seq(Seqs) /\ IsInjective(running')
      /\ Range(running') = Batch \cup Range(running)
  <2>1. /\ scheduled_seqs \in Seq(Seqs) /\ running \in Seq(Seqs)
        /\ IsInjective(scheduled_seqs) /\ IsInjective(running)
        /\ Range(scheduled_seqs) \cap Range(running) = {}
    BY <1>1 DEF Fields, Placed, Planned, Taken, Batch
  <2> QED BY <1>1, <2>1, JoinInjective DEF Batch
<1>5. Taken = Batch /\ InHand = {} /\ Taken' = {} /\ InHand' = {}
  BY <1>1 DEF Taken, InHand, InDecodeLoop
<1>6. Placed' /\ NoneDropped'
  <2>1. \A s \in Batch : s \in Seqs /\ status[s] = "RUNNING"
    BY <1>1, BatchInHand
  <2>2. Range(waiting') \cap Range(running') = {}
    BY <1>1, <1>4, <2>1 DEF Placed
  <2>3. UNCHANGED <<waiting, cur, status>> /\ pc' # "append" /\ cur = NoSeq
    BY <1>1 DEF seqVars, Placed
  <2>4. \A s \in Seqs : s \in Range(running') <=> status[s] = "RUNNING"
    BY <1>4, <1>5, <2>1 DEF Placed, NoneDropped
  <2> QED BY <1>4, <1>5, <2>2, <2>3, <2>4, RangeInSeqs DEF Placed, NoneDropped
<1>7. Planned'
  <2>1. /\ Pending' = Pending /\ Decoding /\ processed' = 0
        /\ UNCHANGED <<status, num_scheduled_tokens, block_table, scheduled_seqs, processed>>
    BY <1>1, BatchInHand DEF Pending, Decoding, seqVars, bmVars
  <2> QED BY <1>1, <2>1 DEF Planned
<1>8. TablesCover'
  BY <1>1, TableCoversStill DEF TablesCover, bmVars, seqVars
<1>9. pc' \in {"run", "raised"}
  BY <1>1
<1> QED BY <1>2, <1>3, <1>6, <1>7, <1>8, <1>9

(* The next sequence of the batch: a chunk of it was computed, or all of   *)
(* it, and it takes a token.  Its table holds what was computed.           *)
LEMMA NextHolds ==
  ASSUME FailureInv, pc = "post", processed < Len(scheduled_seqs),
         NEW s, s = scheduled_seqs[processed + 1]
  PROVE  LET n == num_scheduled_tokens[s]
             c == num_cached_tokens[s]
             l == Len(token_ids[s])
         IN  /\ s \in Seqs /\ s \in Pending
             /\ n \in Nat /\ c \in Nat /\ l \in Nat /\ c + n <= l
             /\ status[s] \in {"WAITING", "RUNNING"}
             /\ block_table[s] # <<>> /\ CanHash(s, n)
             /\ l < Len(request[s].prompt) + request[s].max_tokens
             /\ ~ IsChunk(s, c + n) => status[s] = "RUNNING"
<1> USE DEF FailureInv, Covered
<1> DEFINE n == num_scheduled_tokens[s]
           c == num_cached_tokens[s]
           l == Len(token_ids[s])
<1>1. /\ processed \in Nat /\ Len(scheduled_seqs) \in Nat
      /\ \A i \in 1 .. Len(scheduled_seqs) : scheduled_seqs[i] \in Seqs
  BY LenProperties DEF Fields
<1>2. s \in Seqs /\ s \in Pending
  <2>1. processed + 1 \in 1 .. Len(scheduled_seqs)
        /\ processed + 1 \in processed + 1 .. Len(scheduled_seqs)
    BY <1>1
  <2> QED BY <1>1, <2>1 DEF Pending
<1>3. n \in Nat /\ n > 0 /\ c \in Nat /\ l \in Nat /\ block_table[s] # <<>>
  <2>1. n \in Nat
    BY <1>2, LimitsAssumption DEF Fields
  <2>2. c \in Nat /\ l \in Nat
    BY <1>2, LenProperties DEF PoolInv, BMTypeOK
  <2> QED BY <1>2, <2>1, <2>2 DEF Planned
<1>4. TableCovers(s) /\ status[s] \in {"NEW", "WAITING", "RUNNING", "FINISHED"}
  BY <1>2 DEF TablesCover, Fields
<1>5. /\ status[s] \in {"WAITING", "RUNNING"} /\ c + n <= l
      /\ Len(block_table[s]) >= num_blocks(s)
      /\ l < Len(request[s].prompt) + request[s].max_tokens
      /\ status[s] = "WAITING" => c + n < l
  BY <1>3, <1>4 DEF TableCovers
<1>6. ASSUME ~ IsChunk(s, c + n) PROVE status[s] = "RUNNING"
  <2>1. ~ batch_is_prefill => status[s] = "RUNNING"
    BY <1>2 DEF Planned, Decoding
  <2>2. batch_is_prefill => ~ (c + n < l)
    BY <1>6 DEF IsChunk
  <2> QED BY <1>5, <2>1, <2>2
<1>7. CanHash(s, n)
  BY <1>3, <1>5 DEF CanHash
<1> QED BY <1>2, <1>3, <1>5, <1>6, <1>7

(* The rest of the batch stays as it was planned.                          *)
LEMMA RestStaysPlanned ==
  ASSUME FailureInv, pc = "post", processed < Len(scheduled_seqs),
         NEW s \in Seqs, s = scheduled_seqs[processed + 1],
         num_scheduled_tokens' = [num_scheduled_tokens EXCEPT ![s] = 0],
         processed' = processed + 1,
         \A r \in Seqs : r # s => status'[r] = status[r],
         \A r \in Seqs : r # s => block_table'[r] = block_table[r],
         UNCHANGED <<pc, scheduled_seqs, batch_is_prefill>>
  PROVE  /\ Planned'
         /\ processed' \in 0 .. Len(scheduled_seqs)
         /\ num_scheduled_tokens' \in [Seqs -> 0 .. MaxBatchedTokens]
         /\ \A r \in Seqs : num_scheduled_tokens'[r] =
                              IF r = s THEN 0 ELSE num_scheduled_tokens[r]
<1> USE DEF FailureInv, Covered
<1>1. /\ processed \in Nat /\ Len(scheduled_seqs) \in Nat
      /\ DOMAIN scheduled_seqs = 1 .. Len(scheduled_seqs)
      /\ \A i \in 1 .. Len(scheduled_seqs) : scheduled_seqs[i] \in Seqs
  BY LenProperties DEF Fields
<1>2. processed' \in 0 .. Len(scheduled_seqs)
  BY <1>1
<1>3. /\ num_scheduled_tokens' \in [Seqs -> 0 .. MaxBatchedTokens]
      /\ \A r \in Seqs : num_scheduled_tokens'[r] =
                           IF r = s THEN 0 ELSE num_scheduled_tokens[r]
  BY LimitsAssumption DEF Fields
<1>4. Pending' = {scheduled_seqs[i] : i \in processed + 2 .. Len(scheduled_seqs)}
  <2>1. processed' + 1 = processed + 2
    BY <1>1
  <2> QED BY <2>1 DEF Pending
<1>5. Pending = {s} \cup Pending' /\ Pending \subseteq Seqs
  <2>1. processed + 1 .. Len(scheduled_seqs) =
          {processed + 1} \cup (processed + 2 .. Len(scheduled_seqs))
    BY <1>1
  <2> QED BY <1>1, <1>4, <2>1 DEF Pending
<1>6. s \notin Pending'
  <2> SUFFICES ASSUME NEW i \in processed + 2 .. Len(scheduled_seqs),
                      scheduled_seqs[i] = s
               PROVE  FALSE
    BY <1>4
  <2>1. i \in DOMAIN scheduled_seqs /\ processed + 1 \in DOMAIN scheduled_seqs
        /\ i # processed + 1
    BY <1>1
  <2> QED BY <2>1 DEF IsInjective, Planned
<1>7. Decoding' <=> Decoding
  BY DEF Decoding, InDecodeLoop
<1>8. \A r \in Pending' : /\ num_scheduled_tokens'[r] = num_scheduled_tokens[r]
                          /\ block_table'[r] = block_table[r] /\ status'[r] = status[r]
  BY <1>3, <1>5, <1>6
<1>9. Planned'
  BY <1>5, <1>7, <1>8 DEF Planned
<1> QED BY <1>2, <1>3, <1>9

(* A token that does not end its sequence leaves room for another.         *)
LEMMA RoomForAnother ==
  ASSUME Fields, NEW s \in Seqs, NEW t, ~ Ends(s, t), token_ids[s] \in Seq(Token),
         Len(token_ids[s]) < Len(request[s].prompt) + request[s].max_tokens
  PROVE  Len(token_ids[s]) + 1 < Len(request[s].prompt) + request[s].max_tokens
<1> DEFINE l == Len(token_ids[s])
           p == Len(request[s].prompt)
           m == request[s].max_tokens
<1>1. p \in Nat /\ m \in Nat /\ l \in Nat
  <2>1. request[s].prompt \in Prompts /\ request[s].max_tokens \in Nat
    BY FeasibleAssumption DEF Fields
  <2> QED BY <2>1, PromptsAssumption, LenProperties
<1>2. l + 1 - p # m
  BY DEF Ends
<1>3. l < p + m
  OBVIOUS
<1> HIDE DEF l, p, m
<1>4. l + 1 < p + m
  BY <1>1, <1>2, <1>3
<1> QED BY <1>4 DEF l, p, m

(* An iteration of postprocess(): a chunk counted, or a token appended and *)
(* the sequence kept or released.                                          *)
LEMMA NextProcessed ==
  ASSUME FailureInv, NEW t \in Token, PostprocessOne(t)
  PROVE  FailureInv' /\ PoolStep
<1> USE DEF FailureInv, Covered
<1>1. pc = "post" /\ processed < Len(scheduled_seqs)
  BY DEF PostprocessOne
<1>2. PICK s \in Seqs : s = scheduled_seqs[processed + 1]
  BY <1>1, NextHolds
<1> DEFINE n == num_scheduled_tokens[s]
           c == num_cached_tokens[s]
           l == Len(token_ids[s])
           advance == num_cached_tokens' = [num_cached_tokens EXCEPT ![s] = c + n]
           table == UNCHANGED <<block_table, ref_count, free_block_ids, used_block_ids>>
<1>3. /\ hash_blocks(s, n)
      /\ num_scheduled_tokens' = [num_scheduled_tokens EXCEPT ![s] = 0]
      /\ processed' = processed + 1
      /\ \/ IsChunk(s, c + n) /\ advance /\ table /\ UNCHANGED <<token_ids, status, running>>
         \/ /\ ~ IsChunk(s, c + n)
            /\ token_ids' = [token_ids EXCEPT ![s] = Append(@, t)]
            /\ \/ /\ Ends(s, t)
                  /\ status' = [status EXCEPT ![s] = "FINISHED"]
                  /\ deallocate(s)
                  /\ running' = Without(running, {s})
               \/ ~ Ends(s, t) /\ advance /\ table /\ UNCHANGED <<status, running>>
      /\ UNCHANGED <<request, is_prefill, waiting, pc, scheduled_seqs,
                     num_batched_tokens, batch_is_prefill, cur>>
  BY <1>2 DEF PostprocessOne
<1>4. /\ n \in Nat /\ c \in Nat /\ l \in Nat /\ c + n <= l
      /\ status[s] \in {"WAITING", "RUNNING"}
      /\ block_table[s] # <<>> /\ CanHash(s, n)
      /\ l < Len(request[s].prompt) + request[s].max_tokens
      /\ ~ IsChunk(s, c + n) => status[s] = "RUNNING"
  BY <1>1, <1>2, NextHolds
<1>5. /\ token_ids \in [Seqs -> Seq(Token)] /\ num_cached_tokens \in [Seqs -> Nat]
      /\ status \in [Seqs -> {"NEW", "WAITING", "RUNNING", "FINISHED"}]
      /\ token_ids[s] \in Seq(Token) /\ TableCovers(s)
      /\ Len(block_table[s]) \in Nat /\ Len(block_table[s]) >= num_blocks(s)
      /\ token_ids[s] # <<>>
  BY <1>4, LenProperties DEF PoolInv, BMTypeOK, Fields, TablesCover, TableCovers, CanHash
<1>6. /\ \A r \in Seqs : r # s => /\ status'[r] = status[r] /\ token_ids'[r] = token_ids[r]
                                  /\ block_table'[r] = block_table[r]
                                  /\ num_cached_tokens'[r] = num_cached_tokens[r]
      /\ status' \in [Seqs -> {"NEW", "WAITING", "RUNNING", "FINISHED"}]
  <2>1. \A r \in Seqs : r # s => /\ block_table'[r] = block_table[r]
                                 /\ num_cached_tokens'[r] = num_cached_tokens[r]
    BY <1>3, <1>5, DeallocateEffect
  <2> QED BY <1>3, <1>5, <2>1
<1>7. /\ Planned'
      /\ processed' \in 0 .. Len(scheduled_seqs)
      /\ num_scheduled_tokens' \in [Seqs -> 0 .. MaxBatchedTokens]
      /\ \A r \in Seqs : num_scheduled_tokens'[r] =
                           IF r = s THEN 0 ELSE num_scheduled_tokens[r]
  BY <1>1, <1>2, <1>3, <1>6, RestStaysPlanned
<1>8. Fields'
  BY <1>3, <1>6, <1>7 DEF Fields
<1>9. Taken = {} /\ Taken' = {} /\ InHand = {} /\ InHand' = {} /\ cur = NoSeq /\ cur' = NoSeq
      /\ pc' = "post"
  BY <1>1, <1>3 DEF Taken, InHand, InDecodeLoop, Placed
<1>10. ASSUME TableCovers(s)' PROVE TablesCover'
  <2> SUFFICES ASSUME NEW r \in Seqs PROVE TableCovers(r)'
    BY DEF TablesCover
  <2>1. CASE r # s
    BY <1>3, <1>6, <1>7, <2>1, TableCoversStill DEF TablesCover
  <2> QED BY <1>10, <2>1
<1>11. CASE IsChunk(s, c + n)
  <2>1. advance /\ table /\ UNCHANGED <<token_ids, status, running>>
    BY <1>3, <1>11
  <2>2. PoolStep
    <3>1. LaxChunk(s, n)
      BY <1>3, <1>4, <2>1 DEF LaxChunk
    <3> QED BY <1>4, <3>1 DEF PoolStep, LaxNext
  <2>3. PoolInv'
    BY <2>2, StepsPool
  <2>4. Placed' /\ NoneDropped'
    BY <1>3, <1>9, <2>1 DEF Placed, NoneDropped
  <2>5. TableCovers(s)'
    <3>1. /\ num_cached_tokens'[s] = c + n /\ num_scheduled_tokens'[s] = 0
          /\ token_ids'[s] = token_ids[s] /\ block_table' = block_table
          /\ num_blocks(s)' = num_blocks(s)
          /\ UNCHANGED <<status, request>>
      BY <1>3, <1>5, <1>7, <2>1 DEF num_blocks
    <3>2. c + n < l
      BY <1>11 DEF IsChunk
    <3>3. Len(block_table[s]) >= BlocksFor(l - 1)
      <4>1. /\ num_blocks(s) = BlocksFor(l) /\ BlocksFor(l - 1) <= BlocksFor(l)
            /\ BlocksFor(l - 1) \in Nat /\ BlocksFor(l) \in Nat
        <5>1. l - 1 \in Nat /\ l - 1 <= l
          BY <1>4, <3>2
        <5> QED BY <1>4, <5>1, BlocksForMonotonic, BlocksForBounds DEF num_blocks
      <4> HIDE DEF l
      <4> QED BY <1>5, <4>1
    <3> QED BY <1>4, <1>5, <3>1, <3>2, <3>3 DEF TableCovers
  <2> QED BY <1>7, <1>8, <1>9, <1>10, <2>2, <2>3, <2>4, <2>5
<1>12. CASE ~ IsChunk(s, c + n)
  <2>1. /\ token_ids' = [token_ids EXCEPT ![s] = Append(@, t)]
        /\ \/ /\ Ends(s, t)
              /\ status' = [status EXCEPT ![s] = "FINISHED"]
              /\ deallocate(s)
              /\ running' = Without(running, {s})
           \/ ~ Ends(s, t) /\ advance /\ table /\ UNCHANGED <<status, running>>
    BY <1>3, <1>12
  <2>2. status[s] = "RUNNING" /\ s \notin Range(waiting)
    BY <1>4, <1>12 DEF Placed
  <2>3. /\ token_ids'[s] = Append(token_ids[s], t) /\ token_ids'[s] # <<>>
        /\ Len(token_ids'[s]) = l + 1
    BY <1>5, <2>1, Appended
  <2>4. CASE Ends(s, t)
    <3>1. /\ status' = [status EXCEPT ![s] = "FINISHED"] /\ deallocate(s)
          /\ running' = Without(running, {s})
      BY <2>1, <2>4
    <3>2. PoolStep
      <4>1. LaxLastToken(s, n, t)
        BY <1>3, <1>4, <2>1, <3>1 DEF LaxLastToken
      <4> QED BY <1>4, <4>1 DEF PoolStep, LaxNext
    <3>3. PoolInv'
      BY <3>2, StepsPool
    <3>4. Placed' /\ NoneDropped'
      <4>1. /\ running' \in Seq(Seqs) /\ IsInjective(running')
            /\ Range(running') = Range(running) \ {s}
        BY <3>1, WithoutProperties DEF Placed
      <4>2. \A r \in Seqs : status'[r] = IF r = s THEN "FINISHED" ELSE status[r]
        BY <1>5, <3>1
      <4> QED BY <1>3, <1>9, <2>2, <4>1, <4>2, RangeInSeqs DEF Placed, NoneDropped
    <3>5. TableCovers(s)'
      <4>1. block_table'[s] = <<>>
        BY <3>1, DeallocateEffect
      <4>2. status'[s] = "FINISHED"
        BY <1>5, <3>1
      <4> QED BY <2>3, <4>1, <4>2 DEF TableCovers
    <3> QED BY <1>7, <1>8, <1>9, <1>10, <3>2, <3>3, <3>4, <3>5
  <2>5. CASE ~ Ends(s, t)
    <3>1. advance /\ table /\ UNCHANGED <<status, running>>
      BY <2>1, <2>5
    <3>2. PoolStep
      <4>1. LaxToken(s, n, t)
        BY <1>3, <1>4, <2>1, <3>1 DEF LaxToken
      <4> QED BY <1>4, <4>1 DEF PoolStep, LaxNext
    <3>3. PoolInv'
      BY <3>2, StepsPool
    <3>4. Placed' /\ NoneDropped'
      BY <1>3, <1>9, <3>1 DEF Placed, NoneDropped
    <3>5. TableCovers(s)'
      <4>1. /\ status'[s] = "RUNNING" /\ num_scheduled_tokens'[s] = 0
            /\ num_cached_tokens'[s] = c + n /\ block_table'[s] = block_table[s]
            /\ request' = request
        BY <1>3, <1>5, <1>7, <2>2, <3>1
      <4>2. l + 1 < Len(request[s].prompt) + request[s].max_tokens
        BY <1>4, <1>5, <2>5, RoomForAnother
      <4>3. Len(block_table[s]) >= BlocksFor(l) /\ l = (l + 1) - 1 /\ c + n < l + 1
        BY <1>4, <1>5 DEF num_blocks
      <4> HIDE DEF l, n, c
      <4> QED BY <1>4, <2>2, <2>3, <4>1, <4>2, <4>3 DEF TableCovers
    <3> QED BY <1>7, <1>8, <1>9, <1>10, <3>2, <3>3, <3>4, <3>5
  <2> QED BY <2>4, <2>5
<1> QED BY <1>11, <1>12

(* The step is over, whether its batch was processed or dropped.           *)
LEMMA StepIsOver ==
  ASSUME FailureInv, EndStep \/ ModelFails \/ AssertionFails
  PROVE  FailureInv' /\ PoolStep
<1>1. CASE EndStep
  BY <1>1, BatchGone DEF EndStep
<1>2. CASE ModelFails \/ AssertionFails
  <2>1. pc \in {"run", "raised"} /\ Abandoned
    BY <1>2 DEF ModelFails, AssertionFails
  <2>2. processed = 0
    BY <2>1 DEF FailureInv, Planned
  <2> QED BY <2>1, <2>2, BatchGone DEF Abandoned
<1> QED BY <1>1, <1>2

(* A step of an engine whose passes may fail.                              *)
LEMMA FailureStepKeeps ==
  ASSUME FailureInv, [FailureNext]_failureVars
  PROVE  FailureInv' /\ PoolStep
<1>1. CASE \E s \in Seqs : AddToFailed(s)
  BY <1>1, ArrivalCovered DEF AddToFailed
<1>2. CASE ModelFails \/ AssertionFails
  BY <1>2, StepIsOver
<1>3. CASE EngineStep
  <2>1. CASE StartStep("prefill") \/ PrefillHead \/ EndPrefill("decode")
    BY <2>1, StepStarts, HeadJoins, PrefillEnds
  <2>2. CASE DecodePhase
    BY <2>2, OldestTaken, NewestMakesRoom, CurGoesBack, CurJoins DEF DecodePhase
  <2>3. CASE EndDecode("raised")
    BY <2>3, DecodeEnds
  <2>4. CASE RunAndPostprocess
    BY <2>4, PassSucceeds, NextProcessed, StepIsOver DEF RunAndPostprocess
  <2> QED BY <1>3, <2>1, <2>2, <2>3, <2>4 DEF EngineStep
<1>4. CASE UNCHANGED failureVars
  <2>1. UNCHANGED vars
    BY <1>4 DEF failureVars
  <2>2. PoolInv' /\ PoolStep
    BY <2>1, SamePool DEF vars, FailureInv, Covered
  <2>3. Fields' /\ Placed' /\ NoneDropped'
    BY <2>1 DEF vars, bmVars, queueVars, stepVars, seqVars, FailureInv, Covered, Fields,
       Placed, NoneDropped, Taken, InHand, InDecodeLoop, Batch
  <2>4. Planned' /\ TablesCover'
    <3>1. TablesCover'
      BY <2>1, TableCoversStill
         DEF vars, bmVars, seqVars, FailureInv, Covered, TablesCover
    <3>2. /\ Pending' = Pending /\ Batch' = Batch /\ (Decoding' <=> Decoding)
          /\ UNCHANGED <<pc, scheduled_seqs, processed, num_scheduled_tokens, block_table,
                         status, num_batched_tokens>>
      BY <2>1 DEF vars, bmVars, stepVars, seqVars, Pending, Batch, Decoding, InDecodeLoop
    <3> QED BY <3>1, <3>2 DEF FailureInv, Planned, remaining
  <2>5. pc' = pc
    BY <2>1 DEF vars, stepVars
  <2> QED BY <2>2, <2>3, <2>4, <2>5 DEF FailureInv, Covered
<1> QED BY <1>1, <1>2, <1>3, <1>4 DEF FailureNext, LoopGoesOn, EngineGoesOn

(* Whatever fails, and however often, the tables stay long enough, each    *)
(* request keeps its place, and the allocator is called as it can bear.    *)
THEOREM FailureCorrect == FailureSpec => []FailureInv /\ [][PoolStep]_failureVars
<1>1. FailureInit => FailureInv
  BY FailureStarts DEF FailureInit, FCFSInit
<1>2. FailureInv /\ [FailureNext]_failureVars => FailureInv' /\ PoolStep
  BY FailureStepKeeps
<1> QED BY <1>1, <1>2, PTL DEF FailureSpec

(* A failed step leaks no block and frees none that is held.               *)
THEOREM FailureAccounting == FailureSpec => []BlockAccounting
<1>1. FailureInv => BlockAccounting
  BY DEF FailureInv, Covered, PoolInv
<1> QED BY <1>1, FailureCorrect, PTL

(* Nor does it lose a request: what was in the batch is still in running,  *)
(* or at the head of waiting.                                              *)
THEOREM FailureKeepsRequests == FailureSpec => []NoRequestLost
<1>1. FailureInv => NoRequestLost
  BY PlacesAreAll DEF FailureInv, Covered, Planned
<1> QED BY <1>1, FailureCorrect, PTL

(* A block that somebody holds keeps its label, although a failed pass may *)
(* have computed only part of what the tables promise.                     *)
THEOREM FailureLabelsStable == FailureSpec => HeldLabelsStable
<1> DEFINE A == \A b \in Blocks :
                  (hash[b] # NoHash /\ \E s \in Seqs : b \in Range(block_table[s])
                                                    /\ b \in Range(block_table'[s]))
                    => hash'[b] = hash[b]
<1>1. FailureInv /\ [FailureNext]_failureVars => [A]_bmVars
  <2> SUFFICES ASSUME FailureInv, [FailureNext]_failureVars, ~ UNCHANGED bmVars PROVE A
    OBVIOUS
  <2>1. PoolInv /\ LaxNext
    BY FailureStepKeeps DEF PoolStep, FailureInv, Covered
  <2>2. KeepsHeldLabels
    BY <2>1, PoolNext
  <2> QED BY <2>2 DEF KeepsHeldLabels, Holders
<1> HIDE DEF A
<1>2. FailureSpec => [][A]_bmVars
  BY <1>1, FailureCorrect, PTL DEF FailureSpec
<1> QED BY <1>2 DEF A, HeldLabelsStable

(* To its clients a failed step did not happen, but for the time it took.  *)
LEMMA FailureIsServed ==
  ASSUME FailureInv, PromptsKept, [FailureNext]_failureVars
  PROVE  [Service!ServiceNext]_(Service!serviceVars) /\ PromptsKept'
<1> USE DEF FailureInv, Covered
<1>1. CASE \E s \in Seqs : AddToFailed(s)
  <2>1. PICK s \in Seqs : AddRequest(s)
    BY <1>1 DEF AddToFailed
  <2>2. token_ids[s] = <<>> /\ BMTypeOK
    BY <2>1 DEF AddRequest, TablesCover, TableCovers, PoolInv
  <2> QED BY <2>1, <2>2, NewIsAccepted DEF Service!ServiceNext
<1>2. CASE \E t \in Token : PostprocessOne(t)
  <2>1. PICK t \in Token : PostprocessOne(t)
    BY <1>2
  <2>2. pc = "post" /\ processed < Len(scheduled_seqs)
    BY <2>1 DEF PostprocessOne
  <2>3. PICK s \in Seqs :
          /\ s = scheduled_seqs[processed + 1]
          /\ ~ IsChunk(s, num_cached_tokens[s] + num_scheduled_tokens[s])
               => status[s] = "RUNNING"
    BY <2>2, NextHolds
  <2> QED BY <2>1, <2>3, ReachedEmits DEF PoolInv, Service!ServiceNext, Service!EmitSome
<1>3. CASE EngineStep /\ \A t \in Token : ~ PostprocessOne(t)
  <2>1. Unseen
    BY <1>3, DequesUnseen DEF EngineStep, RunAndPostprocess
  <2> QED BY <2>1, UnseenStutters
<1>4. CASE ModelFails \/ AssertionFails \/ UNCHANGED failureVars
  <2>1. Unseen
    BY <1>4 DEF ModelFails, AssertionFails, Abandoned, failureVars, vars, bmVars, seqVars,
       Unseen
  <2> QED BY <2>1, UnseenStutters
<1> QED BY <1>1, <1>2, <1>3, <1>4 DEF FailureNext, LoopGoesOn, EngineGoesOn

(* No token that was handed out is lost, changed or generated past the end *)
(* of its request because a step failed.  What the sampler reads from a    *)
(* cache that a failure left with holes is another matter.                 *)
THEOREM FailureServes == FailureSpec => KeepsServiceSafe
<1>1. FailureInit => Service!ServiceInit /\ PromptsKept
  BY ServiceStarts DEF FailureInit, FCFSInit
<1>2. FailureInv /\ PromptsKept /\ [FailureNext]_failureVars
        => [Service!ServiceNext]_(Service!serviceVars) /\ PromptsKept'
  BY FailureIsServed
<1> QED BY <1>1, <1>2, FailureCorrect, PTL DEF FailureSpec, KeepsServiceSafe
=============================================================================
