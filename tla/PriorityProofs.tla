--------------------------- MODULE PriorityProofs ---------------------------
(***************************************************************************)
(* The priority policy, for every pool, every set of requests, every       *)
(* priority and every limit: the guarantees of the other policies, and     *)
(* that a prompt prefilled in part is not overtaken from below.            *)
(***************************************************************************)
EXTENDS Priority, SchedulerProofs

-----------------------------------------------------------------------------
Priorities == {LOW, NORMAL, HIGH}

(* Queues of sequences in which nobody stands behind a lower priority.     *)
Descending(q) ==
  \A i, j \in DOMAIN q : i < j => seq_priority[q[i]] >= seq_priority[q[j]]

(* The visits of the prefill loop.  Those ahead are waiting, in descending *)
(* order and none above the batch; of the others that wait, all were       *)
(* passed over for want of blocks.                                         *)
VisitInv ==
  pc = "prefill" =>
    /\ to_visit \in Seq(Seqs) /\ IsInjective(to_visit)
    /\ Range(to_visit) \subseteq Range(waiting) \ Batch
    /\ Descending(to_visit)
    /\ \A s \in Batch, r \in Range(to_visit) : seq_priority[s] >= seq_priority[r]
    /\ \A w \in Range(waiting) \ (Batch \cup Range(to_visit)) : block_table[w] = <<>>

(* The inductive invariant of the policy.                                  *)
PriorityInv ==
  /\ EngineInv
  /\ seq_priority \in [Seqs -> Priorities]
  /\ pending_priorities \in Seq(Levels)
  /\ VisitInv
  /\ NoOvertaking

(* Queues joined in the order of their priorities.                         *)
LEMMA DescendingJoined ==
  ASSUME NEW a \in Seq(Seqs), NEW b \in Seq(Seqs), Descending(a), Descending(b),
         \A x \in Range(a), y \in Range(b) : seq_priority[x] >= seq_priority[y]
  PROVE  Descending(a \o b)
<1>1. /\ Len(a) \in Nat /\ Len(b) \in Nat /\ DOMAIN a = 1 .. Len(a) /\ DOMAIN b = 1 .. Len(b)
      /\ DOMAIN (a \o b) = 1 .. Len(a) + Len(b)
      /\ \A i \in 1 .. Len(a) + Len(b) :
           (a \o b)[i] = IF i <= Len(a) THEN a[i] ELSE b[i - Len(a)]
  BY LenProperties
<1> SUFFICES ASSUME NEW i \in 1 .. Len(a) + Len(b), NEW j \in 1 .. Len(a) + Len(b), i < j
             PROVE  seq_priority[(a \o b)[i]] >= seq_priority[(a \o b)[j]]
  BY <1>1 DEF Descending
<1>2. CASE j <= Len(a)
  BY <1>1, <1>2 DEF Descending
<1>3. CASE i > Len(a)
  <2>1. i - Len(a) \in DOMAIN b /\ j - Len(a) \in DOMAIN b /\ i - Len(a) < j - Len(a)
    BY <1>1, <1>3
  <2> QED BY <1>1, <1>3, <2>1, SMTT(30) DEF Descending
<1>4. CASE i <= Len(a) /\ j > Len(a)
  <2>1. i \in DOMAIN a /\ j - Len(a) \in DOMAIN b
    BY <1>1, <1>4
  <2> QED BY <1>1, <1>4, <2>1, SMTT(30) DEF Range
<1> QED BY <1>1, <1>2, <1>3, <1>4

(* What is left of such a queue without its head.                          *)
LEMMA DescendingPopped ==
  ASSUME NEW q \in Seq(Seqs), q # <<>>, Descending(q)
  PROVE  /\ Descending(Tail(q))
         /\ \A r \in Range(Tail(q)) : seq_priority[Head(q)] >= seq_priority[r]
<1>1. /\ Len(q) \in Nat /\ Len(q) > 0 /\ DOMAIN q = 1 .. Len(q)
      /\ DOMAIN Tail(q) = 1 .. Len(q) - 1 /\ Head(q) = q[1]
      /\ \A i \in 1 .. Len(q) - 1 : Tail(q)[i] = q[i + 1] /\ i + 1 \in DOMAIN q
  BY LenProperties
<1> QED BY <1>1 DEF Descending, Range

(* Those of one priority, in the order in which they wait.                 *)
LEMMA OfOneLevel ==
  ASSUME NEW p \in Priorities, seq_priority \in [Seqs -> Priorities],
         waiting \in Seq(Seqs), IsInjective(waiting)
  PROVE  /\ WaitingAt(p) \in Seq(Seqs) /\ IsInjective(WaitingAt(p))
         /\ Range(WaitingAt(p)) = {s \in Range(waiting) : seq_priority[s] = p}
         /\ Descending(WaitingAt(p))
<1>1. /\ WaitingAt(p) \in Seq(Seqs) /\ IsInjective(WaitingAt(p))
      /\ Range(WaitingAt(p)) = Range(waiting) \ {s \in Seqs : seq_priority[s] # p}
  BY WithoutProperties DEF WaitingAt
<1>2. Range(waiting) \subseteq Seqs
  BY RangeInSeqs
<1>3. Range(WaitingAt(p)) = {s \in Range(waiting) : seq_priority[s] = p}
  BY <1>1, <1>2
<1>4. \A i \in DOMAIN WaitingAt(p) : seq_priority[WaitingAt(p)[i]] = p
  BY <1>3 DEF Range
<1>5. p \in Int
  BY DEF Priorities, LOW, NORMAL, HIGH
<1> QED BY <1>1, <1>3, <1>4, <1>5 DEF Descending

(* The sort moves everybody who waits, once, behind nobody of lower        *)
(* priority.                                                               *)
LEMMA SortOfWaiting ==
  ASSUME seq_priority \in [Seqs -> Priorities], waiting \in Seq(Seqs), IsInjective(waiting)
  PROVE  /\ SortedWaiting \in Seq(Seqs) /\ IsInjective(SortedWaiting)
         /\ Range(SortedWaiting) = Range(waiting)
         /\ Descending(SortedWaiting)
<1> DEFINE at(p) == {s \in Range(waiting) : seq_priority[s] = p}
           hi == WaitingAt(HIGH)
           mid == WaitingAt(NORMAL)
           lo == WaitingAt(LOW)
           top == hi \o mid
<1>1. \A p \in {LOW, NORMAL, HIGH} :
        /\ WaitingAt(p) \in Seq(Seqs) /\ IsInjective(WaitingAt(p))
        /\ Range(WaitingAt(p)) = at(p) /\ Descending(WaitingAt(p))
  BY OfOneLevel DEF Priorities
<1>2. /\ hi \in Seq(Seqs) /\ IsInjective(hi) /\ Range(hi) = at(HIGH) /\ Descending(hi)
      /\ mid \in Seq(Seqs) /\ IsInjective(mid) /\ Range(mid) = at(NORMAL) /\ Descending(mid)
      /\ lo \in Seq(Seqs) /\ IsInjective(lo) /\ Range(lo) = at(LOW) /\ Descending(lo)
  BY <1>1
<1>3. SortedWaiting = top \o lo
  BY DEF SortedWaiting
<1> HIDE DEF hi, mid, lo
<1>4. /\ at(HIGH) \cap at(NORMAL) = {} /\ (at(HIGH) \cup at(NORMAL)) \cap at(LOW) = {}
      /\ at(HIGH) \cup at(NORMAL) \cup at(LOW) = Range(waiting)
  <2>1. \A s \in Range(waiting) : seq_priority[s] \in {LOW, NORMAL, HIGH}
    BY RangeInSeqs DEF Priorities
  <2> QED BY <2>1 DEF LOW, NORMAL, HIGH
<1>5. /\ \A x \in at(HIGH), y \in at(NORMAL) : seq_priority[x] >= seq_priority[y]
      /\ \A x \in at(HIGH) \cup at(NORMAL), y \in at(LOW) : seq_priority[x] >= seq_priority[y]
  BY DEF LOW, NORMAL, HIGH
<1> HIDE DEF at
<1>6. /\ top \in Seq(Seqs) /\ IsInjective(top)
      /\ Range(top) = at(HIGH) \cup at(NORMAL)
  BY <1>2, <1>4, JoinInjective
<1>7. Descending(top)
  BY <1>2, <1>5, DescendingJoined
<1> HIDE DEF top
<1>8. /\ top \o lo \in Seq(Seqs) /\ IsInjective(top \o lo)
      /\ Range(top \o lo) = Range(top) \cup Range(lo)
  <2>1. Range(top) \cap Range(lo) = {}
    BY <1>2, <1>4, <1>6
  <2> QED BY <1>2, <1>6, <2>1, JoinInjective
<1>9. Descending(top \o lo)
  BY <1>2, <1>5, <1>6, <1>7, DescendingJoined
<1> QED BY <1>2, <1>3, <1>4, <1>6, <1>8, <1>9

-----------------------------------------------------------------------------
(* The head of the visits is a waiting sequence outside of the batch.      *)
LEMMA NextVisited ==
  ASSUME PriorityInv, pc = "prefill", to_visit # <<>>, NEW s, s = Head(to_visit)
  PROVE  /\ s \in Seqs /\ s \in Range(waiting) \ Batch /\ status[s] = "WAITING"
         /\ Tail(to_visit) \in Seq(Seqs) /\ IsInjective(Tail(to_visit))
         /\ s \notin Range(Tail(to_visit))
         /\ Range(to_visit) = {s} \cup Range(Tail(to_visit))
         /\ Descending(Tail(to_visit))
         /\ \A r \in Range(Tail(to_visit)) : seq_priority[s] >= seq_priority[r]
<1>1. /\ to_visit \in Seq(Seqs) /\ IsInjective(to_visit)
      /\ Range(to_visit) \subseteq Range(waiting) \ Batch /\ Descending(to_visit)
  BY DEF PriorityInv, VisitInv
<1>2. /\ s \in Seqs /\ Tail(to_visit) \in Seq(Seqs) /\ IsInjective(Tail(to_visit))
      /\ s \notin Range(Tail(to_visit))
      /\ Range(to_visit) = {s} \cup Range(Tail(to_visit))
  BY <1>1, Popped
<1>3. status[s] = "WAITING"
  BY <1>1, <1>2 DEF PriorityInv, EngineInv, CoreInv, Placed
<1> QED BY <1>1, <1>2, <1>3, DescendingPopped

(* A visited sequence leaves waiting, or goes to its back.                 *)
LEMMA VisitedMoves ==
  ASSUME waiting \in Seq(Seqs), IsInjective(waiting), NEW s \in Range(waiting), s \in Seqs
  PROVE  /\ Without(waiting, {s}) \in Seq(Seqs) /\ IsInjective(Without(waiting, {s}))
         /\ Range(Without(waiting, {s})) = Range(waiting) \ {s}
         /\ Rotated(s) \in Seq(Seqs) /\ IsInjective(Rotated(s))
         /\ Range(Rotated(s)) = Range(waiting)
<1>1. /\ Without(waiting, {s}) \in Seq(Seqs) /\ IsInjective(Without(waiting, {s}))
      /\ Range(Without(waiting, {s})) = Range(waiting) \ {s}
  BY WithoutProperties
<1>2. PICK rest \in Seq(Seqs) : rest = Without(waiting, {s})
  BY <1>1
<1>3. IsInjective(rest) /\ s \notin Range(rest) /\ Range(rest) \cup {s} = Range(waiting)
  BY <1>1, <1>2
<1>4. /\ Append(rest, s) \in Seq(Seqs) /\ IsInjective(Append(rest, s))
      /\ Range(Append(rest, s)) = Range(rest) \cup {s}
  BY <1>3, Appended
<1> QED BY <1>1, <1>2, <1>3, <1>4 DEF Rotated

(* A visit.                                                                *)
LEMMA VisitNextKeeps ==
  ASSUME PriorityInv, VisitNext
  PROVE  PriorityInv' /\ AllocatorStep
<1> USE DEF PriorityInv, EngineInv, CoreInv
<1>1. pc = "prefill" /\ to_visit # <<>> /\ remaining > 0
  BY DEF VisitNext, MayVisit
<1>2. PICK s \in Seqs : s = Head(to_visit)
  BY <1>1, NextVisited
<1>3. /\ s \in Range(waiting) \ Batch /\ status[s] = "WAITING"
      /\ Tail(to_visit) \in Seq(Seqs) /\ IsInjective(Tail(to_visit))
      /\ s \notin Range(Tail(to_visit))
      /\ Range(to_visit) = {s} \cup Range(Tail(to_visit))
      /\ Descending(Tail(to_visit))
      /\ \A r \in Range(Tail(to_visit)) : seq_priority[s] >= seq_priority[r]
  BY <1>1, <1>2, NextVisited
<1>4. PICK n \in Nat : n = Smaller(num_tokens(s), remaining) /\ 0 < n
                       /\ n <= num_tokens(s) /\ n <= remaining
  BY <1>1, <1>3, TokensLeft, BudgetLeft DEF Smaller
<1>5. is_prefill' = is_prefill
  BY <1>2, <1>3, MarkedAlready DEF VisitNext
<1>6. /\ HasBlocks(s)
      /\ AllocateOnFirstVisit(s)
      /\ num_scheduled_tokens' = [num_scheduled_tokens EXCEPT ![s] = n]
      /\ num_batched_tokens' = num_batched_tokens + n
      /\ status' = IF n = num_tokens(s) THEN [status EXCEPT ![s] = "RUNNING"] ELSE status
      /\ waiting' = IF n = num_tokens(s) THEN Without(waiting, {s}) ELSE Rotated(s)
      /\ running' = IF n = num_tokens(s) THEN Append(running, s) ELSE running
      /\ scheduled_seqs' = Append(scheduled_seqs, s)
      /\ to_visit' = Tail(to_visit)
      /\ UNCHANGED <<token_ids, request, pc, batch_is_prefill, cur, processed, levelVars>>
  BY <1>2, <1>4 DEF VisitNext
<1>7. /\ waiting' \in Seq(Seqs) /\ IsInjective(waiting')
      /\ Range(waiting') = IF n = num_tokens(s) THEN Range(waiting) \ {s} ELSE Range(waiting)
  BY <1>3, <1>6, VisitedMoves DEF Placed
<1>8. EngineInv' /\ AllocatorStep
  BY <1>1, <1>3, <1>4, <1>5, <1>6, <1>7, VisitKeeps
<1>9. Batch' = Batch \cup {s}
  BY <1>6, Appended DEF Batch, Sound, Fields
<1>10. \A r \in Seqs : r # s => block_table'[r] = block_table[r]
  BY <1>3, <1>6, VisitAllocates
<1>11. VisitInv'
  <2>1. /\ to_visit' \in Seq(Seqs) /\ IsInjective(to_visit')
        /\ Range(to_visit') = Range(to_visit) \ {s}
    BY <1>3, <1>6
  <2>2. Range(to_visit') \subseteq Range(waiting') \ Batch'
    BY <1>1, <1>7, <1>9, <2>1 DEF VisitInv
  <2>3. Descending(to_visit)'
    BY <1>3, <1>6 DEF Descending, levelVars
  <2>4. \A b \in Batch', r \in Range(to_visit') : seq_priority'[b] >= seq_priority'[r]
    BY <1>1, <1>3, <1>6, <1>9 DEF VisitInv, levelVars
  <2>5. \A w \in Range(waiting') \ (Batch' \cup Range(to_visit')) : block_table'[w] = <<>>
    <3> SUFFICES ASSUME NEW w \in Range(waiting') \ (Batch' \cup Range(to_visit'))
                 PROVE  block_table'[w] = <<>>
      OBVIOUS
    <3>1. w # s /\ w \in Range(waiting) \ (Batch \cup Range(to_visit))
      BY <1>7, <1>9, <2>1
    <3>2. w \in Seqs
      BY <3>1, RangeInSeqs DEF Placed
    <3> QED BY <1>1, <1>10, <3>1, <3>2 DEF VisitInv
  <2> QED BY <2>1, <2>2, <2>3, <2>4, <2>5 DEF VisitInv
<1>12. NoOvertaking'
  BY <1>1, <1>6 DEF NoOvertaking
<1> QED BY <1>6, <1>8, <1>11, <1>12 DEF levelVars

(* A sequence that finds no blocks is passed over.                         *)
LEMMA SkipVisitKeeps ==
  ASSUME PriorityInv, SkipVisit
  PROVE  PriorityInv' /\ AllocatorStep
<1>1. /\ pc = "prefill" /\ to_visit # <<>> /\ ~ HasBlocks(Head(to_visit))
      /\ to_visit' = Tail(to_visit) /\ UNCHANGED <<vars, levelVars>>
  BY DEF SkipVisit, MayVisit
<1>2. EngineInv' /\ AllocatorStep
  BY <1>1, StutterStep DEF PriorityInv
<1>3. UNCHANGED <<waiting, block_table, pc, scheduled_seqs, batch_is_prefill, seq_priority,
                  pending_priorities>>
  BY <1>1 DEF vars, bmVars, queueVars, stepVars, levelVars
<1>4. PICK s \in Seqs : s = Head(to_visit)
  BY <1>1, NextVisited
<1>5. /\ Tail(to_visit) \in Seq(Seqs) /\ IsInjective(Tail(to_visit))
      /\ Range(to_visit) = {s} \cup Range(Tail(to_visit))
      /\ Descending(Tail(to_visit))
  BY <1>1, <1>4, NextVisited
<1>6. block_table[s] = <<>>
  BY <1>1, <1>4 DEF HasBlocks
<1>7. Batch' = Batch
  BY <1>3 DEF Batch
<1>8. Descending(to_visit)'
  BY <1>1, <1>3, <1>5 DEF Descending
<1>9. VisitInv'
  BY <1>1, <1>3, <1>5, <1>6, <1>7, <1>8 DEF PriorityInv, VisitInv
<1>10. NoOvertaking'
  BY <1>1, <1>3 DEF NoOvertaking
<1> QED BY <1>2, <1>3, <1>9, <1>10 DEF PriorityInv

(* The visits start when nobody decodes, with all who wait.                *)
LEMMA EndTryDecodeKeeps ==
  ASSUME PriorityInv, EndTryDecode
  PROVE  PriorityInv' /\ AllocatorStep
<1> USE DEF PriorityInv
<1>1. /\ EndDecode("prefill")
      /\ to_visit' = IF scheduled_seqs = <<>> THEN SortedWaiting ELSE <<>>
      /\ pc' = IF scheduled_seqs # <<>> THEN "run" ELSE "prefill"
      /\ ~ batch_is_prefill'
      /\ UNCHANGED <<waiting, block_table, scheduled_seqs, seq_priority, pending_priorities>>
  BY DEF EndTryDecode, EndDecode, levelVars, bmVars
<1>2. EngineInv' /\ AllocatorStep
  BY <1>1, EndDecodeKeeps
<1>3. NoOvertaking'
  BY <1>1 DEF NoOvertaking
<1>4. VisitInv'
  <2>1. CASE scheduled_seqs # <<>>
    BY <1>1, <2>1 DEF VisitInv
  <2>2. CASE scheduled_seqs = <<>>
    <3>1. /\ to_visit' \in Seq(Seqs) /\ IsInjective(to_visit')
          /\ Range(to_visit') = Range(waiting) /\ Descending(SortedWaiting)
      BY <1>1, <2>2, SortOfWaiting DEF EngineInv, CoreInv, Placed
    <3>2. Batch' = {}
      BY <1>1, <2>2, EmptyBatch DEF Batch
    <3>3. Descending(to_visit)'
      BY <1>1, <2>2, <3>1 DEF Descending
    <3> QED BY <1>1, <3>1, <3>2, <3>3 DEF VisitInv
  <2> QED BY <2>1, <2>2
<1> QED BY <1>1, <1>2, <1>3, <1>4

(* The visits end: who is left out above the batch holds no blocks.        *)
LEMMA EndVisitsKeeps ==
  ASSUME PriorityInv, EndVisits
  PROVE  PriorityInv' /\ AllocatorStep
<1> USE DEF PriorityInv
<1>1. /\ pc = "prefill" /\ batch_is_prefill' = TRUE
      /\ pc' = IF scheduled_seqs # <<>> THEN "run" ELSE "raised"
      /\ UNCHANGED <<bmVars, queueVars, seqVars, kv, scheduled_seqs,
                     num_batched_tokens, cur, processed, levelVars>>
  BY DEF EndVisits
<1>2. EngineInv' /\ AllocatorStep
  BY <1>1, MovesOnKeeps DEF InDecodeLoop
<1>3. UNCHANGED <<waiting, block_table, seq_priority, pending_priorities>> /\ Batch' = Batch
  BY <1>1 DEF bmVars, queueVars, levelVars, Batch
<1>4. VisitInv'
  BY <1>1 DEF VisitInv
<1>5. NoOvertaking'
  <2> SUFFICES ASSUME NEW s \in Batch, NEW w \in Range(waiting) \ Batch,
                      seq_priority[w] > seq_priority[s]
               PROVE  block_table[w] = <<>>
    BY <1>3 DEF NoOvertaking
  <2>1. s \in Seqs /\ w \in Seqs
    BY RangeInSeqs DEF EngineInv, CoreInv, Sound, Fields, Placed, Batch
  <2>2. seq_priority[s] \in Int /\ seq_priority[w] \in Int
    BY <2>1 DEF Priorities, LOW, NORMAL, HIGH
  <2>3. w \notin Range(to_visit)
    BY <1>1, <2>2 DEF VisitInv
  <2> QED BY <1>1, <2>3 DEF VisitInv
<1> QED BY <1>2, <1>3, <1>4, <1>5

(* A request takes the oldest priority that is pending.                    *)
LEMMA AddWithPriorityKeeps ==
  ASSUME PriorityInv, NEW s \in Seqs, NEW p \in Levels, AddWithPriority(s, p)
  PROVE  PriorityInv' /\ AllocatorStep
<1> USE DEF PriorityInv
<1> DEFINE queue == Append(pending_priorities, p)
<1>1. /\ AddRequest(s) /\ pc' = "idle"
      /\ seq_priority' = [seq_priority EXCEPT ![s] = Head(queue)]
      /\ pending_priorities' = Tail(queue)
  BY DEF AddWithPriority, AddRequest, stepVars
<1>2. queue \in Seq(Levels) /\ queue # <<>>
  BY Appended
<1> HIDE DEF queue
<1>3. Head(queue) \in Priorities /\ Tail(queue) \in Seq(Levels)
  BY <1>2, Popped, LevelsAssumption DEF Priorities
<1>4. EngineInv' /\ AllocatorStep
  BY <1>1, AddRequestKeeps DEF EngineInv
<1> QED BY <1>1, <1>3, <1>4 DEF VisitInv, NoOvertaking

(* One that fails leaves its priority behind.                              *)
LEMMA FailAddKeeps ==
  ASSUME PriorityInv, NEW p \in Levels, FailAdd(p)
  PROVE  PriorityInv' /\ AllocatorStep
<1> USE DEF PriorityInv
<1>1. /\ pc = "idle" /\ pending_priorities' = Append(pending_priorities, p)
      /\ UNCHANGED <<vars, seq_priority>>
  BY DEF FailAdd
<1>2. EngineInv' /\ AllocatorStep
  BY <1>1, StutterStep
<1>3. pc' = "idle"
  BY <1>1 DEF vars, stepVars
<1>4. pending_priorities' \in Seq(Levels)
  BY <1>1, Appended
<1> QED BY <1>1, <1>2, <1>3, <1>4 DEF VisitInv, NoOvertaking

(* The steps that this policy shares.                                      *)
LEMMA SharedStepsKeep ==
  ASSUME PriorityInv, seq_priority' \in [Seqs -> Priorities],
         UNCHANGED pending_priorities,
         StartStep("decode") \/ DecodePhase \/ RunAndPostprocess
  PROVE  PriorityInv' /\ AllocatorStep
<1>1. EngineInv' /\ AllocatorStep
  BY StartStepKeeps, CoreStepKeeps DEF PriorityInv
<1>2. pc' \notin {"prefill", "run"}
  BY DEF StartStep, DecodePhase, PopRunning, PreemptNewest, PreemptSelf, DecodeCur,
         RunAndPostprocess, RunModel, PostprocessOne, EndStep, stepVars
<1> QED BY <1>1, <1>2 DEF PriorityInv, VisitInv, NoOvertaking

(* A step of the engine.                                                   *)
LEMMA PriorityNextKeeps ==
  ASSUME PriorityInv, [PriorityNext]_priorityVars
  PROVE  PriorityInv' /\ AllocatorStep
<1>1. CASE \E s \in Seqs, p \in Levels : AddWithPriority(s, p)
  BY <1>1, AddWithPriorityKeeps
<1>2. CASE \E p \in Levels : FailAdd(p)
  BY <1>2, FailAddKeeps
<1>3. CASE (StartStep("decode") \/ DecodePhase \/ RunModel
              \/ \E t \in Token : PostprocessOne(t)) /\ UNCHANGED levelVars
  BY <1>3, SharedStepsKeep DEF levelVars, PriorityInv, RunAndPostprocess
<1>4. CASE EndPriorityStep
  <2>1. EndStep /\ UNCHANGED pending_priorities /\ seq_priority' = Forgotten(seq_priority)
    BY <1>4 DEF EndPriorityStep
  <2>2. seq_priority' \in [Seqs -> Priorities]
    BY <2>1 DEF Forgotten, PriorityInv, Priorities
  <2> QED BY <2>1, <2>2, SharedStepsKeep DEF RunAndPostprocess
<1>5. CASE SkipVisit \/ VisitNext \/ EndVisits \/ EndTryDecode
  BY <1>5, SkipVisitKeeps, VisitNextKeeps, EndVisitsKeeps, EndTryDecodeKeeps
<1>6. CASE UNCHANGED priorityVars
  <2>1. UNCHANGED <<vars, levelVars, to_visit>>
    BY <1>6 DEF priorityVars
  <2>2. EngineInv' /\ AllocatorStep
    BY <2>1, StutterStep DEF PriorityInv
  <2>3. UNCHANGED <<waiting, block_table, pc, scheduled_seqs, batch_is_prefill, seq_priority,
                    pending_priorities, to_visit>>
    BY <2>1 DEF vars, bmVars, queueVars, stepVars, levelVars
  <2> QED BY <2>2, <2>3 DEF PriorityInv, VisitInv, NoOvertaking, Descending, Batch
<1> QED BY <1>1, <1>2, <1>3, <1>4, <1>5, <1>6 DEF PriorityNext, PriorityStep

(* The inductive invariant holds, and every step uses the allocator as it  *)
(* may be used.                                                            *)
THEOREM PriorityCorrect ==
  PrioritySpec => []PriorityInv /\ [][AllocatorStep]_priorityVars
<1>1. PriorityInit => PriorityInv
  BY EngineInit, EmptyBatch
     DEF PriorityInit, PriorityInv, CoreInit, VisitInv, NoOvertaking, Priorities
<1>2. PriorityInv /\ [PriorityNext]_priorityVars => PriorityInv' /\ AllocatorStep
  BY PriorityNextKeeps
<1> QED BY <1>1, <1>2, PTL DEF PrioritySpec

(* A prompt that is prefilled in part is not overtaken by a request of     *)
(* lower priority: who is left out of a batch below it holds no blocks.    *)
THEOREM NotOvertaken == PrioritySpec => []NoOvertaking
BY PriorityCorrect, PTL DEF PriorityInv

(* The visits, which take sequences from the middle of the waiting deque,  *)
(* lose and duplicate none.                                                *)
THEOREM PriorityRequestsKept == PrioritySpec => []NoRequestLost
<1>1. PriorityInv => NoRequestLost
  BY EachInOnePlace DEF PriorityInv
<1> QED BY <1>1, PriorityCorrect, PTL

(* The priority scheduler is a legal caller of the allocator.              *)
THEOREM PriorityUsesAllocator == PrioritySpec => UsesBlockManager
<1>1. PriorityInit => BMInit
  BY DEF PriorityInit, CoreInit
<1>2. [AllocatorStep]_priorityVars => [BMNext]_bmVars
  BY DEF AllocatorStep, priorityVars, vars
<1> QED BY <1>1, <1>2, PriorityCorrect, PTL DEF PrioritySpec, UsesBlockManager, BMSpec

-----------------------------------------------------------------------------
(* The KV cache, and the service.  The visits between two forward passes.  *)
LEMMA VisitsCache ==
  ASSUME PriorityInv, BMInv', CacheInv, VisitNext \/ SkipVisit \/ EndVisits
  PROVE  CacheInv'
<1> USE DEF PriorityInv, EngineInv, CoreInv, Sound
<1>1. CASE VisitNext
  <2>1. /\ pc = "prefill" /\ pc' = "prefill" /\ to_visit # <<>>
        /\ HasBlocks(Head(to_visit)) /\ AllocateOnFirstVisit(Head(to_visit))
        /\ UNCHANGED <<token_ids, kv>>
    BY <1>1 DEF VisitNext, MayVisit
  <2> QED BY <2>1, NextVisited, VisitCache
<1>2. CASE SkipVisit
  BY <1>2, StutterCache DEF SkipVisit
<1>3. CASE EndVisits
  BY <1>3, BetweenPassesIdle DEF EndVisits
<1> QED BY <1>1, <1>2, <1>3

(* A step of the engine.                                                   *)
LEMMA PriorityNextCache ==
  ASSUME PriorityInv, BMInv', CacheInv, [PriorityNext]_priorityVars
  PROVE  CacheInv'
<1>0. CoreInv /\ BMInv /\ Sound
  BY DEF PriorityInv, EngineInv, CoreInv, Sound
<1>1. CASE \E s \in Seqs, p \in Levels : AddWithPriority(s, p)
  BY <1>0, <1>1, AddRequestCache DEF AddWithPriority
<1>2. CASE StartStep("decode") \/ EndTryDecode
  BY <1>0, <1>2, LoopEndCache DEF EndTryDecode
<1>3. CASE DecodePhase \/ RunModel \/ (\E t \in Token : PostprocessOne(t)) \/ EndPriorityStep
  BY <1>0, <1>3, CoreStepCache DEF EndPriorityStep, RunAndPostprocess
<1>4. CASE VisitNext \/ SkipVisit \/ EndVisits
  BY <1>4, VisitsCache
<1>5. CASE (\E p \in Levels : FailAdd(p)) \/ UNCHANGED priorityVars
  BY <1>5, StutterCache DEF FailAdd, priorityVars
<1> QED BY <1>1, <1>2, <1>3, <1>4, <1>5 DEF PriorityNext, PriorityStep

(* The inductive invariant of the cache.                                   *)
THEOREM PriorityCacheCorrect == PrioritySpec => []CacheInv
<1>1. PriorityInit => CacheInv
  BY CacheInit DEF PriorityInit
<1>2. PriorityInv /\ PriorityInv' /\ CacheInv /\ [PriorityNext]_priorityVars => CacheInv'
  BY PriorityNextCache DEF PriorityInv, EngineInv, CoreInv, Sound
<1> QED BY <1>1, <1>2, PriorityCorrect, PTL DEF PrioritySpec

(* Under the priority policy, too, attention reads a sequence's own tokens.*)
THEOREM PriorityCacheIsolated == PrioritySpec => []KVMatchesPrefix
BY PriorityCacheCorrect, CacheMatches, PTL

(* The visits are not seen by the clients.                                 *)
LEMMA VisitsUnseen ==
  ASSUME PriorityInv, VisitNext \/ SkipVisit \/ EndVisits
  PROVE  Unseen
<1>1. CASE VisitNext
  <2>1. pc = "prefill" /\ to_visit # <<>> /\ UNCHANGED <<token_ids, request>>
    BY <1>1 DEF VisitNext, MayVisit
  <2>2. PICK s \in Seqs : s = Head(to_visit) /\ status[s] = "WAITING"
    BY <2>1, NextVisited
  <2>3. status' = [status EXCEPT ![s] = "RUNNING"] \/ status' = status
    BY <1>1, <2>2 DEF VisitNext
  <2>4. CASE status' = status
    BY <2>1, <2>4 DEF Unseen
  <2> QED BY <2>1, <2>2, <2>3, <2>4, StatusMoves DEF PriorityInv, EngineInv, CoreInv, Sound
<1>2. CASE SkipVisit \/ EndVisits
  BY <1>2 DEF SkipVisit, EndVisits, Unseen, vars, bmVars, seqVars
<1> QED BY <1>1, <1>2

(* Every step of the engine is one of the service, or is not seen there.   *)
LEMMA PriorityStepsServe ==
  ASSUME PriorityInv, PromptsKept, [PriorityNext]_priorityVars
  PROVE  [Service!ServiceNext]_(Service!serviceVars) /\ PromptsKept'
<1>0. CoreInv
  BY DEF PriorityInv, EngineInv
<1>1. CASE \E s \in Seqs, p \in Levels : AddWithPriority(s, p)
  BY <1>0, <1>1, ArrivalAccepted DEF AddWithPriority, Service!ServiceNext
<1>2. CASE \E t \in Token : PostprocessOne(t)
  BY <1>0, <1>2, TokenEmitted DEF Service!ServiceNext, Service!EmitSome
<1>3. CASE StartStep("decode") \/ DecodePhase \/ EndTryDecode \/ RunModel \/ EndPriorityStep
  <2>1. Unseen
    BY <1>0, <1>3, ScheduleUnseen DEF EndTryDecode, EndPriorityStep
  <2> QED BY <2>1, UnseenStutters
<1>4. CASE VisitNext \/ SkipVisit \/ EndVisits
  BY <1>4, VisitsUnseen, UnseenStutters
<1>5. CASE (\E p \in Levels : FailAdd(p)) \/ UNCHANGED priorityVars
  <2>1. Unseen
    BY <1>5 DEF FailAdd, priorityVars, vars, bmVars, seqVars, Unseen
  <2> QED BY <2>1, UnseenStutters
<1> QED BY <1>1, <1>2, <1>3, <1>4, <1>5 DEF PriorityNext, PriorityStep

(* What the engine does under this policy is what the service allows.      *)
THEOREM PriorityServes == PrioritySpec => KeepsServiceSafe
<1>1. PriorityInit => Service!ServiceInit /\ PromptsKept
  BY ServiceStarts DEF PriorityInit
<1>2. PriorityInv /\ PromptsKept /\ [PriorityNext]_priorityVars
        => [Service!ServiceNext]_(Service!serviceVars) /\ PromptsKept'
  BY PriorityStepsServe
<1> QED BY <1>1, <1>2, PriorityCorrect, PTL DEF PrioritySpec, KeepsServiceSafe

(* Every variable the policies share keeps its type under this one.        *)
THEOREM PriorityTypes == PrioritySpec => []SchedulerTypeOK
<1>1. PriorityInv /\ CacheInv => SchedulerTypeOK
  BY EngineTyped DEF PriorityInv
<1> QED BY <1>1, PriorityCorrect, PriorityCacheCorrect, PTL
=============================================================================
