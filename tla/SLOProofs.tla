----------------------------- MODULE SLOProofs ------------------------------
(***************************************************************************)
(* The SLO-aware policy, for every pool, every set of requests, every      *)
(* limit and every clock: a sequence is in one place however the loops of  *)
(* schedule() move it, its batches fit the tables, no attention reads the  *)
(* tokens of another sequence, what clients see is the service they were   *)
(* promised, and the calibration stays inside its lists.                   *)
(***************************************************************************)
EXTENDS SLOAware, SchedulerProofs

-----------------------------------------------------------------------------
(* The loops of schedule(): of decoding, and of prefill.                   *)
Deciding == pc \in {"scan", "settle", "take"}
InLoops  == Deciding \/ pc = "prefill"

(* What joined the batch; cur replaced its victim but has no block yet.    *)
Accepted == (Range(hi) \cup Range(lo)) \ {cur}

(* The two deques share no sequence, and the status says which it is in;   *)
(* a running sequence may be in neither.                                   *)
QueuesApart ==
  /\ waiting \in Seq(Seqs) /\ IsInjective(waiting)
  /\ running \in Seq(Seqs) /\ IsInjective(running)
  /\ Range(waiting) \cap Range(running) = {}
  /\ \A s \in Seqs : s \in Range(waiting) <=> status[s] = "WAITING"
  /\ \A s \in Range(running) : status[s] = "RUNNING"

(* Nor do the lists of schedule().  Those that decode hold what the deques *)
(* do not.                                                                 *)
ListsApart ==
  /\ to_scan \in Seq(Seqs) /\ IsInjective(to_scan)
  /\ hi \in Seq(Seqs) /\ IsInjective(hi)
  /\ lo \in Seq(Seqs) /\ IsInjective(lo)
  /\ Range(hi) \cap Range(lo) = {}
  /\ pc # "scan" => to_scan = <<>>
  /\ ~ InLoops => hi = <<>> /\ lo = <<>>
  /\ Deciding =>
       /\ Range(to_scan) \cap (Range(hi) \cup Range(lo)) = {}
       /\ Range(running) \cap (Range(to_scan) \cup Range(hi) \cup Range(lo)) = {}
       /\ \A s \in Range(to_scan) \cup Range(hi) \cup Range(lo) : status[s] = "RUNNING"

(* The sequence that replaced a victim finds the block the victim freed.   *)
InHandApart ==
  /\ cur = NoSeq <=> pc # "take"
  /\ pc = "take" => /\ cur \in Range(lo)
                    /\ num_scheduled_tokens[cur] = 0
                    /\ can_append(cur)

(* While schedule() builds a batch, tokens are scheduled for what joined   *)
(* it, and for victims of preemption, which hold no blocks.                *)
AcceptedHold ==
  InLoops =>
    /\ scheduled_seqs = <<>> /\ processed = 0
    /\ \A s \in Accepted : num_scheduled_tokens[s] > 0
    /\ Deciding => \A s \in Accepted : num_scheduled_tokens[s] = 1 /\ ~ is_prefill[s]
    /\ \A s \in Seqs :
         num_scheduled_tokens[s] > 0 => (s \in Accepted <=> block_table[s] # <<>>)
    /\ pc = "prefill" =>
         \A s \in Accepted : /\ is_prefill[s] /\ status[s] # "NEW"
                             /\ remaining > 0 => status[s] # "WAITING"

(* The inductive invariant of the policy.                                  *)
SLOInv ==
  /\ Sound /\ QueuesApart /\ ListsApart /\ InHandApart /\ AcceptedHold
  /\ pc \in {"idle", "scan", "settle", "take", "prefill", "run", "post", "raised"}
  /\ ~ InLoops => BatchPlanned /\ ScheduledHold
  /\ pc = "run" => IsInjective(scheduled_seqs)

-----------------------------------------------------------------------------
(* Between two calls of schedule() the policy keeps what the others do.    *)
LEMMA OutOfLoops ==
  ASSUME SLOInv, pc \notin {"scan", "settle", "take", "prefill"}
  PROVE  CoreInv
<1>1. ~ InLoops /\ pc \in {"idle", "run", "post", "raised"} /\ cur = NoSeq
  BY DEF SLOInv, InLoops, Deciding, InHandApart
<1>2. Taken = {} /\ InHand = {}
  BY <1>1 DEF Taken, InHand, InDecodeLoop
<1>3. Placed
  BY <1>1, <1>2 DEF SLOInv, QueuesApart, Placed
<1> QED BY <1>1, <1>3 DEF SLOInv, CoreInv

(* Conversely: when schedule() returns, and in the steps after it.         *)
LEMMA BackFromCore ==
  ASSUME CoreInv', pc' \in {"idle", "run", "post", "raised"},
         to_scan' = <<>>, hi' = <<>>, lo' = <<>>,
         pc' = "run" => IsInjective(scheduled_seqs')
  PROVE  SLOInv'
<1>1. ~ InLoops' /\ ~ Deciding'
  BY DEF InLoops, Deciding
<1>2. QueuesApart' /\ InHandApart'
  BY DEF CoreInv, Placed, QueuesApart, InHandApart
<1>3. ListsApart'
  BY <1>1, EmptyBatch DEF ListsApart
<1>4. AcceptedHold'
  BY <1>1 DEF AcceptedHold
<1> QED BY <1>1, <1>2, <1>3, <1>4 DEF SLOInv, CoreInv

(* No sequence is in hand but while one takes the block of its victim.     *)
LEMMA NobodyInHand ==
  ASSUME SLOInv, pc # "take"
  PROVE  /\ cur = NoSeq /\ cur \notin Seqs
         /\ Accepted = Range(hi) \cup Range(lo) /\ Accepted \subseteq Seqs
<1>1. cur = NoSeq /\ cur \notin Seqs
  BY NoSeqIsNone DEF SLOInv, InHandApart
<1>2. Range(hi) \subseteq Seqs /\ Range(lo) \subseteq Seqs
  BY RangeInSeqs DEF SLOInv, ListsApart
<1> QED BY <1>1, <1>2 DEF Accepted

(* The start of the engine.                                                *)
LEMMA SLOStarts == SLOInit => SLOInv
<1> SUFFICES ASSUME SLOInit PROVE SLOInv
  OBVIOUS
<1>1. CoreInv
  BY EngineInit DEF SLOInit, EngineInv
<1>2. pc = "idle" /\ ~ InLoops /\ ~ Deciding /\ hi = <<>> /\ lo = <<>> /\ to_scan = <<>>
  BY DEF SLOInit, CoreInit, InLoops, Deciding
<1>3. QueuesApart /\ InHandApart
  BY <1>1, <1>2 DEF CoreInv, Placed, QueuesApart, InHandApart
<1>4. ListsApart
  BY <1>2, EmptyBatch DEF ListsApart
<1>5. AcceptedHold
  BY <1>2 DEF AcceptedHold
<1> QED BY <1>1, <1>2, <1>3, <1>4, <1>5 DEF SLOInv, CoreInv

(* The steps outside of schedule() leave its lists empty.                  *)
LEMMA OutsideKeeps ==
  ASSUME SLOInv, UNCHANGED loopVars,
         \/ \E s \in Seqs : AddRequest(s)
         \/ RunModel \/ (\E t \in Token : PostprocessOne(t)) \/ EndStep
  PROVE  SLOInv' /\ AllocatorStep
<1>1. pc \in {"idle", "run", "post"} /\ pc' \in {"idle", "post"}
  BY DEF AddRequest, RunModel, PostprocessOne, EndStep, stepVars
<1>2. CoreInv
  BY <1>1, OutOfLoops
<1>3. hi' = <<>> /\ lo' = <<>> /\ to_scan' = <<>>
  BY <1>1 DEF SLOInv, ListsApart, InLoops, Deciding, loopVars
<1>4. CoreInv' /\ AllocatorStep
  BY <1>2, AddRequestKeeps, RunModelKeeps, PostprocessOneKeeps, EndStepKeeps
<1> QED BY <1>1, <1>3, <1>4, BackFromCore

-----------------------------------------------------------------------------
(* The start of a step: nothing is scheduled for what runs.                *)
LEMMA StartSLOStepKeeps ==
  ASSUME SLOInv, StartSLOStep
  PROVE  SLOInv' /\ AllocatorStep
<1> USE DEF StartSLOStep, bmVars, seqVars
<1>1. pc = "idle" /\ pc' = "scan" /\ ~ InLoops /\ InLoops' /\ Deciding'
  BY DEF InLoops, Deciding
<1>2. CoreInv
  BY <1>1, OutOfLoops
<1>3. /\ hi = <<>> /\ lo = <<>> /\ hi' = <<>> /\ lo' = <<>>
      /\ cur' = NoSeq /\ Accepted' = {}
  BY <1>1, EmptyBatch DEF SLOInv, ListsApart, InHandApart, Accepted
<1>4. scheduled_seqs = <<>> /\ processed = 0 /\ Pending = {}
  BY <1>1, <1>2, NothingPending DEF CoreInv, BatchPlanned
<1>5. Sound' /\ AllocatorStep
  <2>1. Fields'
    BY DEF SLOInv, Sound, Fields
  <2> QED BY <2>1, SameSound DEF SLOInv
<1>6. QueuesApart'
  BY EmptyBatch DEF SLOInv, QueuesApart
<1>7. ListsApart' /\ InHandApart'
  BY <1>1, <1>3, EmptyBatch DEF SLOInv, QueuesApart, ListsApart, InHandApart
<1>8. AcceptedHold'
  BY <1>1, <1>2, <1>3, <1>4 DEF CoreInv, ScheduledHold, AcceptedHold
<1> QED BY <1>1, <1>5, <1>6, <1>7, <1>8 DEF SLOInv

(* Nothing is scheduled for a sequence that runs and did not join.         *)
LEMMA NothingScheduled ==
  ASSUME SLOInv, InLoops, NEW s \in Seqs, status[s] = "RUNNING", s \notin Accepted
  PROVE  num_scheduled_tokens[s] = 0 /\ block_table[s] # <<>>
<1>1. block_table[s] # <<>> /\ num_scheduled_tokens[s] \in Nat
  BY DEF SLOInv, Sound, Fields, TablesFit, TableFits
<1> QED BY <1>1 DEF SLOInv, AcceptedHold

(* Steps of schedule() that move sequences between its lists only: what    *)
(* joined the batch stays.                                                 *)
LEMMA MoveKeeps ==
  ASSUME SLOInv, pc \in {"scan", "settle"}, pc' \in {"scan", "settle"},
         UNCHANGED <<bmVars, seqVars, waiting, scheduled_seqs, num_batched_tokens,
                     batch_is_prefill, cur, processed, hi, lo>>,
         running' \in Seq(Seqs), IsInjective(running'),
         to_scan' \in Seq(Seqs), IsInjective(to_scan'),
         pc' # "scan" => to_scan' = <<>>,
         Range(running') \cap Range(to_scan') = {},
         Range(running') \cup Range(to_scan') \subseteq Range(running) \cup Range(to_scan)
  PROVE  SLOInv' /\ AllocatorStep
<1> USE DEF bmVars, seqVars
<1>1. InLoops /\ Deciding /\ InLoops' /\ Deciding'
  BY DEF InLoops, Deciding
<1>2. Sound' /\ AllocatorStep
  <2>1. Fields'
    BY DEF SLOInv, Sound, Fields
  <2> QED BY <2>1, SameSound DEF SLOInv
<1>3. \A s \in Range(running) \cup Range(to_scan) : status[s] = "RUNNING"
  BY <1>1 DEF SLOInv, QueuesApart, ListsApart
<1>4. Range(waiting) \cap (Range(running) \cup Range(to_scan)) = {}
  <2>1. \A s \in Range(waiting) : s \in Seqs /\ status[s] = "WAITING"
    BY RangeInSeqs DEF SLOInv, QueuesApart
  <2> QED BY <1>3, <2>1
<1>5. QueuesApart'
  BY <1>3, <1>4 DEF SLOInv, QueuesApart
<1>6. ListsApart' /\ InHandApart'
  BY <1>1, <1>3 DEF SLOInv, ListsApart, InHandApart
<1>7. Accepted' = Accepted
  BY DEF Accepted
<1>8. AcceptedHold'
  BY <1>1, <1>7 DEF SLOInv, AcceptedHold
<1> QED BY <1>1, <1>2, <1>5, <1>6, <1>8 DEF SLOInv

(* A scanned sequence that cannot append goes back to running.             *)
LEMMA DeferScannedKeeps ==
  ASSUME SLOInv, DeferScanned
  PROVE  SLOInv' /\ AllocatorStep
<1> USE DEF DeferScanned, stepVars
<1>1. /\ to_scan \in Seq(Seqs) /\ IsInjective(to_scan) /\ to_scan # <<>>
      /\ running \in Seq(Seqs) /\ IsInjective(running)
      /\ Range(running) \cap Range(to_scan) = {}
  BY DEF SLOInv, ListsApart, QueuesApart, Deciding
<1>2. PICK s : s = Head(to_scan)
  OBVIOUS
<1>3. /\ s \in Seqs /\ Tail(to_scan) \in Seq(Seqs) /\ IsInjective(Tail(to_scan))
      /\ Range(to_scan) = {s} \cup Range(Tail(to_scan)) /\ s \notin Range(Tail(to_scan))
  BY <1>1, <1>2, Popped
<1>4. /\ Append(running, s) \in Seq(Seqs) /\ IsInjective(Append(running, s))
      /\ Range(Append(running, s)) = Range(running) \cup {s}
  BY <1>1, <1>3, Appended
<1>5. running' = Append(running, s) /\ to_scan' = Tail(to_scan)
  BY <1>2
<1>6. /\ running' \in Seq(Seqs) /\ IsInjective(running')
      /\ to_scan' \in Seq(Seqs) /\ IsInjective(to_scan')
      /\ Range(running') \cap Range(to_scan') = {}
      /\ Range(running') \cup Range(to_scan') \subseteq Range(running) \cup Range(to_scan)
  BY <1>1, <1>3, <1>4, <1>5
<1>7. /\ pc = "scan" /\ pc' = "scan"
      /\ UNCHANGED <<bmVars, seqVars, waiting, scheduled_seqs, num_batched_tokens,
                     batch_is_prefill, cur, processed, hi, lo>>
  OBVIOUS
<1> QED BY <1>6, <1>7, MoveKeeps

(* The end of the first loop.                                              *)
LEMMA EndScanKeeps ==
  ASSUME SLOInv, EndScan
  PROVE  SLOInv' /\ AllocatorStep
<1>1. /\ pc = "scan" /\ pc' = "settle" /\ to_scan' = <<>>
      /\ UNCHANGED <<bmVars, seqVars, waiting, scheduled_seqs, num_batched_tokens,
                     batch_is_prefill, cur, processed, hi, lo>>
  BY DEF EndScan, queueVars, loopVars
<1>2. running' \in Seq(Seqs) /\ IsInjective(running') /\ running' = running
  BY DEF SLOInv, QueuesApart, EndScan, queueVars
<1> QED BY <1>1, <1>2, EmptyBatch, MoveKeeps

(* A deferred sequence that can append is in no list from now on.          *)
LEMMA DropDeferredKeeps ==
  ASSUME SLOInv, DropDeferred
  PROVE  SLOInv' /\ AllocatorStep
<1>1. /\ pc = "settle" /\ pc' = "settle" /\ to_scan' = to_scan /\ to_scan = <<>>
      /\ UNCHANGED <<bmVars, seqVars, waiting, scheduled_seqs, num_batched_tokens,
                     batch_is_prefill, cur, processed, hi, lo>>
  BY DEF DropDeferred, stepVars, loopVars, SLOInv, ListsApart
<1>2. running' = Tail(running) /\ running # <<>> /\ running \in Seq(Seqs) /\ IsInjective(running)
  BY DEF DropDeferred, SLOInv, QueuesApart
<1>3. /\ running' \in Seq(Seqs) /\ IsInjective(running')
      /\ Range(running') \subseteq Range(running)
  BY <1>2, Popped
<1> QED BY <1>1, <1>3, EmptyBatch, MoveKeeps

-----------------------------------------------------------------------------
(* A sequence that joins the batch joins one half of it.                   *)
LEMMA JoinsOneHalf ==
  ASSUME NEW s \in Seqs, Sort(s),
         hi \in Seq(Seqs), IsInjective(hi), lo \in Seq(Seqs), IsInjective(lo),
         Range(hi) \cap Range(lo) = {}, s \notin Range(hi) \cup Range(lo)
  PROVE  /\ hi' \in Seq(Seqs) /\ IsInjective(hi')
         /\ lo' \in Seq(Seqs) /\ IsInjective(lo')
         /\ Range(hi') \cap Range(lo') = {}
         /\ Range(hi') \cup Range(lo') = Range(hi) \cup Range(lo) \cup {s}
<1>1. /\ Append(hi, s) \in Seq(Seqs) /\ IsInjective(Append(hi, s))
      /\ Range(Append(hi, s)) = Range(hi) \cup {s}
      /\ Append(lo, s) \in Seq(Seqs) /\ IsInjective(Append(lo, s))
      /\ Range(Append(lo, s)) = Range(lo) \cup {s}
  BY Appended
<1>2. CASE hi' = Append(hi, s) /\ lo' = lo
  BY <1>1, <1>2
<1>3. CASE lo' = Append(lo, s) /\ hi' = hi
  BY <1>1, <1>3
<1> QED BY <1>2, <1>3 DEF Sort

(* A scanned sequence that can append takes a block and joins the batch.   *)
LEMMA AcceptScannedKeeps ==
  ASSUME SLOInv, AcceptScanned
  PROVE  SLOInv' /\ AllocatorStep
<1>1. PICK s : s = Head(to_scan)
  OBVIOUS
<1>2. /\ pc = "scan" /\ pc' = "scan" /\ to_scan # <<>> /\ can_append(s) /\ may_append(s)
      /\ num_scheduled_tokens' = [num_scheduled_tokens EXCEPT ![s] = 1]
      /\ is_prefill' = [is_prefill EXCEPT ![s] = FALSE]
      /\ Sort(s) /\ to_scan' = Tail(to_scan)
      /\ UNCHANGED <<token_ids, num_cached_tokens, request, status, waiting, running,
                     scheduled_seqs, num_batched_tokens, batch_is_prefill, cur, processed>>
  BY <1>1 DEF AcceptScanned, queueVars, stepVars
<1>3. InLoops /\ Deciding /\ InLoops' /\ Deciding'
  BY <1>2 DEF InLoops, Deciding
<1>4. /\ s \in Seqs /\ status[s] = "RUNNING" /\ s \notin Range(hi) \cup Range(lo)
      /\ to_scan' \in Seq(Seqs) /\ IsInjective(to_scan')
      /\ Range(to_scan) = {s} \cup Range(to_scan') /\ s \notin Range(to_scan')
  <2>1. to_scan \in Seq(Seqs) /\ IsInjective(to_scan)
    BY DEF SLOInv, ListsApart
  <2>2. /\ s \in Seqs /\ Tail(to_scan) \in Seq(Seqs) /\ IsInjective(Tail(to_scan))
        /\ Range(to_scan) = {s} \cup Range(Tail(to_scan)) /\ s \notin Range(Tail(to_scan))
    BY <1>1, <1>2, <2>1, Popped
  <2> QED BY <1>2, <1>3, <2>2 DEF SLOInv, ListsApart
<1>5. cur = NoSeq /\ Accepted = Range(hi) \cup Range(lo) /\ Accepted \subseteq Seqs
  BY <1>2, NobodyInHand
<1>6. num_scheduled_tokens[s] = 0
  BY <1>3, <1>4, <1>5, NothingScheduled
<1>7. /\ Sound' /\ AllocatorStep
      /\ block_table'[s] # <<>>
      /\ \A r \in Seqs : r # s => /\ is_prefill'[r] = is_prefill[r]
                                  /\ block_table'[r] = block_table[r]
      /\ \A r \in Seqs : num_scheduled_tokens'[r] =
                           IF r = s THEN 1 ELSE num_scheduled_tokens[r]
  <2>1. scheduled_seqs' \in Seq(Seqs) /\ processed' \in 0 .. Len(scheduled_seqs')
    BY <1>2 DEF SLOInv, Sound, Fields
  <2> QED BY <1>2, <1>4, <1>6, <2>1, AppendSound DEF SLOInv
<1>8. /\ hi' \in Seq(Seqs) /\ IsInjective(hi')
      /\ lo' \in Seq(Seqs) /\ IsInjective(lo')
      /\ Range(hi') \cap Range(lo') = {}
      /\ Range(hi') \cup Range(lo') = Range(hi) \cup Range(lo) \cup {s}
  BY <1>2, <1>4, JoinsOneHalf DEF SLOInv, ListsApart
<1>9. QueuesApart' /\ InHandApart'
  BY <1>2, <1>5 DEF SLOInv, QueuesApart, InHandApart
<1>10. ListsApart'
  <2>1. /\ Range(to_scan) \cap (Range(hi) \cup Range(lo)) = {}
        /\ Range(running) \cap (Range(to_scan) \cup Range(hi) \cup Range(lo)) = {}
        /\ \A r \in Range(to_scan) \cup Range(hi) \cup Range(lo) : status[r] = "RUNNING"
    BY <1>3 DEF SLOInv, ListsApart
  <2>2. /\ Range(to_scan') \cap (Range(hi') \cup Range(lo')) = {}
        /\ Range(running') \cap (Range(to_scan') \cup Range(hi') \cup Range(lo')) = {}
        /\ \A r \in Range(to_scan') \cup Range(hi') \cup Range(lo') : status'[r] = "RUNNING"
    BY <1>2, <1>4, <1>8, <2>1
  <2> QED BY <1>2, <1>3, <1>4, <1>8, <2>2 DEF ListsApart
<1>11. Accepted' = Accepted \cup {s}
  BY <1>2, <1>4, <1>5, <1>8, NoSeqIsNone DEF Accepted
<1>12. AcceptedHold'
  <2>1. is_prefill'[s] = FALSE
    BY <1>2, <1>4 DEF SLOInv, Sound, Fields
  <2> QED BY <1>2, <1>3, <1>4, <1>5, <1>7, <1>11, <2>1 DEF SLOInv, AcceptedHold
<1> QED BY <1>2, <1>3, <1>7, <1>9, <1>10, <1>12 DEF SLOInv

(* A sequence that was to write its last token is alone in its last block: *)
(* with its release one more sequence can append.                          *)
LEMMA FreesABlock ==
  ASSUME BMInv, NEW s \in Seqs, deallocate(s), BMInv',
         token_ids[s] # <<>>, num_cached_tokens[s] + 1 = Len(token_ids[s]),
         Len(block_table[s]) = num_blocks(s)
  PROVE  Len(free_block_ids') > 0
<1>1. PICK c, l, last, b :
        /\ c = num_cached_tokens[s] /\ l = Len(token_ids[s])
        /\ last = num_blocks(s) /\ b = block_table[s][last]
  OBVIOUS
<1>2. /\ c \in Nat /\ l \in Nat /\ l = c + 1
      /\ block_table[s] \in Seq(Blocks) /\ DOMAIN block_table[s] = 1 .. last
  BY <1>1 DEF BMInv, BMTypeOK
<1>3. last \in Nat /\ last > 0 /\ l <= last * BlockSize
  <2>1. last = BlocksFor(l)
    BY <1>1 DEF num_blocks
  <2> QED BY <1>2, <2>1, BlocksForBounds
<1>4. last > full_blocks(s)
  <2>1. full_blocks(s) \in Nat /\ full_blocks(s) * BlockSize <= c
    BY <1>1, <1>2, DivBlockSize DEF full_blocks
  <2>2. last <= full_blocks(s) => last * BlockSize <= full_blocks(s) * BlockSize
    BY <1>3, <2>1, TimesBlockSize
  <2>3. last * BlockSize \in Nat /\ full_blocks(s) * BlockSize \in Nat
    BY <1>3, <2>1, TimesBlockSize
  <2> QED BY <1>2, <1>3, <2>1, <2>2, <2>3
<1>5. last \in DOMAIN block_table[s] /\ b \in Blocks
  BY <1>1, <1>2, <1>3
<1>6. Holders(b) = {s}
  <2>1. full_blocks(s) \in Nat
    BY <1>1, <1>2, DivBlockSize DEF full_blocks
  <2>2. ~ (last <= full_blocks(s))
    BY <1>3, <1>4, <2>1
  <2> QED BY <1>1, <1>5, <2>2 DEF BMInv, TablesLabelled
<1>7. Holders(b)' = {}
  BY <1>6, DeallocateEffect, BMParts
<1>8. b \in Range(free_block_ids')
  BY <1>5, <1>7 DEF BMInv, BlockAccounting
<1>9. free_block_ids' \in Seq(Blocks)
  BY DEF BMInv, BMTypeOK
<1> QED BY <1>8, <1>9, LenProperties DEF Range

(* The deferred sequence that the second loop pops.                        *)
LEMMA PoppedDeferred ==
  ASSUME SLOInv, pc = "settle", running # <<>>, NEW s, s = Head(running)
  PROVE  /\ s \in Seqs /\ status[s] = "RUNNING" /\ s \notin Accepted
         /\ num_scheduled_tokens[s] = 0
         /\ s \notin Range(hi) \cup Range(lo)
         /\ Tail(running) \in Seq(Seqs) /\ IsInjective(Tail(running))
         /\ Range(running) = {s} \cup Range(Tail(running)) /\ s \notin Range(Tail(running))
<1>1. InLoops /\ Deciding
  BY DEF InLoops, Deciding
<1>2. /\ s \in Seqs /\ Tail(running) \in Seq(Seqs) /\ IsInjective(Tail(running))
      /\ Range(running) = {s} \cup Range(Tail(running)) /\ s \notin Range(Tail(running))
  BY Popped DEF SLOInv, QueuesApart
<1>3. status[s] = "RUNNING" /\ s \notin Range(hi) \cup Range(lo)
  BY <1>1, <1>2 DEF SLOInv, QueuesApart, ListsApart
<1>4. s \notin Accepted
  BY <1>3 DEF Accepted
<1> QED BY <1>1, <1>2, <1>3, <1>4, NothingScheduled

(* A preemption in the second loop moves its victim to waiting; the others *)
(* keep their places.                                                      *)
LEMMA SettlePreempts ==
  ASSUME SLOInv, pc = "settle", NEW s \in Seqs, status[s] = "RUNNING", preempt(s),
         UNCHANGED <<token_ids, hash, hash_to_block_id, request,
                     num_scheduled_tokens, scheduled_seqs, num_batched_tokens,
                     batch_is_prefill, processed>>,
         running' \in Seq(Seqs), IsInjective(running'),
         Range(running') \subseteq Range(running) \ {s}
  PROVE  /\ Sound' /\ AllocatorStep /\ QueuesApart'
         /\ \A r \in Seqs : status'[r] = IF r = s THEN "WAITING" ELSE status[r]
         /\ \A r \in Seqs : r # s => /\ is_prefill'[r] = is_prefill[r]
                                     /\ block_table'[r] = block_table[r]
         /\ block_table'[s] = <<>>
<1>1. s \notin Range(waiting) /\ waiting \in Seq(Seqs) /\ IsInjective(waiting)
  BY DEF SLOInv, QueuesApart
<1>2. /\ Sound' /\ AllocatorStep
      /\ \A r \in Seqs : status'[r] = IF r = s THEN "WAITING" ELSE status[r]
      /\ \A r \in Seqs : r # s => /\ is_prefill'[r] = is_prefill[r]
                                  /\ block_table'[r] = block_table[r]
      /\ block_table'[s] = <<>>
      /\ waiting' \in Seq(Seqs) /\ IsInjective(waiting')
      /\ Range(waiting') = Range(waiting) \cup {s}
  BY <1>1, PreemptSound DEF SLOInv
<1>3. QueuesApart'
  <2>1. /\ Range(waiting) \cap Range(running) = {}
        /\ \A r \in Seqs : r \in Range(waiting) <=> status[r] = "WAITING"
        /\ \A r \in Range(running) : r \in Seqs /\ status[r] = "RUNNING"
    BY RangeInSeqs DEF SLOInv, QueuesApart
  <2>2. /\ Range(waiting') \cap Range(running') = {}
        /\ \A r \in Range(running') : status'[r] = "RUNNING"
    BY <1>2, <2>1
  <2>3. \A r \in Seqs : r \in Range(waiting') <=> status'[r] = "WAITING"
    BY <1>2, <2>1
  <2> QED BY <1>2, <2>2, <2>3 DEF QueuesApart
<1> QED BY <1>2, <1>3

(* The last accepted sequence that is not urgent loses its place to one    *)
(* that could not append, and its blocks.                                  *)
LEMMA PreemptLowKeeps ==
  ASSUME SLOInv, PreemptLow
  PROVE  SLOInv' /\ AllocatorStep
<1>1. PICK s, v : s = Head(running) /\ v = lo[Len(lo)]
  OBVIOUS
<1>2. /\ pc = "settle" /\ pc' = "take" /\ running # <<>> /\ lo # <<>> /\ preempt(v)
      /\ cur' = s /\ running' = Tail(running)
      /\ lo' = Append(SubSeq(lo, 1, Len(lo) - 1), s)
      /\ UNCHANGED <<token_ids, hash, hash_to_block_id, request,
                     num_scheduled_tokens, scheduled_seqs, num_batched_tokens,
                     batch_is_prefill, processed, to_scan, hi>>
  BY <1>1 DEF PreemptLow, VictimOf
<1>3. InLoops /\ Deciding /\ InLoops' /\ Deciding'
  BY <1>2 DEF InLoops, Deciding
<1>4. /\ s \in Seqs /\ status[s] = "RUNNING" /\ s \notin Accepted
      /\ num_scheduled_tokens[s] = 0 /\ s \notin Range(hi) \cup Range(lo)
      /\ running' \in Seq(Seqs) /\ IsInjective(running')
      /\ Range(running) = {s} \cup Range(running') /\ s \notin Range(running')
  BY <1>1, <1>2, PoppedDeferred
<1>5. PICK kept : kept = SubSeq(lo, 1, Len(lo) - 1)
  OBVIOUS
<1>6. /\ v \in Seqs /\ kept \in Seq(Seqs) /\ IsInjective(kept)
      /\ Range(lo) = {v} \cup Range(kept) /\ v \notin Range(kept)
  BY <1>1, <1>2, <1>5, Shortened DEF SLOInv, ListsApart, Last, Front
<1>7. /\ lo' \in Seq(Seqs) /\ IsInjective(lo') /\ Range(lo') = Range(kept) \cup {s}
  <2>1. s \notin Range(kept)
    BY <1>4, <1>6
  <2>2. /\ Append(kept, s) \in Seq(Seqs) /\ IsInjective(Append(kept, s))
        /\ Range(Append(kept, s)) = Range(kept) \cup {s}
    BY <1>4, <1>6, <2>1, Appended
  <2>3. lo' = Append(kept, s)
    BY <1>2, <1>5
  <2> QED BY <2>2, <2>3
<1>8. cur = NoSeq /\ Accepted = Range(hi) \cup Range(lo) /\ Accepted \subseteq Seqs
  BY <1>2, NobodyInHand
<1>9. /\ status[v] = "RUNNING" /\ v \in Accepted /\ num_scheduled_tokens[v] = 1
      /\ v # s /\ v \notin Range(running) /\ v \notin Range(hi)
      /\ Range(hi) \cap Range(lo) = {}
  BY <1>3, <1>4, <1>6, <1>8 DEF SLOInv, ListsApart, AcceptedHold
<1>10. /\ Sound' /\ AllocatorStep /\ QueuesApart'
       /\ \A r \in Seqs : status'[r] = IF r = v THEN "WAITING" ELSE status[r]
       /\ \A r \in Seqs : r # v => /\ is_prefill'[r] = is_prefill[r]
                                   /\ block_table'[r] = block_table[r]
       /\ block_table'[v] = <<>>
  <2>1. Range(running') \subseteq Range(running) \ {v}
    BY <1>4, <1>9
  <2> QED BY <1>2, <1>4, <1>6, <1>9, <2>1, SettlePreempts
<1>11. can_append(s)'
  <2>1. /\ token_ids[v] # <<>> /\ num_cached_tokens[v] + 1 = Len(token_ids[v])
        /\ Len(block_table[v]) = num_blocks(v)
    BY <1>6, <1>9 DEF SLOInv, Sound, TablesFit, TableFits
  <2>2. BMInv /\ BMInv' /\ deallocate(v)
    BY <1>2, <1>10 DEF SLOInv, Sound, preempt
  <2>3. Len(free_block_ids') > 0
    BY <1>6, <2>1, <2>2, FreesABlock
  <2>4. Len(free_block_ids') \in Nat
    BY <2>2 DEF BMInv, BMTypeOK
  <2> QED BY <2>3, <2>4 DEF can_append
<1>12. ListsApart'
  <2>1. to_scan' = <<>> /\ Range(to_scan') = {}
    BY <1>2, EmptyBatch DEF SLOInv, ListsApart
  <2>2. /\ Range(running) \cap (Range(hi) \cup Range(lo)) = {}
        /\ \A r \in Range(hi) \cup Range(lo) : r \in Seqs /\ status[r] = "RUNNING"
    BY <1>3, <1>8 DEF SLOInv, ListsApart
  <2>3. Range(hi) \cap Range(lo') = {}
    BY <1>4, <1>6, <1>7, <1>9
  <2>4. Range(running') \cap (Range(hi) \cup Range(lo')) = {}
    BY <1>4, <1>6, <1>7, <2>2
  <2>5. \A r \in Range(hi) \cup Range(lo') : status'[r] = "RUNNING"
    BY <1>4, <1>6, <1>7, <1>9, <1>10, <2>2
  <2> QED BY <1>2, <1>3, <1>7, <2>1, <2>3, <2>4, <2>5, EmptyBatch DEF SLOInv, ListsApart
<1>13. InHandApart'
  <2>1. cur' # NoSeq /\ cur' \in Range(lo') /\ num_scheduled_tokens'[cur'] = 0
    BY <1>2, <1>4, <1>7, NoSeqIsNone
  <2>2. can_append(cur)'
    BY <1>2, <1>11 DEF can_append
  <2> QED BY <1>2, <2>1, <2>2 DEF InHandApart
<1>14. Accepted' = Accepted \ {v}
  <2>1. Accepted' = (Range(hi) \cup Range(lo')) \ {s}
    BY <1>2 DEF Accepted
  <2> QED BY <1>4, <1>6, <1>7, <1>8, <1>9, <2>1
<1>15. AcceptedHold'
  BY <1>2, <1>3, <1>6, <1>8, <1>10, <1>14 DEF SLOInv, AcceptedHold
<1> QED BY <1>2, <1>3, <1>10, <1>12, <1>13, <1>15 DEF SLOInv

(* The sequence that replaced it takes a block.                            *)
LEMMA TakeFreedKeeps ==
  ASSUME SLOInv, TakeFreed
  PROVE  SLOInv' /\ AllocatorStep
<1>1. PICK s : s = cur
  OBVIOUS
<1>2. /\ pc = "take" /\ pc' = "settle" /\ may_append(s) /\ cur' = NoSeq
      /\ num_scheduled_tokens' = [num_scheduled_tokens EXCEPT ![s] = 1]
      /\ is_prefill' = [is_prefill EXCEPT ![s] = FALSE]
      /\ UNCHANGED <<token_ids, num_cached_tokens, request, status, waiting, running,
                     scheduled_seqs, num_batched_tokens, batch_is_prefill, processed,
                     to_scan, hi, lo>>
  BY <1>1 DEF TakeFreed, queueVars, loopVars
<1>3. InLoops /\ Deciding /\ InLoops' /\ Deciding'
  BY <1>2 DEF InLoops, Deciding
<1>4. /\ s \in Seqs /\ status[s] = "RUNNING" /\ s \in Range(lo)
      /\ num_scheduled_tokens[s] = 0 /\ can_append(s)
  BY <1>1, <1>2, <1>3, RangeInSeqs DEF SLOInv, InHandApart, ListsApart
<1>5. /\ Sound' /\ AllocatorStep
      /\ block_table'[s] # <<>>
      /\ \A r \in Seqs : r # s => /\ is_prefill'[r] = is_prefill[r]
                                  /\ block_table'[r] = block_table[r]
      /\ \A r \in Seqs : num_scheduled_tokens'[r] =
                           IF r = s THEN 1 ELSE num_scheduled_tokens[r]
  <2>1. scheduled_seqs' \in Seq(Seqs) /\ processed' \in 0 .. Len(scheduled_seqs')
    BY <1>2 DEF SLOInv, Sound, Fields
  <2> QED BY <1>2, <1>4, <2>1, AppendSound DEF SLOInv
<1>6. QueuesApart' /\ InHandApart' /\ ListsApart'
  BY <1>2, <1>3 DEF SLOInv, QueuesApart, InHandApart, ListsApart
<1>7. /\ Accepted = (Range(hi) \cup Range(lo)) \ {s}
      /\ Accepted' = Accepted \cup {s} /\ Accepted \subseteq Seqs
  <2>1. Range(hi) \cup Range(lo) \subseteq Seqs
    BY RangeInSeqs DEF SLOInv, ListsApart
  <2> QED BY <1>1, <1>2, <1>4, <2>1, NoSeqIsNone DEF Accepted
<1>8. is_prefill'[s] = FALSE
  BY <1>2, <1>4 DEF SLOInv, Sound, Fields
<1>9. AcceptedHold'
  BY <1>2, <1>3, <1>4, <1>5, <1>7, <1>8 DEF SLOInv, AcceptedHold
<1> QED BY <1>2, <1>3, <1>5, <1>6, <1>9 DEF SLOInv

(* Nobody is left to make room: the deferred sequence itself goes back.    *)
LEMMA PreemptDeferredKeeps ==
  ASSUME SLOInv, PreemptDeferred
  PROVE  SLOInv' /\ AllocatorStep
<1>1. PICK s : s = Head(running)
  OBVIOUS
<1>2. /\ pc = "settle" /\ pc' = "settle" /\ running # <<>> /\ preempt(s)
      /\ running' = Tail(running)
      /\ UNCHANGED <<token_ids, hash, hash_to_block_id, request,
                     num_scheduled_tokens, scheduled_seqs, num_batched_tokens,
                     batch_is_prefill, processed, cur, to_scan, hi, lo>>
  BY <1>1 DEF PreemptDeferred, stepVars, loopVars
<1>3. InLoops /\ Deciding /\ InLoops' /\ Deciding'
  BY <1>2 DEF InLoops, Deciding
<1>4. /\ s \in Seqs /\ status[s] = "RUNNING" /\ s \notin Accepted
      /\ num_scheduled_tokens[s] = 0 /\ s \notin Range(hi) \cup Range(lo)
      /\ running' \in Seq(Seqs) /\ IsInjective(running')
      /\ Range(running) = {s} \cup Range(running') /\ s \notin Range(running')
  BY <1>1, <1>2, PoppedDeferred
<1>5. cur = NoSeq /\ Accepted = Range(hi) \cup Range(lo) /\ Accepted \subseteq Seqs
  BY <1>2, NobodyInHand
<1>6. /\ Sound' /\ AllocatorStep /\ QueuesApart'
      /\ \A r \in Seqs : status'[r] = IF r = s THEN "WAITING" ELSE status[r]
      /\ \A r \in Seqs : r # s => /\ is_prefill'[r] = is_prefill[r]
                                  /\ block_table'[r] = block_table[r]
      /\ block_table'[s] = <<>>
  <2>1. Range(running') \subseteq Range(running) \ {s}
    BY <1>4
  <2> QED BY <1>2, <1>4, <2>1, SettlePreempts
<1>7. ListsApart' /\ InHandApart'
  <2>1. to_scan' = <<>> /\ Range(to_scan') = {}
    BY <1>2, EmptyBatch DEF SLOInv, ListsApart
  <2>2. /\ Range(running) \cap (Range(hi) \cup Range(lo)) = {}
        /\ \A r \in Range(hi) \cup Range(lo) : r \in Seqs /\ status[r] = "RUNNING"
    BY <1>3, <1>5 DEF SLOInv, ListsApart
  <2>3. \A r \in Range(hi) \cup Range(lo) : status'[r] = "RUNNING"
    BY <1>4, <1>6, <2>2
  <2>4. Range(running') \cap (Range(hi) \cup Range(lo)) = {}
    BY <1>4, <2>2
  <2>5. ListsApart'
    BY <1>2, <1>3, <2>1, <2>3, <2>4, EmptyBatch DEF SLOInv, ListsApart
  <2> QED BY <1>2, <1>5, <2>5 DEF SLOInv, InHandApart
<1>8. Accepted' = Accepted
  BY <1>2 DEF Accepted
<1>9. AcceptedHold'
  BY <1>2, <1>3, <1>4, <1>5, <1>6, <1>8 DEF SLOInv, AcceptedHold
<1> QED BY <1>2, <1>3, <1>6, <1>7, <1>9 DEF SLOInv

-----------------------------------------------------------------------------
(* The two halves of the batch joined: each member once, and no other.     *)
LEMMA HalvesJoined ==
  ASSUME SLOInv, pc # "take"
  PROVE  /\ hi \o lo \in Seq(Seqs) /\ IsInjective(hi \o lo)
         /\ Range(hi \o lo) = Accepted
<1>1. Accepted = Range(hi) \cup Range(lo)
  BY NobodyInHand
<1> QED BY <1>1, JoinInjective DEF SLOInv, ListsApart

(* schedule() returns the two halves as its batch.                         *)
LEMMA ReturnsBatch ==
  ASSUME SLOInv, pc \in {"settle", "prefill"}, pc' \in {"run", "raised"},
         scheduled_seqs' = hi \o lo, hi' = <<>>, lo' = <<>>,
         batch_is_prefill' = (pc = "prefill"), pc = "settle" => pc' = "run",
         UNCHANGED <<bmVars, seqVars, waiting, num_batched_tokens, cur, processed, to_scan>>,
         running' = IF pc = "settle" THEN hi \o lo ELSE running
  PROVE  SLOInv' /\ AllocatorStep
<1> USE DEF bmVars, seqVars
<1>1. InLoops /\ (Deciding <=> pc = "settle")
  BY DEF InLoops, Deciding
<1>2. PICK batch : batch = hi \o lo
  OBVIOUS
<1>3. batch \in Seq(Seqs) /\ IsInjective(batch) /\ Range(batch) = Accepted
  BY <1>2, HalvesJoined
<1>4. cur = NoSeq /\ Accepted = Range(hi) \cup Range(lo) /\ Accepted \subseteq Seqs
  BY NobodyInHand
<1>5. processed' = 0 /\ scheduled_seqs' = batch
  BY <1>1, <1>2 DEF SLOInv, AcceptedHold
<1>6. Batch' = Accepted /\ Pending' = Accepted
  BY <1>3, <1>5, AllOf DEF Batch, Pending
<1>7. Sound' /\ AllocatorStep
  <2>1. processed' \in 0 .. Len(scheduled_seqs')
    BY <1>3, <1>5, LenProperties
  <2>2. Fields'
    BY <1>3, <1>5, <2>1 DEF SLOInv, Sound, Fields
  <2> QED BY <2>2, SameSound DEF SLOInv
<1>8. Taken' = {} /\ InHand' = {} /\ ~ InDecodeLoop' /\ (Decoding' <=> pc = "settle")
  BY DEF Taken, InHand, InDecodeLoop, Decoding
<1>9. Placed'
  <2>1. CASE pc = "settle"
    <3>1. \A s \in Accepted : status[s] = "RUNNING"
      BY <1>1, <1>4, <2>1 DEF SLOInv, ListsApart
    <3>2. \A s \in Range(waiting) : s \in Seqs /\ status[s] = "WAITING"
      BY RangeInSeqs DEF SLOInv, QueuesApart
    <3> QED BY <1>2, <1>3, <1>4, <1>8, <2>1, <3>1, <3>2 DEF SLOInv, QueuesApart, Placed
  <2>2. CASE pc = "prefill"
    BY <1>4, <1>8, <2>2 DEF SLOInv, QueuesApart, Placed
  <2> QED BY <2>1, <2>2
<1>10. BatchPlanned'
  <2>1. \A s \in Accepted : num_scheduled_tokens'[s] > 0
    BY <1>1 DEF SLOInv, AcceptedHold
  <2>2. pc = "settle" => \A s \in Accepted : num_scheduled_tokens'[s] = 1 /\ status'[s] = "RUNNING"
    BY <1>1, <1>4 DEF SLOInv, AcceptedHold, ListsApart
  <2>3. pc = "prefill" => \A s \in Accepted : is_prefill'[s] /\ status'[s] # "NEW"
    BY <1>1 DEF SLOInv, AcceptedHold
  <2> QED BY <1>3, <1>5, <1>6, <1>8, <2>1, <2>2, <2>3 DEF BatchPlanned
<1>11. ScheduledHold'
  BY <1>1, <1>6 DEF SLOInv, AcceptedHold, ScheduledHold
<1>12. to_scan' = <<>>
  BY DEF SLOInv, ListsApart
<1> QED BY <1>3, <1>5, <1>7, <1>9, <1>10, <1>11, <1>12, BackFromCore DEF CoreInv

(* The end of the second loop, and of the decision to decode.              *)
LEMMA EndSettleKeeps ==
  ASSUME SLOInv, EndSettle
  PROVE  SLOInv' /\ AllocatorStep
<1>1. /\ pc = "settle" /\ running = <<>> /\ hi' = <<>> /\ lo' = <<>>
      /\ batch_is_prefill' = FALSE
      /\ UNCHANGED <<bmVars, seqVars, waiting, num_batched_tokens, cur, processed, to_scan>>
  BY DEF EndSettle
<1>2. CASE hi \o lo # <<>>
  <2>1. pc' = "run" /\ scheduled_seqs' = hi \o lo /\ running' = hi \o lo
    BY <1>2 DEF EndSettle
  <2>2. batch_is_prefill' = (pc = "prefill")
    BY <1>1
  <2> QED BY <1>1, <2>1, <2>2, ReturnsBatch
<1>3. CASE hi \o lo = <<>>
  <2>1. pc' = "prefill" /\ scheduled_seqs' = scheduled_seqs /\ running' = running
    BY <1>3 DEF EndSettle
  <2>2. InLoops /\ InLoops' /\ ~ Deciding'
    BY <1>1, <2>1 DEF InLoops, Deciding
  <2>3. Accepted = {} /\ Accepted' = {}
    <3>1. Range(hi \o lo) = {}
      BY <1>3, EmptyBatch
    <3> QED BY <1>1, <3>1, HalvesJoined, EmptyBatch DEF Accepted
  <2>4. Sound' /\ AllocatorStep
    <3>1. Fields'
      BY <1>1, <2>1 DEF SLOInv, Sound, Fields, seqVars
    <3> QED BY <1>1, <3>1, SameSound DEF SLOInv
  <2>5. QueuesApart' /\ InHandApart'
    BY <1>1, <2>1 DEF SLOInv, QueuesApart, InHandApart, seqVars
  <2>6. ListsApart'
    BY <1>1, <2>2, EmptyBatch DEF SLOInv, ListsApart
  <2>7. AcceptedHold'
    BY <1>1, <2>1, <2>2, <2>3 DEF SLOInv, AcceptedHold, bmVars, seqVars
  <2> QED BY <2>1, <2>2, <2>4, <2>5, <2>6, <2>7 DEF SLOInv
<1> QED BY <1>2, <1>3

(* During the prefill loop the deques are as the other policies have them. *)
LEMMA PlacedInPrefill ==
  ASSUME SLOInv, pc = "prefill"
  PROVE  Placed
<1>1. cur = NoSeq
  BY DEF SLOInv, InHandApart
<1> QED BY <1>1 DEF SLOInv, QueuesApart, Placed, Taken, InHand, InDecodeLoop

(* What a visit of the prefill loop gives the head of waiting.             *)
LEMMA ChunkOfHead ==
  ASSUME SLOInv, pc = "prefill", CanVisitHead,
         NEW s, s = Head(waiting), NEW n, n = Smaller(num_tokens(s), remaining)
  PROVE  /\ s \in Seqs /\ status[s] = "WAITING" /\ HasBlocks(s) /\ s \notin Accepted
         /\ n \in Nat /\ 0 < n /\ n <= num_tokens(s) /\ n <= remaining
         /\ n # num_tokens(s) => n = remaining
<1>1. waiting # <<>> /\ remaining > 0 /\ HasBlocks(s)
  BY DEF CanVisitHead
<1>2. s \in Seqs /\ status[s] = "WAITING"
  BY <1>1, PlacedInPrefill, HeadWaits
<1>3. num_tokens(s) \in Nat \ {0} /\ remaining \in Nat
  BY <1>2, TokensLeft, BudgetLeft DEF SLOInv
<1>4. s \notin Accepted
  BY <1>1, <1>2 DEF SLOInv, AcceptedHold, InLoops
<1> QED BY <1>1, <1>2, <1>3, <1>4 DEF Smaller

(* A visit of the prefill loop.                                            *)
LEMMA SLOPrefillHeadKeeps ==
  ASSUME SLOInv, SLOPrefillHead
  PROVE  SLOInv' /\ AllocatorStep
<1>1. PICK s, n : s = Head(waiting) /\ n = Smaller(num_tokens(s), remaining)
  OBVIOUS
<1>2. /\ pc = "prefill" /\ pc' = "prefill" /\ CanVisitHead /\ AllocateOnFirstVisit(s)
      /\ num_scheduled_tokens' = [num_scheduled_tokens EXCEPT ![s] = n]
      /\ is_prefill' = [is_prefill EXCEPT ![s] = TRUE]
      /\ num_batched_tokens' = num_batched_tokens + n
      /\ Sort(s)
      /\ UNCHANGED <<token_ids, request, scheduled_seqs, batch_is_prefill, cur,
                     processed, to_scan>>
  BY <1>1 DEF SLOPrefillHead
<1>3. IF n = num_tokens(s)
      THEN /\ status' = [status EXCEPT ![s] = "RUNNING"]
           /\ waiting' = Tail(waiting) /\ running' = Append(running, s)
      ELSE /\ status' = status /\ waiting' = Append(Tail(waiting), s) /\ running' = running
  BY <1>1 DEF SLOPrefillHead
<1>4. /\ s \in Seqs /\ status[s] = "WAITING" /\ HasBlocks(s) /\ s \notin Accepted
      /\ n \in Nat /\ 0 < n /\ n <= num_tokens(s) /\ n <= remaining
      /\ n # num_tokens(s) => n = remaining
  BY <1>1, <1>2, ChunkOfHead
<1>5. InLoops /\ ~ Deciding /\ InLoops' /\ ~ Deciding'
  BY <1>2 DEF InLoops, Deciding
<1>6. cur = NoSeq /\ Accepted = Range(hi) \cup Range(lo) /\ Accepted \subseteq Seqs
  BY <1>2, NobodyInHand
<1>7. is_prefill' = is_prefill /\ is_prefill[s]
  <2>1. is_prefill' = is_prefill
    BY <1>2, <1>4, MarkedAlready DEF SLOInv
  <2> QED BY <1>4, <2>1 DEF SLOInv, Sound, TablesFit, TableFits
<1>8. status' = IF n = num_tokens(s) THEN [status EXCEPT ![s] = "RUNNING"] ELSE status
  BY <1>3
<1>9. /\ Sound' /\ AllocatorStep
      /\ block_table'[s] # <<>>
      /\ \A r \in Seqs : r # s => block_table'[r] = block_table[r]
  <2>1. scheduled_seqs' \in Seq(Seqs) /\ processed' \in 0 .. Len(scheduled_seqs')
    BY <1>2 DEF SLOInv, Sound, Fields
  <2> QED BY <1>2, <1>4, <1>7, <1>8, <2>1, VisitSound DEF SLOInv
<1>10. \A r \in Seqs : /\ num_scheduled_tokens'[r] = IF r = s THEN n ELSE num_scheduled_tokens[r]
                       /\ status'[r] = IF r = s /\ n = num_tokens(s) THEN "RUNNING" ELSE status[r]
  BY <1>2, <1>4, <1>8 DEF SLOInv, Sound, Fields
<1>11. QueuesApart'
  <2>1. /\ Tail(waiting) \in Seq(Seqs) /\ IsInjective(Tail(waiting))
        /\ Range(Tail(waiting)) = Range(waiting) \ {s}
        /\ Append(Tail(waiting), s) \in Seq(Seqs)
        /\ IsInjective(Append(Tail(waiting), s))
        /\ Range(Append(Tail(waiting), s)) = Range(waiting)
    BY <1>1, <1>2, PlacedInPrefill, HeadMoves DEF CanVisitHead
  <2>2. /\ running \in Seq(Seqs) /\ IsInjective(running)
        /\ Range(waiting) \cap Range(running) = {}
        /\ \A r \in Seqs : r \in Range(waiting) <=> status[r] = "WAITING"
        /\ \A r \in Range(running) : r \in Seqs /\ status[r] = "RUNNING"
    BY RangeInSeqs DEF SLOInv, QueuesApart
  <2>3. /\ s \notin Range(running)
        /\ Append(running, s) \in Seq(Seqs) /\ IsInjective(Append(running, s))
        /\ Range(Append(running, s)) = Range(running) \cup {s}
    BY <1>4, <2>2, Appended
  <2>4. CASE n = num_tokens(s)
    <3>1. /\ waiting' = Tail(waiting) /\ running' = Append(running, s)
          /\ \A r \in Seqs : status'[r] = IF r = s THEN "RUNNING" ELSE status[r]
      BY <1>3, <1>10, <2>4
    <3> QED BY <1>4, <2>1, <2>2, <2>3, <3>1 DEF QueuesApart
  <2>5. CASE n # num_tokens(s)
    <3>1. waiting' = Append(Tail(waiting), s) /\ running' = running /\ status' = status
      BY <1>3, <2>5
    <3> QED BY <2>1, <2>2, <3>1 DEF QueuesApart
  <2> QED BY <2>4, <2>5
<1>12. /\ hi' \in Seq(Seqs) /\ IsInjective(hi')
       /\ lo' \in Seq(Seqs) /\ IsInjective(lo')
       /\ Range(hi') \cap Range(lo') = {}
       /\ Range(hi') \cup Range(lo') = Range(hi) \cup Range(lo) \cup {s}
  BY <1>2, <1>4, <1>6, JoinsOneHalf DEF SLOInv, ListsApart
<1>13. ListsApart' /\ InHandApart'
  BY <1>2, <1>5, <1>6, <1>12 DEF SLOInv, ListsApart, InHandApart
<1>14. Accepted' = Accepted \cup {s}
  BY <1>2, <1>4, <1>6, <1>12, NoSeqIsNone DEF Accepted
<1>15. n # num_tokens(s) => ~ (remaining' > 0)
  BY <1>2, <1>4, LimitsAssumption DEF remaining, SLOInv, Sound, Fields
<1>16. remaining \in Nat /\ remaining > 0
  BY <1>2, BudgetLeft DEF CanVisitHead, SLOInv
<1>17. AcceptedHold'
  <2>1. /\ scheduled_seqs' = <<>> /\ processed' = 0
        /\ \A r \in Accepted' : num_scheduled_tokens'[r] > 0
        /\ \A r \in Seqs :
             num_scheduled_tokens'[r] > 0 => (r \in Accepted' <=> block_table'[r] # <<>>)
    BY <1>2, <1>4, <1>5, <1>6, <1>9, <1>10, <1>14 DEF SLOInv, AcceptedHold
  <2>2. \A r \in Accepted : is_prefill[r] /\ status[r] # "NEW" /\ status[r] # "WAITING"
    BY <1>2, <1>5, <1>16 DEF SLOInv, AcceptedHold
  <2>3. \A r \in Accepted' : /\ is_prefill'[r] /\ status'[r] # "NEW"
                             /\ remaining' > 0 => status'[r] # "WAITING"
    BY <1>4, <1>6, <1>7, <1>10, <1>14, <1>15, <2>2
  <2> QED BY <1>5, <2>1, <2>3 DEF AcceptedHold
<1> QED BY <1>2, <1>5, <1>9, <1>11, <1>13, <1>17 DEF SLOInv

(* The end of the prefill loop, and of the step when nothing joined.       *)
LEMMA EndSLOPrefillKeeps ==
  ASSUME SLOInv, EndSLOPrefill
  PROVE  SLOInv' /\ AllocatorStep
<1>1. /\ pc = "prefill" /\ pc' \in {"run", "raised"} /\ hi' = <<>> /\ lo' = <<>>
      /\ scheduled_seqs' = hi \o lo /\ running' = running
      /\ UNCHANGED <<bmVars, seqVars, waiting, num_batched_tokens, cur, processed, to_scan>>
  BY DEF EndSLOPrefill, queueVars
<1>2. batch_is_prefill' = (pc = "prefill")
  BY <1>1 DEF EndSLOPrefill
<1> QED BY <1>1, <1>2, ReturnsBatch

-----------------------------------------------------------------------------
(* Every step of the policy keeps the invariant.                           *)
LEMMA SLONextKeeps ==
  ASSUME SLOInv, [SLONext]_sloVars
  PROVE  SLOInv' /\ AllocatorStep
<1>1. CASE \E s \in Seqs : AddRequest(s) /\ UNCHANGED <<loopVars, calibrationVars>>
  BY <1>1, OutsideKeeps
<1>2. CASE (RunModel \/ \E t \in Token : PostprocessOne(t))
             /\ UNCHANGED <<loopVars, calibrationVars>>
  BY <1>2, OutsideKeeps
<1>3. CASE EndStep /\ Track /\ UNCHANGED loopVars
  BY <1>3, OutsideKeeps
<1>4. CASE \/ StartSLOStep \/ AcceptScanned \/ DeferScanned \/ EndScan \/ DropDeferred
           \/ PreemptLow \/ TakeFreed \/ PreemptDeferred \/ EndSettle
           \/ SLOPrefillHead \/ EndSLOPrefill
  BY <1>4, StartSLOStepKeeps, AcceptScannedKeeps, DeferScannedKeeps, EndScanKeeps,
     DropDeferredKeeps, PreemptLowKeeps, TakeFreedKeeps, PreemptDeferredKeeps,
     EndSettleKeeps, SLOPrefillHeadKeeps, EndSLOPrefillKeeps
<1>5. CASE UNCHANGED sloVars
  <2> USE <1>5 DEF sloVars, vars, loopVars, bmVars, seqVars, queueVars, stepVars
  <2>1. Fields'
    BY DEF SLOInv, Sound, Fields
  <2>2. Sound' /\ AllocatorStep
    BY <2>1, SameSound DEF SLOInv
  <2>3. /\ InLoops' = InLoops /\ Deciding' = Deciding /\ Accepted' = Accepted
        /\ remaining' = remaining
    BY DEF InLoops, Deciding, Accepted, remaining
  <2>4. QueuesApart' /\ ListsApart' /\ InHandApart'
    BY <2>3 DEF SLOInv, QueuesApart, ListsApart, InHandApart, can_append
  <2>5. AcceptedHold'
    BY <2>3 DEF SLOInv, AcceptedHold
  <2>6. Taken' = Taken /\ InHand' = InHand /\ Pending' = Pending /\ Batch' = Batch
        /\ Decoding' = Decoding
    BY DEF Taken, InHand, Pending, Batch, InDecodeLoop, Decoding
  <2>7. ~ InLoops' => BatchPlanned' /\ ScheduledHold'
    BY <2>3, <2>6 DEF SLOInv, BatchPlanned, ScheduledHold
  <2> QED BY <2>2, <2>4, <2>5, <2>7 DEF SLOInv
<1> QED BY <1>1, <1>2, <1>3, <1>4, <1>5 DEF SLONext, SLOStep

(* The inductive invariant holds, and every step uses the allocator as it  *)
(* may be used.                                                            *)
THEOREM SLOCorrect == SLOSpec => []SLOInv /\ [][AllocatorStep]_sloVars
<1>1. SLOInit => SLOInv
  BY SLOStarts
<1>2. SLOInv /\ [SLONext]_sloVars => SLOInv' /\ AllocatorStep
  BY SLONextKeeps
<1> QED BY <1>1, <1>2, PTL DEF SLOSpec

(* The SLO-aware scheduler is a legal caller of the allocator, although a  *)
(* block is taken for a sequence after its victim gave it back, unasked.   *)
THEOREM SLOUsesAllocator == SLOSpec => UsesBlockManager
<1>1. SLOInit => BMInit
  BY DEF SLOInit, CoreInit
<1>2. [AllocatorStep]_sloVars => [BMNext]_bmVars
  BY DEF AllocatorStep, sloVars, vars
<1> QED BY <1>1, <1>2, SLOCorrect, PTL DEF SLOSpec, UsesBlockManager, BMSpec

(* A sequence is in one of the deques and lists at most.                   *)
LEMMA InOnePlace == SLOInv => HeldOnce
<1> SUFFICES ASSUME SLOInv PROVE HeldOnce
  OBVIOUS
<1>1. /\ waiting \in Seq(Seqs) /\ IsInjective(waiting)
      /\ running \in Seq(Seqs) /\ IsInjective(running)
      /\ Range(waiting) \cap Range(running) = {}
      /\ \A s \in Seqs : s \in Range(waiting) <=> status[s] = "WAITING"
      /\ \A s \in Range(running) : status[s] = "RUNNING"
  BY DEF SLOInv, QueuesApart
<1>2. Range(waiting) \subseteq Seqs
  BY <1>1, RangeInSeqs
<1>3. PICK listed : listed = IF Deciding THEN hi \o lo \o to_scan ELSE <<>>
  OBVIOUS
<1>4. /\ listed \in Seq(Seqs) /\ IsInjective(listed)
      /\ Range(listed) \cap Range(running) = {}
      /\ \A s \in Range(listed) : status[s] = "RUNNING"
  <2>1. CASE Deciding
    <3>1. /\ hi \in Seq(Seqs) /\ IsInjective(hi) /\ lo \in Seq(Seqs) /\ IsInjective(lo)
          /\ to_scan \in Seq(Seqs) /\ IsInjective(to_scan)
          /\ Range(hi) \cap Range(lo) = {}
          /\ Range(to_scan) \cap (Range(hi) \cup Range(lo)) = {}
          /\ Range(running) \cap (Range(to_scan) \cup Range(hi) \cup Range(lo)) = {}
          /\ \A s \in Range(to_scan) \cup Range(hi) \cup Range(lo) : status[s] = "RUNNING"
      BY <2>1 DEF SLOInv, ListsApart
    <3>2. PICK batch : batch = hi \o lo
      OBVIOUS
    <3>3. /\ batch \in Seq(Seqs) /\ IsInjective(batch)
          /\ Range(batch) = Range(hi) \cup Range(lo)
      BY <3>1, <3>2, JoinInjective
    <3>4. /\ batch \o to_scan \in Seq(Seqs) /\ IsInjective(batch \o to_scan)
          /\ Range(batch \o to_scan) = Range(batch) \cup Range(to_scan)
      <4>1. Range(batch) \cap Range(to_scan) = {}
        BY <3>1, <3>3
      <4> QED BY <3>1, <3>3, <4>1, JoinInjective
    <3>5. listed = batch \o to_scan
      BY <1>3, <2>1, <3>2
    <3> QED BY <3>1, <3>3, <3>4, <3>5
  <2>2. CASE ~ Deciding
    BY <1>3, <2>2, EmptyBatch
  <2> QED BY <2>1, <2>2
<1>5. PICK run : run = listed \o running
  OBVIOUS
<1>6. Places = run \o waiting
  BY <1>3, <1>5 DEF Places, Deciding
<1>7. run \in Seq(Seqs) /\ IsInjective(run) /\ Range(run) = Range(listed) \cup Range(running)
  BY <1>1, <1>4, <1>5, JoinInjective
<1>8. \A s \in Range(run) : status[s] = "RUNNING"
  BY <1>1, <1>4, <1>7
<1>9. /\ IsInjective(run \o waiting)
      /\ Range(run \o waiting) = Range(run) \cup Range(waiting)
  <2>1. Range(run) \cap Range(waiting) = {}
    BY <1>1, <1>2, <1>8
  <2> QED BY <1>1, <1>7, <2>1, JoinInjective
<1> QED BY <1>1, <1>2, <1>6, <1>8, <1>9 DEF HeldOnce

(* However the loops of schedule() move sequences between the deques and   *)
(* their lists, none is in two places, and who waits is in waiting.        *)
THEOREM SLOHeldOnce == SLOSpec => []HeldOnce
BY SLOCorrect, InOnePlace, PTL

(* What a batch that is about to be run computes fits its tables.          *)
LEMMA BatchInTables == SLOInv => BatchFitsTables
<1> SUFFICES ASSUME SLOInv, pc = "run" PROVE BatchFitsTables
  BY DEF BatchFitsTables
<1>1. CoreInv
  BY OutOfLoops
<1>2. num_batched_tokens <= MaxBatchedTokens
  BY LimitsAssumption DEF SLOInv, Sound, Fields
<1>3. \A s \in Batch :
        /\ Len(block_table[s]) = num_blocks(s)
        /\ num_cached_tokens[s] + num_scheduled_tokens[s] <= Len(token_ids[s])
        /\ ~ batch_is_prefill =>
             num_cached_tokens[s] + num_scheduled_tokens[s] = Len(token_ids[s])
  BY <1>1, BatchFits
<1> QED BY <1>2, <1>3 DEF SLOInv, BatchFitsTables

(* A decode of the SLO-aware policy, also of a sequence that took the      *)
(* blocks of another, has room in its table, and a prefill ends inside the *)
(* prompt; no sequence is in a batch twice.                                *)
THEOREM SLOBatchFits == SLOSpec => []BatchFitsTables
BY SLOCorrect, BatchInTables, PTL

-----------------------------------------------------------------------------
(* The KV cache under this policy.                                         *)
LEMMA SLONextCache ==
  ASSUME SLOInv, BMInv', CacheInv, [SLONext]_sloVars
  PROVE  CacheInv'
<1>0. Sound /\ BMInv
  BY DEF SLOInv, Sound
<1>1. CASE \E s \in Seqs : AddRequest(s) /\ UNCHANGED <<loopVars, calibrationVars>>
  BY <1>0, <1>1, AddRequestCache
<1>2. CASE RunModel \/ (\E t \in Token : PostprocessOne(t)) \/ EndStep
  <2>1. CoreInv
    BY <1>2, OutOfLoops DEF RunModel, PostprocessOne, EndStep
  <2> QED BY <1>2, <2>1, CoreStepCache DEF RunAndPostprocess
<1>3. CASE StartSLOStep \/ DeferScanned \/ EndScan \/ DropDeferred \/ EndSettle \/ EndSLOPrefill
  <2>1. UNCHANGED bmVars /\ kv' = kv /\ pc # "post" /\ pc' # "post"
    BY <1>3 DEF StartSLOStep, DeferScanned, EndScan, DropDeferred, EndSettle,
                EndSLOPrefill, stepVars
  <2> QED BY <1>0, <2>1, BetweenPassesIdle
<1>4. CASE AcceptScanned
  <2>1. /\ pc = "scan" /\ pc' = "scan" /\ to_scan # <<>> /\ may_append(Head(to_scan))
        /\ UNCHANGED <<token_ids, num_cached_tokens, kv>>
    BY <1>4 DEF AcceptScanned, stepVars
  <2>2. Head(to_scan) \in Seqs
    BY <2>1, Popped DEF SLOInv, ListsApart
  <2> QED BY <1>0, <2>1, <2>2, AppendCache
<1>5. CASE TakeFreed
  <2>1. /\ pc = "take" /\ pc' = "settle" /\ may_append(cur)
        /\ UNCHANGED <<token_ids, num_cached_tokens, kv>>
    BY <1>5 DEF TakeFreed
  <2>2. cur \in Seqs
    BY <2>1, RangeInSeqs DEF SLOInv, ListsApart, InHandApart
  <2> QED BY <1>0, <2>1, <2>2, AppendCache
<1>6. CASE PreemptLow
  <2>1. /\ pc = "settle" /\ pc' = "take" /\ lo # <<>> /\ deallocate(lo[Len(lo)])
        /\ UNCHANGED <<token_ids, hash, kv>>
    BY <1>6 DEF PreemptLow, VictimOf, preempt
  <2>2. lo[Len(lo)] \in Seqs
    BY <2>1, Shortened DEF SLOInv, ListsApart, Last
  <2> QED BY <1>0, <2>1, <2>2, PreemptCache
<1>7. CASE PreemptDeferred
  <2>1. /\ pc = "settle" /\ pc' = "settle" /\ running # <<>> /\ deallocate(Head(running))
        /\ UNCHANGED <<token_ids, hash, kv>>
    BY <1>7 DEF PreemptDeferred, preempt, stepVars
  <2>2. Head(running) \in Seqs
    BY <2>1, Popped DEF SLOInv, QueuesApart
  <2> QED BY <1>0, <2>1, <2>2, PreemptCache
<1>8. CASE SLOPrefillHead
  <2>1. /\ pc = "prefill" /\ pc' = "prefill" /\ CanVisitHead
        /\ AllocateOnFirstVisit(Head(waiting)) /\ UNCHANGED <<token_ids, kv>>
    BY <1>8 DEF SLOPrefillHead
  <2>2. Head(waiting) \in Seqs /\ status[Head(waiting)] = "WAITING" /\ HasBlocks(Head(waiting))
    BY <2>1, ChunkOfHead
  <2> QED BY <1>0, <2>1, <2>2, VisitCache
<1>9. CASE UNCHANGED sloVars
  BY <1>9, StutterCache DEF sloVars
<1> QED BY <1>1, <1>2, <1>3, <1>4, <1>5, <1>6, <1>7, <1>8, <1>9 DEF SLONext, SLOStep

(* The inductive invariant of the cache.                                   *)
THEOREM SLOCacheCorrect == SLOSpec => []CacheInv
<1>1. SLOInit => CacheInv
  BY CacheInit DEF SLOInit
<1>2. SLOInv /\ SLOInv' /\ CacheInv /\ [SLONext]_sloVars => CacheInv'
  BY SLONextCache DEF SLOInv, Sound
<1> QED BY <1>1, <1>2, SLOCorrect, PTL DEF SLOSpec

(* Under the SLO-aware policy, too, attention reads a sequence's own       *)
(* tokens, even of one that schedule() lost.                               *)
THEOREM SLOCacheIsolated == SLOSpec => []KVMatchesPrefix
BY SLOCacheCorrect, CacheMatches, PTL

-----------------------------------------------------------------------------
(* The service under this policy.  The steps of schedule() are not seen by *)
(* the clients.                                                            *)
LEMMA SLOScheduleUnseen ==
  ASSUME SLOInv,
         \/ StartSLOStep \/ AcceptScanned \/ DeferScanned \/ EndScan \/ DropDeferred
         \/ PreemptLow \/ TakeFreed \/ PreemptDeferred \/ EndSettle
         \/ SLOPrefillHead \/ EndSLOPrefill
  PROVE  Unseen
<1>1. CASE \/ StartSLOStep \/ AcceptScanned \/ DeferScanned \/ EndScan \/ DropDeferred
           \/ TakeFreed \/ EndSettle \/ EndSLOPrefill
  BY <1>1 DEF StartSLOStep, AcceptScanned, DeferScanned, EndScan, DropDeferred, TakeFreed,
              EndSettle, EndSLOPrefill, bmVars, seqVars, Unseen
<1>2. CASE PreemptLow
  <2>1. PICK v : v = lo[Len(lo)]
    OBVIOUS
  <2>2. /\ pc = "settle" /\ lo # <<>> /\ status' = [status EXCEPT ![v] = "WAITING"]
        /\ UNCHANGED <<token_ids, request>>
    BY <1>2, <2>1 DEF PreemptLow, VictimOf, preempt
  <2>3. v \in Seqs /\ v \in Range(lo)
    BY <2>1, <2>2, Shortened DEF SLOInv, ListsApart, Last
  <2>4. status[v] = "RUNNING"
    BY <2>2, <2>3 DEF SLOInv, ListsApart, Deciding
  <2> QED BY <2>2, <2>3, <2>4, StatusMoves DEF SLOInv, Sound
<1>3. CASE PreemptDeferred
  <2>1. PICK s : s = Head(running)
    OBVIOUS
  <2>2. /\ pc = "settle" /\ running # <<>> /\ status' = [status EXCEPT ![s] = "WAITING"]
        /\ UNCHANGED <<token_ids, request>>
    BY <1>3, <2>1 DEF PreemptDeferred, preempt
  <2>3. s \in Seqs /\ status[s] = "RUNNING"
    BY <2>1, <2>2, PoppedDeferred
  <2> QED BY <2>2, <2>3, StatusMoves DEF SLOInv, Sound
<1>4. CASE SLOPrefillHead
  <2>1. PICK s : s = Head(waiting)
    OBVIOUS
  <2>2. /\ pc = "prefill" /\ CanVisitHead /\ UNCHANGED <<token_ids, request>>
        /\ status' = [status EXCEPT ![s] = "RUNNING"] \/ status' = status
    BY <1>4, <2>1 DEF SLOPrefillHead
  <2>3. s \in Seqs /\ status[s] = "WAITING"
    BY <2>1, <2>2, ChunkOfHead
  <2>4. CASE status' = status
    BY <2>2, <2>4 DEF Unseen
  <2> QED BY <2>2, <2>3, <2>4, StatusMoves DEF SLOInv, Sound
<1> QED BY <1>1, <1>2, <1>3, <1>4

(* Every step of the engine is one of the service, or is not seen there.   *)
LEMMA SLOStepsServe ==
  ASSUME SLOInv, PromptsKept, [SLONext]_sloVars
  PROVE  [Service!ServiceNext]_(Service!serviceVars) /\ PromptsKept'
<1>0. pc \in {"idle", "run", "post"} => CoreInv
  BY OutOfLoops
<1>1. CASE \E s \in Seqs : AddRequest(s)
  <2>1. CoreInv
    BY <1>0, <1>1 DEF AddRequest
  <2> QED BY <1>1, <2>1, ArrivalAccepted DEF Service!ServiceNext
<1>2. CASE \E t \in Token : PostprocessOne(t)
  <2>1. CoreInv
    BY <1>0, <1>2 DEF PostprocessOne
  <2> QED BY <1>2, <2>1, TokenEmitted DEF Service!ServiceNext, Service!EmitSome
<1>3. CASE RunModel \/ EndStep
  <2>1. CoreInv
    BY <1>0, <1>3 DEF RunModel, EndStep
  <2>2. Unseen
    BY <1>3, <2>1, ScheduleUnseen
  <2> QED BY <2>2, UnseenStutters
<1>4. CASE \/ StartSLOStep \/ AcceptScanned \/ DeferScanned \/ EndScan \/ DropDeferred
           \/ PreemptLow \/ TakeFreed \/ PreemptDeferred \/ EndSettle
           \/ SLOPrefillHead \/ EndSLOPrefill
  BY <1>4, SLOScheduleUnseen, UnseenStutters
<1>5. CASE UNCHANGED sloVars
  <2>1. Unseen
    BY <1>5 DEF sloVars, vars, bmVars, seqVars, Unseen
  <2> QED BY <2>1, UnseenStutters
<1> QED BY <1>1, <1>2, <1>3, <1>4, <1>5 DEF SLONext, SLOStep

(* Whatever this policy does to the order of decodes, what clients see is  *)
(* what the service allows: tokens of an accepted request, up to its end.  *)
THEOREM SLOServes == SLOSpec => KeepsServiceSafe
<1>1. SLOInit => Service!ServiceInit /\ PromptsKept
  BY ServiceStarts DEF SLOInit
<1>2. SLOInv /\ PromptsKept /\ [SLONext]_sloVars
        => [Service!ServiceNext]_(Service!serviceVars) /\ PromptsKept'
  BY SLOStepsServe
<1> QED BY <1>1, <1>2, SLOCorrect, PTL DEF SLOSpec, KeepsServiceSafe

-----------------------------------------------------------------------------
(* The calibration.  Every sample of the time to the first token comes     *)
(* with one of the time between tokens: a sequence whose decode was timed  *)
(* took its first token before that decode, so it finishes with two.       *)
Generated(s) == Len(token_ids[s]) - Len(request[s].prompt)

(* A sequence that decodes, or may, has its first token.                   *)
Decodes(s) == status[s] = "RUNNING" /\ (num_scheduled_tokens[s] = 0 \/ ~ is_prefill[s])
FirstTaken == \A s \in Seqs : Decodes(s) => Generated(s) > 0

TimedTokens(s) ==
  status[s] # "NEW" /\ Generated(s) > IF status[s] = "FINISHED" THEN 1 ELSE 0

CalibrationInv ==
  /\ ttfts \in Nat /\ itls \in Nat /\ ttfts <= itls
  /\ PromptsKept /\ FirstTaken
  /\ decoded \subseteq Seqs
  /\ \A s \in decoded : TimedTokens(s)
  /\ pc \in {"run", "post"} /\ ~ batch_is_prefill => Batch \subseteq decoded

(* A step the clients do not see, by which no sequence begins to decode.   *)
LEMMA UnseenCalibration ==
  ASSUME CalibrationInv, Unseen, UNCHANGED calibrationVars,
         \A s \in Seqs : Decodes(s)' => Decodes(s),
         pc' \in {"run", "post"} /\ ~ batch_is_prefill' => Batch' \subseteq decoded'
  PROVE  CalibrationInv'
<1>1. PromptsKept'
  BY UnseenStutters DEF CalibrationInv
<1>2. \A s \in Seqs : Generated(s)' = Generated(s)
  BY DEF Unseen, Generated
<1>3. FirstTaken'
  BY <1>2 DEF CalibrationInv, FirstTaken
<1>4. \A s \in decoded : TimedTokens(s)'
  BY <1>2 DEF CalibrationInv, TimedTokens, Unseen
<1> QED BY <1>1, <1>3, <1>4 DEF CalibrationInv, calibrationVars

(* The steps of schedule(), up to the return of its batch.                 *)
LEMMA ScheduleCalibration ==
  ASSUME SLOInv, CalibrationInv,
         \/ StartSLOStep \/ AcceptScanned \/ DeferScanned \/ EndScan \/ DropDeferred
         \/ PreemptLow \/ TakeFreed \/ PreemptDeferred
         \/ SLOPrefillHead \/ EndSLOPrefill
  PROVE  CalibrationInv'
<1>1. Unseen /\ UNCHANGED calibrationVars
  <2>1. UNCHANGED calibrationVars
    BY DEF StartSLOStep, AcceptScanned, DeferScanned, EndScan, DropDeferred, PreemptLow,
           TakeFreed, PreemptDeferred, SLOPrefillHead, EndSLOPrefill
  <2> QED BY <2>1, SLOScheduleUnseen
<1>2. pc' \in {"run", "post"} /\ ~ batch_is_prefill' => Batch' \subseteq decoded'
  BY DEF StartSLOStep, AcceptScanned, DeferScanned, EndScan, DropDeferred, PreemptLow,
         TakeFreed, PreemptDeferred, SLOPrefillHead, EndSLOPrefill, stepVars
<1>3. Fields
  BY DEF SLOInv, Sound
<1>4. \A s \in Seqs : Decodes(s)' => Decodes(s)
  <2>1. CASE StartSLOStep \/ DeferScanned \/ EndScan \/ DropDeferred \/ EndSLOPrefill
    BY <2>1 DEF StartSLOStep, DeferScanned, EndScan, DropDeferred, EndSLOPrefill,
                seqVars, Decodes
  <2>2. CASE AcceptScanned
    <3>1. PICK s : s = Head(to_scan)
      OBVIOUS
    <3>2. /\ pc = "scan" /\ to_scan # <<>> /\ status' = status
          /\ num_scheduled_tokens' = [num_scheduled_tokens EXCEPT ![s] = 1]
          /\ is_prefill' = [is_prefill EXCEPT ![s] = FALSE]
      BY <2>2, <3>1 DEF AcceptScanned
    <3>3. s \in Seqs /\ s \in Range(to_scan)
      BY <3>1, <3>2, Popped DEF SLOInv, ListsApart
    <3>4. status[s] = "RUNNING" /\ s \notin Accepted /\ InLoops
      BY <3>2, <3>3, NobodyInHand DEF SLOInv, ListsApart, Deciding, InLoops
    <3>5. num_scheduled_tokens[s] = 0
      BY <3>3, <3>4, NothingScheduled
    <3> QED BY <1>3, <3>2, <3>3, <3>4, <3>5 DEF Decodes, Fields
  <2>3. CASE TakeFreed
    <3>1. PICK s : s = cur
      OBVIOUS
    <3>2. /\ pc = "take" /\ status' = status
          /\ num_scheduled_tokens' = [num_scheduled_tokens EXCEPT ![s] = 1]
          /\ is_prefill' = [is_prefill EXCEPT ![s] = FALSE]
      BY <2>3, <3>1 DEF TakeFreed
    <3>3. s \in Seqs /\ status[s] = "RUNNING" /\ num_scheduled_tokens[s] = 0
      BY <3>1, <3>2, RangeInSeqs DEF SLOInv, ListsApart, InHandApart, Deciding
    <3> QED BY <1>3, <3>2, <3>3 DEF Decodes, Fields
  <2>4. CASE PreemptLow \/ PreemptDeferred
    <3>1. PICK s : /\ status' = [status EXCEPT ![s] = "WAITING"]
                   /\ is_prefill' = [is_prefill EXCEPT ![s] = TRUE]
                   /\ num_scheduled_tokens' = num_scheduled_tokens
      BY <2>4 DEF PreemptLow, PreemptDeferred, preempt
    <3> QED BY <1>3, <3>1 DEF Decodes, Fields
  <2>5. CASE SLOPrefillHead
    <3>1. PICK s, n : s = Head(waiting) /\ n = Smaller(num_tokens(s), remaining)
      OBVIOUS
    <3>2. /\ pc = "prefill" /\ CanVisitHead
          /\ num_scheduled_tokens' = [num_scheduled_tokens EXCEPT ![s] = n]
          /\ is_prefill' = [is_prefill EXCEPT ![s] = TRUE]
          /\ status' = [status EXCEPT ![s] = "RUNNING"] \/ status' = status
      BY <2>5, <3>1 DEF SLOPrefillHead
    <3>3. s \in Seqs /\ n \in Nat /\ 0 < n
      BY <3>1, <3>2, ChunkOfHead
    <3> QED BY <1>3, <3>2, <3>3 DEF Decodes, Fields
  <2> QED BY <2>1, <2>2, <2>3, <2>4, <2>5
<1> QED BY <1>1, <1>2, <1>4, UnseenCalibration

(* A batch of decodes is timed when schedule() returns it.                 *)
LEMMA EndSettleCalibration ==
  ASSUME SLOInv, CalibrationInv, EndSettle
  PROVE  CalibrationInv'
<1>1. /\ pc = "settle" /\ UNCHANGED <<bmVars, seqVars, ttfts, itls>> /\ Unseen
  BY SLOScheduleUnseen DEF EndSettle
<1>2. /\ PromptsKept' /\ FirstTaken'
      /\ \A s \in decoded : TimedTokens(s)'
  <2>1. PromptsKept'
    BY <1>1, UnseenStutters DEF CalibrationInv
  <2> QED BY <1>1, <2>1 DEF CalibrationInv, FirstTaken, Decodes, Generated, TimedTokens,
                            bmVars, seqVars
<1>3. CASE hi \o lo # <<>>
  <2>1. /\ scheduled_seqs' = hi \o lo
        /\ decoded' = decoded \cup Accepted /\ Batch' = Accepted
    BY <1>1, <1>3, HalvesJoined DEF EndSettle, Batch
  <2>2. \A s \in Accepted : s \in Seqs /\ status[s] = "RUNNING" /\ ~ is_prefill[s]
    <3>1. Accepted = Range(hi) \cup Range(lo) /\ Accepted \subseteq Seqs
      BY <1>1, NobodyInHand
    <3> QED BY <1>1, <3>1 DEF SLOInv, ListsApart, AcceptedHold, Deciding, InLoops
  <2>3. \A s \in Accepted : TimedTokens(s)'
    BY <1>1, <2>2 DEF CalibrationInv, FirstTaken, Decodes, TimedTokens, Generated,
                      bmVars, seqVars
  <2> QED BY <1>1, <1>2, <2>1, <2>2, <2>3 DEF CalibrationInv
<1>4. CASE hi \o lo = <<>>
  <2>1. pc' = "prefill" /\ decoded' = decoded
    BY <1>4 DEF EndSettle
  <2> QED BY <1>1, <1>2, <2>1 DEF CalibrationInv
<1> QED BY <1>3, <1>4

(* An arrival was never timed.                                             *)
LEMMA AddRequestCalibration ==
  ASSUME SLOInv, CalibrationInv, NEW s \in Seqs, AddRequest(s), UNCHANGED calibrationVars
  PROVE  CalibrationInv'
<1>1. /\ pc = "idle" /\ pc' = "idle" /\ status[s] = "NEW"
      /\ token_ids' = [token_ids EXCEPT ![s] = request[s].prompt]
      /\ status' = [status EXCEPT ![s] = "WAITING"]
      /\ UNCHANGED <<request, is_prefill, num_scheduled_tokens>>
  BY DEF AddRequest, stepVars
<1>2. CoreInv /\ Fields /\ token_ids \in [Seqs -> Seq(Token)]
  BY <1>1, OutOfLoops DEF CoreInv, Sound, BMInv, BMTypeOK
<1>3. PromptsKept'
  BY <1>2, ArrivalAccepted DEF CalibrationInv
<1>4. \A r \in Seqs : r # s => /\ Generated(r)' = Generated(r) /\ status'[r] = status[r]
                               /\ Decodes(r)' <=> Decodes(r)
  BY <1>1, <1>2 DEF Generated, Decodes, Fields
<1>5. status'[s] = "WAITING"
  BY <1>1, <1>2 DEF Fields
<1>6. s \notin decoded
  BY <1>1 DEF CalibrationInv, TimedTokens
<1>7. FirstTaken'
  BY <1>4, <1>5 DEF CalibrationInv, FirstTaken, Decodes
<1>8. \A r \in decoded : TimedTokens(r)'
  BY <1>4, <1>6 DEF CalibrationInv, TimedTokens
<1> QED BY <1>1, <1>3, <1>7, <1>8 DEF CalibrationInv, calibrationVars

(* A sequence that postprocess() reaches has its first token afterwards,   *)
(* and a second one if its decode was timed.                               *)
LEMMA PostprocessOneCalibration ==
  ASSUME SLOInv, CalibrationInv, NEW t \in Token, PostprocessOne(t),
         UNCHANGED calibrationVars
  PROVE  CalibrationInv'
<1>1. /\ pc = "post" /\ pc' = "post" /\ processed < Len(scheduled_seqs)
      /\ UNCHANGED <<request, is_prefill, scheduled_seqs, batch_is_prefill>>
  BY DEF PostprocessOne
<1>2. CoreInv /\ Fields /\ token_ids \in [Seqs -> Seq(Token)]
  BY <1>1, OutOfLoops DEF CoreInv, Sound, BMInv, BMTypeOK
<1>3. PICK s \in Seqs : s = scheduled_seqs[processed + 1]
  BY <1>1, <1>2, NextOfBatch
<1>4. PICK c : c = num_cached_tokens[s] + num_scheduled_tokens[s]
  OBVIOUS
<1>5. /\ num_scheduled_tokens' = [num_scheduled_tokens EXCEPT ![s] = 0]
      /\ \/ IsChunk(s, c) /\ UNCHANGED <<token_ids, status>>
         \/ /\ ~ IsChunk(s, c)
            /\ token_ids' = [token_ids EXCEPT ![s] = Append(@, t)]
            /\ \/ status' = [status EXCEPT ![s] = "FINISHED"]
               \/ UNCHANGED status
  BY <1>3, <1>4 DEF PostprocessOne
<1>6. PromptsKept'
  BY <1>2, TokenEmitted DEF CalibrationInv
<1>7. \A r \in Seqs : r # s => /\ Generated(r)' = Generated(r) /\ status'[r] = status[r]
                               /\ Decodes(r)' <=> Decodes(r)
  BY <1>1, <1>2, <1>5 DEF Generated, Decodes, Fields
<1>8. Batch' \subseteq decoded' \/ batch_is_prefill'
  BY <1>1 DEF CalibrationInv, Batch, calibrationVars
<1>9. CASE IsChunk(s, c)
  <2>1. Decodes(s)' => Decodes(s)
    <3> SUFFICES ASSUME status[s] = "RUNNING" PROVE num_scheduled_tokens[s] = 0
      BY <1>5, <1>9 DEF Decodes
    <3>1. num_scheduled_tokens[s] \in Nat
      BY <1>2 DEF Fields
    <3>2. num_scheduled_tokens[s] > 0 => c = Len(token_ids[s])
      BY <1>4 DEF SLOInv, Sound, TablesFit, TableFits
    <3> QED BY <1>2, <1>9, <3>1, <3>2 DEF IsChunk
  <2>2. Generated(s)' = Generated(s) /\ status'[s] = status[s]
    BY <1>1, <1>5, <1>9 DEF Generated
  <2>3. FirstTaken' /\ \A r \in decoded : TimedTokens(r)'
    BY <1>7, <2>1, <2>2 DEF CalibrationInv, FirstTaken, TimedTokens
  <2> QED BY <1>1, <1>6, <1>8, <2>3 DEF CalibrationInv, calibrationVars
<1>10. CASE ~ IsChunk(s, c)
  <2>1. status[s] = "RUNNING"
    BY <1>1, <1>2, <1>3, <1>4, <1>10, NextOfBatch
  <2>2. Generated(s) \in Nat
    <3>1. request[s].prompt \in Seq(Token)
      BY <1>2, FeasibleAssumption, PromptsAssumption DEF Fields
    <3>2. Len(request[s].prompt) \in Nat /\ Len(token_ids[s]) \in Nat
      BY <1>2, <3>1, LenProperties
    <3> QED BY <2>1, <3>2 DEF CalibrationInv, PromptsKept, Generated
  <2>3. Generated(s)' = Generated(s) + 1
    <3>1. token_ids'[s] = Append(token_ids[s], t)
      BY <1>2, <1>5, <1>10
    <3>2. Len(token_ids'[s]) = Len(token_ids[s]) + 1 /\ Len(token_ids[s]) \in Nat
      BY <1>2, <3>1, LenProperties
    <3>3. Len(request[s].prompt) \in Nat
      BY <1>2, FeasibleAssumption, PromptsAssumption, LenProperties DEF Fields
    <3> QED BY <1>1, <3>2, <3>3 DEF Generated
  <2>4. status'[s] # "NEW"
    BY <1>2, <1>5, <1>10, <2>1 DEF Fields
  <2>5. s \in decoded => Generated(s) > 0
    BY <2>1 DEF CalibrationInv, TimedTokens
  <2>6. FirstTaken' /\ \A r \in decoded : TimedTokens(r)'
    <3>1. FirstTaken'
      BY <1>7, <2>2, <2>3 DEF CalibrationInv, FirstTaken
    <3>2. \A r \in decoded : r # s => TimedTokens(r)'
      BY <1>7 DEF CalibrationInv, TimedTokens
    <3>3. s \in decoded => TimedTokens(s)'
      BY <2>2, <2>3, <2>4, <2>5 DEF TimedTokens
    <3> QED BY <3>1, <3>2, <3>3
  <2> QED BY <1>1, <1>6, <1>8, <2>6 DEF CalibrationInv, calibrationVars
<1> QED BY <1>9, <1>10

(* The end of postprocess(): a sample of the one list comes with one of    *)
(* the other.                                                              *)
LEMMA TrackCalibration ==
  ASSUME SLOInv, CalibrationInv, EndStep, Track
  PROVE  CalibrationInv'
<1>1. /\ pc = "post" /\ pc' = "idle" /\ UNCHANGED <<bmVars, seqVars>>
  BY DEF EndStep
<1>2. Unseen
  BY <1>1 DEF Unseen, bmVars, seqVars
<1> DEFINE timed == decoded \cup DecodedIn
           multi == {s \in Finished : Len(token_ids[s]) - Len(request[s].prompt) > 1}
<1>3. timed = decoded
  BY <1>1 DEF DecodedIn, CalibrationInv
<1>4. /\ decoded' = timed \ Finished
      /\ IF calibrated THEN UNCHANGED <<ttfts, itls>>
         ELSE /\ ttfts' = ttfts + Cardinality(Finished \cap timed)
              /\ itls' = itls + Cardinality(multi)
  BY DEF Track
<1>5. Finished \cap timed \subseteq multi /\ multi \subseteq Seqs
  <2>1. Finished \subseteq Seqs
    BY RangeInSeqs DEF Finished, Batch, SLOInv, Sound, Fields
  <2>2. \A s \in Finished \cap timed : Generated(s) > 1
    BY <1>3 DEF CalibrationInv, TimedTokens, Finished
  <2> QED BY <2>1, <2>2 DEF Generated
<1>6. /\ Cardinality(Finished \cap timed) \in Nat /\ Cardinality(multi) \in Nat
      /\ Cardinality(Finished \cap timed) <= Cardinality(multi)
  <2> HIDE DEF timed, multi
  <2>1. IsFiniteSet(multi)
    BY <1>5, SeqsAssumption, FS_Subset
  <2>2. IsFiniteSet(Finished \cap timed)
    BY <1>5, <2>1, FS_Subset
  <2> QED BY <1>5, <2>1, <2>2, FS_Subset, FS_CardinalityType
<1>7. ttfts' \in Nat /\ itls' \in Nat /\ ttfts' <= itls'
  <2> HIDE DEF timed, multi
  <2> QED BY <1>4, <1>6 DEF CalibrationInv
<1>8. /\ PromptsKept' /\ FirstTaken'
      /\ \A s \in decoded : TimedTokens(s)'
  <2>1. PromptsKept'
    BY <1>2, UnseenStutters DEF CalibrationInv
  <2> QED BY <1>1, <2>1 DEF CalibrationInv, FirstTaken, Decodes, Generated, TimedTokens,
                            bmVars, seqVars
<1> QED BY <1>1, <1>3, <1>4, <1>7, <1>8 DEF CalibrationInv

(* Every step keeps the samples in step.                                   *)
LEMMA SLONextCalibration ==
  ASSUME SLOInv, CalibrationInv, [SLONext]_sloVars
  PROVE  CalibrationInv'
<1>1. CASE \E s \in Seqs : AddRequest(s) /\ UNCHANGED <<loopVars, calibrationVars>>
  BY <1>1, AddRequestCalibration
<1>2. CASE (\E t \in Token : PostprocessOne(t)) /\ UNCHANGED <<loopVars, calibrationVars>>
  BY <1>2, PostprocessOneCalibration
<1>3. CASE (RunModel /\ UNCHANGED <<loopVars, calibrationVars>>) \/ UNCHANGED sloVars
  <2>1. UNCHANGED <<bmVars, seqVars, scheduled_seqs, batch_is_prefill, calibrationVars>>
    BY <1>3 DEF RunModel, sloVars, vars, stepVars
  <2>2. Unseen /\ \A s \in Seqs : Decodes(s)' => Decodes(s)
    BY <2>1 DEF bmVars, seqVars, Unseen, Decodes
  <2>3. pc' \in {"run", "post"} => pc \in {"run", "post"}
    BY <1>3 DEF RunModel, sloVars, vars, stepVars
  <2>4. pc' \in {"run", "post"} /\ ~ batch_is_prefill' => Batch' \subseteq decoded'
    BY <2>1, <2>3 DEF CalibrationInv, Batch, calibrationVars
  <2> QED BY <2>1, <2>2, <2>4, UnseenCalibration
<1>4. CASE EndStep /\ Track /\ UNCHANGED loopVars
  BY <1>4, TrackCalibration
<1>5. CASE EndSettle
  BY <1>5, EndSettleCalibration
<1>6. CASE \/ StartSLOStep \/ AcceptScanned \/ DeferScanned \/ EndScan \/ DropDeferred
           \/ PreemptLow \/ TakeFreed \/ PreemptDeferred
           \/ SLOPrefillHead \/ EndSLOPrefill
  BY <1>6, ScheduleCalibration
<1> QED BY <1>1, <1>2, <1>3, <1>4, <1>5, <1>6 DEF SLONext, SLOStep

(* The calibration never indexes a list beyond its end, however many       *)
(* requests finish in one step and with however few tokens.                *)
THEOREM SLOCalibration == SLOSpec => []CalibrationInRange
<1>1. SLOInit => CalibrationInv
  <2> SUFFICES ASSUME SLOInit PROVE CalibrationInv
    OBVIOUS
  <2>1. PromptsKept
    BY ServiceStarts DEF SLOInit
  <2>2. FirstTaken
    BY DEF SLOInit, CoreInit, FirstTaken, Decodes
  <2> QED BY <2>1, <2>2 DEF SLOInit, CoreInit, CalibrationInv
<1>2. SLOInv /\ CalibrationInv /\ [SLONext]_sloVars => CalibrationInv'
  BY SLONextCalibration
<1>3. CalibrationInv => CalibrationInRange
  <2> SUFFICES ASSUME CalibrationInv, ttfts >= CalibrationTarget
               PROVE  ttfts \div 2 < itls
    BY DEF CalibrationInRange
  <2>1. ttfts \in Nat /\ itls \in Nat /\ ttfts <= itls /\ ttfts > 0
    BY CalibrationAssumption DEF CalibrationInv
  <2> QED BY <2>1
<1> QED BY <1>1, <1>2, <1>3, SLOCorrect, PTL DEF SLOSpec
=============================================================================
