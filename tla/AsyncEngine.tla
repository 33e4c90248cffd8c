----------------------------- MODULE AsyncEngine ----------------------------
(***************************************************************************)
(* The serving loop, serve/async_engine.py: HTTP handlers submit requests  *)
(* and read their queues, _engine_loop hands requests to the engine and    *)
(* dispatches the tokens of each step, and the engine works in an executor *)
(* thread meanwhile.  loop is the place _engine_loop or, while it awaits   *)
(* the executor, the engine call has reached.                              *)
(*                                                                         *)
(* The scheduler is what any of the policies may do.  schedule() takes     *)
(* running sequences into locals, up to max_num_seqs of them or, slo_aware,*)
(* all of running; it preempts some, slo_aware may drop some, and it       *)
(* decodes the rest; or it prefills waiting ones, slo_aware any number of  *)
(* them.  What slo_aware puts back into running for a while stays held     *)
(* here, so admission sees no more than it does in the code.  Which policy *)
(* does which of these when is in the modules over SchedulerCore.  A prompt*)
(* that is prefilled in part goes to the back of waiting and yields no     *)
(* token, and is left out.                                                 *)
(***************************************************************************)
EXTENDS Integers, FiniteSets, SequencesExt, Queues

CONSTANTS
  Requests,       (* request ids, in the order _request_counter gives them *)
  MaxTokens,      (* max_tokens of each request                            *)
  MaxQueueDepth,  (* max_queue_depth                                       *)
  MaxNumSeqs,     (* max_num_seqs                                          *)
  MaxFailures     (* bound: exceptions in the executor                     *)

ASSUME RequestsAssumption ==
  IsFiniteSet(Requests) /\ Requests = 1 .. Cardinality(Requests)
ASSUME LimitsAssumption ==
  /\ MaxTokens \in [Requests -> Nat \ {0}]
  /\ MaxQueueDepth \in Nat
  /\ MaxNumSeqs \in Nat \ {0}
  /\ MaxFailures \in Nat

VARIABLES
  pending_add,    (* _pending_add                                          *)
  token_queues,   (* _token_queues                                         *)
  seq_to_request, (* _seq_to_request                                       *)
  loop,           (* the place reached                                     *)
  adding,         (* the request popped from _pending_add                  *)
  failures,       (* exceptions so far                                     *)
  stopped,        (* stop() was called                                     *)
  submitted,      (* _request_counter                                      *)
  counted,        (* the requests get_capacity has counted so far          *)
  received,       (* the tokens a handler has read                         *)
  ended,          (* the handlers that read the end marker                 *)
  source,         (* the request each sequence was made from               *)
  waiting,        (* the deques of the scheduler                           *)
  running,
  held,           (* sequences that schedule() holds in a local            *)
  lost,           (* sequences that schedule() dropped                     *)
  batch,          (* the sequences being computed                          *)
  generated,      (* num_completion_tokens of a sequence                   *)
  begun,          (* history: the sequences that were ever scheduled       *)
  prev_counts,    (* the counts OnlineEngine.step took before the step     *)
  new_tokens,     (* what it returns: a range of positions per sequence    *)
  finished        (* finished_outputs                                      *)

frontVars  == <<submitted, counted, received, ended>>
mapVars    == <<token_queues, seq_to_request>>
deques     == <<waiting, running, held, lost>>
seqVars    == <<source, generated, begun>>
resultVars == <<new_tokens, finished>>
asyncVars  == <<pending_add, mapVars, loop, adding, failures, stopped,
                frontVars, seqVars, deques, batch, prev_counts, resultVars>>

END == <<>>         (* the None that closes a queue; no text is empty      *)
NoRequest == 0
NotCounting == -1
Empty == <<>>       (* an empty dict                                       *)

AsyncInit ==
  /\ pending_add = <<>>
  /\ token_queues = Empty
  /\ seq_to_request = Empty
  /\ loop = "drain"
  /\ adding = NoRequest
  /\ failures = 0
  /\ stopped = FALSE
  /\ submitted = 0
  /\ counted = NotCounting
  /\ received = [r \in Requests |-> <<>>]
  /\ ended = {}
  /\ source = <<>>
  /\ waiting = <<>>
  /\ running = <<>>
  /\ held = <<>>
  /\ lost = {}
  /\ batch = <<>>
  /\ generated = <<>>
  /\ begun = {}
  /\ prev_counts = Empty
  /\ new_tokens = Empty
  /\ finished = {}

-----------------------------------------------------------------------------
(* dict[key] = value, for a key that is there or not.                      *)
Put(dict, key, value) ==
  [k \in DOMAIN dict \cup {key} |-> IF k = key THEN value ELSE dict[k]]

(* The event loop runs one handler at a time, and none in the middle of    *)
(* another's code.  The executor goes on meanwhile.                        *)
EventLoopFree == counted = NotCounting

(* Mutant of Queued: requests not handed over yet are not counted.         *)
Queued_waiting == Len(waiting)

(* The waiting of get_capacity().                                          *)
Queued == Len(waiting) + Len(pending_add)

(* completions() asks get_capacity(), which counts the queued requests and *)
(* then the running ones while the executor moves sequences between deques.*)
CountQueued ==
  /\ EventLoopFree
  /\ submitted + 1 \in Requests
  /\ counted' = Queued
  /\ UNCHANGED <<pending_add, mapVars, loop, adding, failures, stopped, submitted,
                 received, ended, seqVars, deques, batch, prev_counts, resultVars>>

total_active == counted + Len(running)

(* The request is admitted and add_request() queues it: nothing is awaited *)
(* in between.                                                             *)
Submit(r) ==
  /\ r = submitted + 1
  /\ ~EventLoopFree
  /\ total_active < MaxQueueDepth
  /\ counted' = NotCounting
  /\ submitted' = r
  /\ token_queues' = Put(token_queues, r, <<>>)
  /\ pending_add' = Append(pending_add, r)
  /\ UNCHANGED <<seq_to_request, loop, adding, failures, stopped, received, ended,
                 seqVars, deques, batch, prev_counts, resultVars>>

(* The answer is 429.                                                      *)
Refuse ==
  /\ ~EventLoopFree
  /\ total_active >= MaxQueueDepth
  /\ counted' = NotCounting
  /\ UNCHANGED <<pending_add, mapVars, loop, adding, failures, stopped, submitted,
                 received, ended, seqVars, deques, batch, prev_counts, resultVars>>

Answer == Refuse \/ \E r \in Requests : Submit(r)

Closed(r) == [q \in DOMAIN token_queues \ {r} |-> token_queues[q]]

(* generate_stream(): a text is passed on, the end marker ends the stream. *)
Read(r) ==
  /\ EventLoopFree
  /\ r \in DOMAIN token_queues
  /\ token_queues[r] # <<>>
  /\ IF Head(token_queues[r]) = END
     THEN /\ token_queues' = Closed(r)
          /\ ended' = ended \cup {r}
          /\ UNCHANGED received
     ELSE /\ token_queues' = [token_queues EXCEPT ![r] = Tail(@)]
          /\ received' = [received EXCEPT ![r] = @ \o Head(token_queues[r])]
          /\ UNCHANGED ended
  /\ UNCHANGED <<pending_add, seq_to_request, loop, adding, failures, stopped,
                 submitted, counted, seqVars, deques, batch, prev_counts, resultVars>>

(* The client is gone, or 300 s passed without a token.                    *)
Abandon(r) ==
  /\ EventLoopFree
  /\ r \in DOMAIN token_queues
  /\ token_queues' = Closed(r)
  /\ UNCHANGED <<pending_add, seq_to_request, loop, adding, failures, stopped,
                 frontVars, seqVars, deques, batch, prev_counts, resultVars>>

-----------------------------------------------------------------------------
(* _engine_loop: hand over what is pending, then step.                     *)
StartAdd ==
  /\ EventLoopFree
  /\ loop = "drain"
  /\ ~stopped
  /\ pending_add # <<>>
  /\ adding' = Head(pending_add)
  /\ pending_add' = Tail(pending_add)
  /\ loop' = "adding"
  /\ UNCHANGED <<mapVars, failures, stopped, frontVars, seqVars, deques, batch,
                 prev_counts, resultVars>>

(* engine.add_request, in the executor.                                    *)
EngineAdd ==
  /\ loop = "adding"
  /\ source' = Append(source, adding)
  /\ generated' = Append(generated, 0)
  /\ waiting' = Append(waiting, Len(source) + 1)
  /\ loop' = "added"
  /\ UNCHANGED <<pending_add, mapVars, adding, failures, stopped, frontVars, begun,
                 running, held, lost, batch, prev_counts, resultVars>>

(* Mutant of JustAdded: the sequence is looked for at the wrong end.       *)
JustAdded_first == Head(waiting)

(* Mutant of JustAdded: the identity the counter gives out next.           *)
JustAdded_next == Len(source) + 1

JustAdded == Last(waiting)

MapAdded ==
  /\ EventLoopFree
  /\ loop = "added"
  /\ ~stopped
  /\ seq_to_request' = Put(seq_to_request, JustAdded, adding)
  /\ adding' = NoRequest
  /\ loop' = "drain"
  /\ UNCHANGED <<pending_add, token_queues, failures, stopped, frontVars, seqVars,
                 deques, batch, prev_counts, resultVars>>

(* OnlineEngine.step counts the tokens of the running sequences first.     *)
StartStep ==
  /\ EventLoopFree
  /\ loop = "drain"
  /\ ~stopped
  /\ pending_add = <<>>
  /\ waiting # <<>> \/ running # <<>>
  /\ prev_counts' = [s \in Range(running) |-> generated[s]]
  /\ loop' = "schedule"
  /\ UNCHANGED <<pending_add, mapVars, adding, failures, stopped, frontVars, seqVars,
                 deques, batch, resultVars>>

-----------------------------------------------------------------------------
(* The scheduler's side of the step.  A running sequence is taken into a   *)
(* local.                                                                  *)
HoldRunning ==
  /\ loop = "schedule"
  /\ batch = <<>>
  /\ running # <<>>
  /\ held' = Append(held, Head(running))
  /\ running' = Tail(running)
  /\ UNCHANGED <<pending_add, mapVars, loop, adding, failures, stopped, frontVars,
                 seqVars, waiting, lost, batch, prev_counts, resultVars>>

(* For want of a block the newest running sequence is preempted, or, with  *)
(* none left in running, one that schedule() holds: the one it is at       *)
(* (fcfs.py:93) or one it has scheduled before (slo_aware.py:97).          *)
Victims == IF running = <<>> THEN Range(held) ELSE {Last(running)}

Preempt(s) ==
  /\ loop = "schedule"
  /\ held # <<>>
  /\ s \in Victims
  /\ waiting' = <<s>> \o waiting
  /\ running' = Without(running, {s})
  /\ held' = Without(held, {s})
  /\ UNCHANGED <<pending_add, mapVars, loop, adding, failures, stopped, frontVars,
                 seqVars, lost, batch, prev_counts, resultVars>>

(* slo_aware: a sequence that found no block, and finds one after another  *)
(* was preempted, is popped and put nowhere.                               *)
Lose(s) ==
  /\ loop = "schedule"
  /\ running = <<>>
  /\ waiting # <<>>
  /\ s \in Range(held)
  /\ held' = Without(held, {s})
  /\ lost' = lost \cup {s}
  /\ UNCHANGED <<pending_add, mapVars, loop, adding, failures, stopped, frontVars,
                 seqVars, waiting, running, batch, prev_counts, resultVars>>

ScheduleDecode ==
  /\ loop = "schedule"
  /\ held # <<>>
  /\ running = <<>> \/ Len(held) = MaxNumSeqs
  /\ running' = held \o running
  /\ batch' = held
  /\ held' = <<>>
  /\ loop' = "run"
  /\ UNCHANGED <<pending_add, mapVars, adding, failures, stopped, frontVars, seqVars,
                 waiting, lost, prev_counts, resultVars>>

(* A whole prompt is scheduled: of the first waiting sequence, or of any   *)
(* (priority.py:130).                                                      *)
TakeWaiting(s) ==
  /\ loop = "schedule"
  /\ held = <<>>
  /\ s \in Range(waiting)
  /\ waiting' = Without(waiting, {s})
  /\ running' = Append(running, s)
  /\ batch' = Append(batch, s)
  /\ begun' = begun \cup {s}
  /\ UNCHANGED <<pending_add, mapVars, loop, adding, failures, stopped, frontVars,
                 source, generated, held, lost, prev_counts, resultVars>>

SchedulePrefill ==
  /\ loop = "schedule"
  /\ batch # <<>>
  /\ loop' = "run"
  /\ UNCHANGED <<pending_add, mapVars, adding, failures, stopped, frontVars, seqVars,
                 deques, batch, prev_counts, resultVars>>

(* Mutant of CountBefore: a sequence that was not counted is skipped ahead.*)
CountBefore_one(s) == IF s \in DOMAIN prev_counts THEN prev_counts[s] ELSE 1

(* The tokens m + 1 to n of a sequence.                                    *)
Text(s, m, n) == [i \in 1 .. n - m |-> <<s, m + i>>]

(* prev_counts.get(seq_id, 0)                                              *)
CountBefore(s) == IF s \in DOMAIN prev_counts THEN prev_counts[s] ELSE 0

(* The forward pass and postprocess(): each sequence of the batch gains a  *)
(* token, those in ends are finished and leave running.  The tokens of     *)
(* running and of finished sequences beyond the count are the new ones.    *)
Postprocess(ends) ==
  LET counts == [s \in DOMAIN generated |->
                   generated[s] + IF s \in Range(batch) THEN 1 ELSE 0]
  IN  /\ loop = "run"
      /\ ends \subseteq Range(batch)
      /\ {s \in Range(batch) : counts[s] = MaxTokens[source[s]]} \subseteq ends
      /\ generated' = counts
      /\ running' = Without(running, ends)
      /\ finished' = ends
      /\ new_tokens' = [s \in {q \in Range(running) : counts[q] > CountBefore(q)} |->
                          Text(s, CountBefore(s), counts[s])]
      /\ batch' = <<>>
      /\ prev_counts' = Empty
      /\ loop' = "dispatch"
      /\ UNCHANGED <<pending_add, mapVars, adding, failures, stopped, frontVars, source,
                     begun, waiting, held, lost>>

-----------------------------------------------------------------------------
(* The requests whose sequence is in S.                                    *)
RequestsOf(S) == {seq_to_request[s] : s \in S \cap DOMAIN seq_to_request}

SequenceOf(r) == CHOOSE s \in DOMAIN seq_to_request : seq_to_request[s] = r

(* Mutant of Unmapped: only a sequence whose stream is open is forgotten.  *)
Unmapped_open ==
  {s \in finished \cap DOMAIN seq_to_request :
     seq_to_request[s] \in DOMAIN token_queues}

Unmapped == finished

(* The texts of the step are put into the queues that are still there, the *)
(* end markers after them.                                                 *)
Dispatch ==
  /\ EventLoopFree
  /\ loop = "dispatch"
  /\ ~stopped
  /\ token_queues' =
       [r \in DOMAIN token_queues |->
          token_queues[r]
            \o (IF r \in RequestsOf(DOMAIN new_tokens)
                THEN <<new_tokens[SequenceOf(r)]>> ELSE <<>>)
            \o (IF r \in RequestsOf(finished) THEN <<END>> ELSE <<>>)]
  /\ seq_to_request' = [s \in DOMAIN seq_to_request \ Unmapped |-> seq_to_request[s]]
  /\ new_tokens' = Empty
  /\ finished' = {}
  /\ loop' = "drain"
  /\ UNCHANGED <<pending_add, adding, failures, stopped, frontVars, seqVars, deques,
                 batch, prev_counts>>

-----------------------------------------------------------------------------
(* An exception in the executor: the request has no sequence, or, in a     *)
(* step, schedule() or the forward pass raised.  What the step had changed *)
(* in the scheduler stays.                                                 *)
Fails ==
  /\ loop \in {"adding", "run"} \/ (loop = "schedule" /\ held = <<>> /\ batch = <<>>)
  /\ failures < MaxFailures
  /\ failures' = failures + 1
  /\ loop' = "failed"
  /\ adding' = NoRequest
  /\ batch' = <<>>
  /\ prev_counts' = Empty
  /\ UNCHANGED <<pending_add, mapVars, stopped, frontVars, seqVars, deques,
                 resultVars>>

(* Mutant of ClosedByFailure: the streams of known sequences are closed.   *)
ClosedByFailure_mapped == RequestsOf(DOMAIN seq_to_request)

ClosedByFailure == DOMAIN token_queues

(* Every stream is closed and every sequence forgotten, but the sequences  *)
(* stay in the scheduler and the pending requests stay pending.            *)
HandleFailure ==
  /\ EventLoopFree
  /\ loop = "failed"
  /\ ~stopped
  /\ token_queues' = [r \in DOMAIN token_queues |->
                        token_queues[r]
                          \o IF r \in ClosedByFailure THEN <<END>> ELSE <<>>]
  /\ seq_to_request' = Empty
  /\ loop' = "drain"
  /\ UNCHANGED <<pending_add, adding, failures, stopped, frontVars, seqVars, deques,
                 batch, prev_counts, resultVars>>

(* stop() cancels _engine_loop wherever it awaits.  What the executor is   *)
(* doing goes on, its result goes nowhere, and no stream is closed.        *)
Stop ==
  /\ EventLoopFree
  /\ ~stopped
  /\ stopped' = TRUE
  /\ UNCHANGED <<pending_add, mapVars, loop, adding, failures, frontVars,
                 seqVars, deques, batch, prev_counts, resultVars>>

SeqIds == DOMAIN source

LoopStep ==
  \/ StartAdd
  \/ EngineAdd
  \/ MapAdded
  \/ StartStep
  \/ HoldRunning
  \/ \E s \in SeqIds : Preempt(s) \/ Lose(s) \/ TakeWaiting(s)
  \/ ScheduleDecode
  \/ SchedulePrefill
  \/ \E ends \in SUBSET Range(batch) : Postprocess(ends)
  \/ Dispatch
  \/ HandleFailure

AsyncNext ==
  \/ CountQueued
  \/ Answer
  \/ \E r \in Requests : Read(r) \/ Abandon(r)
  \/ LoopStep
  \/ Fails
  \/ Stop

(* The loop and the executor always get on, and a handler that is waiting  *)
(* for its queue reads what is put into it.  The event loop runs what is   *)
(* ready in the order in which it became so: admitting other requests only *)
(* delays it, which takes strong fairness to say.                          *)
AsyncSpec ==
  /\ AsyncInit
  /\ [][AsyncNext]_asyncVars
  /\ SF_asyncVars(LoopStep)
  /\ \A r \in Requests : SF_asyncVars(Read(r))
  /\ WF_asyncVars(Answer)

-----------------------------------------------------------------------------
(* Everything sent to the handler of a request whose queue is open.        *)
Stream(r) == received[r] \o FlattenSeq(token_queues[r])

Output(s) == Text(s, 0, generated[s])

(* What was sent to the handler of r ends with all that s generated: each  *)
(* text in its queue, upto the k-th token, goes on where the one before it *)
(* ended, or starts over.                                                  *)
ToldAll(r, s) ==
  \E upto \in [0 .. Len(token_queues[r]) -> 0 .. generated[s]] :
    /\ IsSuffix(Text(s, 0, upto[0]), received[r])
    /\ upto[Len(token_queues[r])] = generated[s]
    /\ \A k \in DOMAIN token_queues[r] :
         /\ upto[k - 1] <= upto[k]
         /\ token_queues[r][k] \in {Text(s, upto[k - 1], upto[k]), Text(s, 0, upto[k])}

(* The variables have their types.                                         *)
AsyncTypeOK ==
  /\ pending_add \in Seq(Requests)
  /\ DOMAIN token_queues \subseteq Requests
  /\ DOMAIN seq_to_request \subseteq SeqIds
  /\ Range(seq_to_request) \subseteq Requests
  /\ loop \in {"drain", "adding", "added", "schedule", "run", "dispatch", "failed"}
  /\ adding \in Requests \cup {NoRequest}
  /\ failures \in 0 .. MaxFailures
  /\ stopped \in BOOLEAN
  /\ submitted \in 0 .. Cardinality(Requests)
  /\ counted \in Nat \cup {NotCounting}
  /\ ended \subseteq Requests
  /\ source \in Seq(Requests)
  /\ {waiting, running, held, batch} \subseteq Seq(SeqIds)
  /\ lost \cup begun \subseteq SeqIds
  /\ generated \in [SeqIds -> Nat]
  /\ DOMAIN prev_counts \subseteq SeqIds
  /\ DOMAIN new_tokens \subseteq SeqIds
  /\ finished \subseteq SeqIds

(* A stream carries tokens of its own request only, although a sequence is *)
(* matched to its request by its place in a deque, after the executor      *)
(* returned, and failed requests shift the two numberings apart.           *)
RoutedToOwner ==
  \A r \in Requests :
    /\ \A i \in DOMAIN received[r] : source[received[r][i][1]] = r
    /\ r \in DOMAIN token_queues =>
         \A k \in DOMAIN token_queues[r] : \A i \in DOMAIN token_queues[r][k] :
           source[token_queues[r][k][i][1]] = r

(* While a sequence is mapped and its stream open, what was sent ends with *)
(* everything it generated: no token is skipped, whatever was preempted    *)
(* between the two counts of a step.                                       *)
NothingSkipped ==
  loop # "dispatch" =>
    \A s \in DOMAIN seq_to_request :
      LET r == seq_to_request[s]
      IN  r \in DOMAIN token_queues => ToldAll(r, s)

(* Without a failure a stream that is closed by the engine is complete: its*)
(* sequence is finished and its last token was read.                       *)
EndedComplete ==
  failures = 0 =>
    \A r \in ended : \E s \in SeqIds :
      /\ source[s] = r
      /\ s \notin Range(waiting \o running \o held) \cup lost
      /\ IsSuffix(Output(s), received[r])

(* Admission control bounds the requests that wait to be scheduled for the *)
(* first time, for every policy, although it reads the deques in two steps *)
(* while schedule() moves sequences, and cannot see the request being      *)
(* handed over: that one is all it may be off.  What it cannot see of the  *)
(* others is not bounded: with all of running in a local it admits a whole *)
(* queue more.                                                             *)
Backlog ==
  Len(pending_add) + (IF loop = "adding" THEN 1 ELSE 0)
    + Cardinality(Range(waiting) \ begun)

BacklogBounded == Backlog <= MaxQueueDepth + 1

(* The table of sequences does not outlive them, whether their clients     *)
(* stayed, left or failed.  Those that slo_aware lost stay in it.          *)
MapHoldsLive ==
  loop # "dispatch" =>
    DOMAIN seq_to_request \subseteq Range(waiting \o running \o held) \cup lost

(* Every stream is closed, by an end marker or by the client, unless the   *)
(* server is stopped or the scheduler lost its sequence (slo_aware.py:93). *)
(* Failures included, none else is left waiting for the engine.            *)
StreamsClose ==
  \A r \in Requests :
    r \in DOMAIN token_queues ~>
      \/ r \notin DOMAIN token_queues
      \/ stopped
      \/ \E s \in lost : source[s] = r

(* "newly generated token IDs" (async_engine.py:74): no token is sent to a *)
(* client twice.                                                           *)
SentOnce ==
  \A r \in DOMAIN token_queues : IsInjective(Stream(r))
=============================================================================
