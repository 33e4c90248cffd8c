# nano-serve: a verification project

nano-serve is a small LLM serving engine: a paged KV cache with prefix
sharing, a choice of continuous-batching schedulers, a tensor-parallel model
runner, and an asynchronous HTTP front end.  These modules model its engine,
every scheduling policy, the ranks and their shares of the weights, and the
serving loop.  TLC checks them on small instances; TLAPS proves for every
instance the safety of the allocator, of the engine with each of its five
policies and the KV cache they fill, of the serving loop and the streams it
feeds, and of the ranks and their shares.

## 1. The system

| component | state it keeps | operations | hard behaviour |
|---|---|---|---|
| `engine/block_manager.py` | free deque, used set, `ref_count` and `hash` per block, prefix index `hash_to_block_id` | `can_allocate`, `allocate`, `deallocate`, `can_append`, `may_append`, `hash_blocks` | a block is shared, released, evicted, found again; labels outlive owners |
| `engine/sequence.py` | tokens, `num_cached_tokens`, `num_scheduled_tokens`, `block_table`, status, `is_prefill` | `append_token`, block arithmetic, pickling for workers | written by allocator, scheduler and engine in turn |
| `engine/scheduler.py`, `scheduler/*.py` | deques `waiting` and `running` | `add`, `schedule`, `preempt`, `postprocess`, `is_finished` | preemption while a batch is being built, chunks of a prefill, fairness, pool exhausted |
| `engine/llm_engine.py` | -- | `add_request`, `step`, `generate` | order of schedule, forward pass and postprocess |
| `engine/model_runner.py` | KV cache tensors, CUDA graphs and their input buffers, a shared-memory segment and one event per worker | `prepare_prefill`, `prepare_decode`, `run_model`, `capture_cudagraph`, `call`, `loop`, `exit` | which slot a token is written to; rows of an earlier batch in the buffers; one unacknowledged segment for all calls |
| `serve/async_engine.py` | pending deque, per-request queues, executor | `add_request`, `generate_stream`, `get_capacity`, `_engine_loop`, `OnlineEngine.step` | the event loop reads the scheduler while the executor thread changes it; timeouts; failures in a step |
| `serve/api_server.py`, `streaming.py`, `request_tracker.py` | request records | admission, responses, server-sent events | limits read before they are used |
| `metrics/metrics_collector.py` | counters, wrapped allocator methods | hooks, `snapshot` | reads from another thread |
| `models/`, `layers/`, `utils/` | the parameters of a rank | weight loaders, forward pass | shares of different sizes packed in one parameter, in the order of the files |
| `benchmark/` | -- | drivers | none |

The engine step is the centre of it all:

    schedule()  ->  model_runner.call("run")  ->  postprocess()

`schedule()` takes blocks from the allocator, the forward pass writes into
them, `postprocess()` labels the blocks that got full, appends the sampled
token, and releases the blocks of a sequence that ended.  Between the three,
blocks are already owned but not yet computed, computed but not yet labelled.
`serve/` runs the step in an executor thread and talks to it through the
scheduler's deques.

What makes the components correct:

* allocator -- no block is lost, handed out while held, or freed twice; sharing
  only ever hands out blocks whose content is the prefix asked for; an
  allocation that was promised succeeds;
* scheduler -- every unfinished sequence is in exactly one place; batches keep
  to the limits; with work to do something is scheduled; every request ends;
* model runner -- read through its table, the cache of a sequence holds its own
  prefix, whoever else shares, evicts or rewrites blocks; a replayed graph does
  what the eager pass would;
* ranks -- they run the same calls in the same order, and their shares of the
  weights combine to the unsplit model;
* serving loop -- a stream carries the tokens of its own request, none skipped,
  none repeated; it is closed whatever fails; the requests that wait for their
  first turn are bounded;
* engine, towards its clients -- one token at a time, nothing taken back, the
  stop exactly at an end-of-sequence token or at `max_tokens`, regardless of
  batching, chunking and preemption.

PROJECT.json lists every component with its status and every hazard with its
line.

## 2. The modules

| module | models | relation |
|---|---|---|
| `Queues` | removing elements from a deque | -- |
| `BlockManager` | the allocator, with the fields of Sequence it uses; `BMSpec` closes it with every legal caller | -- |
| `InferenceService` | abstract: what the engine promises its clients | -- |
| `SchedulerCore` | deques, `preempt`, `postprocess`, the engine step, the writes of the model runner | extends `BlockManager`; refines `InferenceService` and `BMSpec` |
| `FCFS` | `scheduler/fcfs.py`, and `engine/scheduler.py` it repeats | extends `SchedulerCore` |
| `DecodeFirst` | `scheduler/decode_first.py` | extends `SchedulerCore` |
| `ChunkedPrefill` | `scheduler/chunked_prefill.py` | extends `SchedulerCore` |
| `Schedulers` | `scheduler/__init__.py` and the swap in `OnlineEngine`: the engine started with one of those three | extends the three |
| `SLOAware` | `scheduler/slo_aware.py`, calibration included | extends `SchedulerCore` |
| `Priority` | `scheduler/priority.py` and its hand-over from the serving loop | extends `SchedulerCore` |
| `EngineFailure` | a step that raises, and what `_engine_loop` leaves of it | extends `FCFS` |
| `AsyncEngine` | `serve/async_engine.py` with `stop()`, admission and stream reading of `serve/api_server.py` | the scheduler seen through its interface |
| `WeightSharding` | the weight loaders of `layers/`, `utils/loader.py`, and what `models/qwen3.py` combines | -- |
| `ModelRunner` | the ranks: `engine/model_runner.py`, start and `exit` of `llm_engine.py` | extends `WeightSharding`; refines `ShardSpec` |
| `QueueLemmas`, `BlockManagerProofs`, `SchedulerProofs`, `EngineProofs`, `PriorityProofs`, `SLOProofs`, `AsyncEngineProofs`, `ModelRunnerProofs` | -- | lemmas and theorems, section 4 |
| `MC*` | instances for TLC | |

**State.** Variables carry the names of the fields they model.  `block_table`,
`token_ids`, ... are functions of the sequence, `ref_count` and `hash` of the
block.  `token_ids[s] = <<>>` and `status[s] = "NEW"` stand for a sequence that
does not exist yet.  Table positions start at 1 here, at 0 in the code.
`hash[b]` is the token prefix whose digest the code stores, `<<>>` its -1, so
digests are taken to be collision free (the code compares the tokens of the
last block as well, which `Hit` models).

**Actions.** In `BlockManager` an operator of the code's name constrains the
variables the method assigns; `BMCreate`, `BMAllocate`, ... are the calls a
legal caller may make.  In `SchedulerCore` each iteration of the loops of
`schedule()` and `postprocess()` is an action; `pc` is the place reached
(`idle`, `prefill`, `decode`, `append`, `run`, `post`, and `raised` for the
assertion or exception at the end of `schedule()`).  That grain matters because
sequences are in no deque while the decode loop holds them, which is what other
threads can see.  A policy module composes these actions into its `schedule()`:

| code | action |
|---|---|
| `add_request`, `add` | `AddRequest` |
| call of `step()` | `StartStep` |
| prefill loop, one iteration; its end | `PrefillHead`, `EndPrefill` (chunked: `ChunkHead`, `BreakOnSmallChunk`, `EndChunkedPrefill`) |
| `running.popleft()` | `PopRunning` |
| `preempt(running.pop())`; `preempt(seq)` | `PreemptNewest`; `PreemptSelf` |
| `may_append` and joining the batch | `DecodeCur` |
| `running.extendleft(...)` and the end of the loop | `EndDecode` |
| `model_runner.run` | `RunModel` |
| one iteration of `postprocess`; return | `PostprocessOne`; `EndStep` |

The variable `kv` is the KV cache: the slot a token is written to is the one
`prepare_prefill` (through positions) or `prepare_decode` (through
`block_table[-1]`) computes, and the value in it is the prefix it stands for.
`KVMatchesPrefix` reads it back the way attention does.

SLO-aware: the first loop is `AcceptScanned` and `DeferScanned`, the second
`DropDeferred`, `PreemptLow` with `TakeFreed`, and `PreemptDeferred`; prefill is
`SLOPrefillHead`, `EndSLOPrefill`; `Track` is what `postprocess` records.  The
clock appears only as the choice whether a sequence is urgent, free at each
use, which includes every history of a real clock.

Priority: `EndTryDecode` sorts the copy of `waiting` that the prefill loop walks
(`to_visit`), `SkipVisit` and `VisitNext` are its iterations.  `AddWithPriority`
is `set_next_priority` followed by `add`; `FailAdd` is the same request failing
in between, as the serving loop allows.

**A step that raises.**  `EngineFailure` adds to the FCFS engine what
`_engine_loop` does about an exception: `ModelFails` (before the kernels or
after them), `AssertionFails` (the assertion that ends `schedule()`), and
`Abandoned`, the state both leave: the batch is gone, but its sequences keep
status, place and blocks.

**The serving loop.**  In `AsyncEngine` the handlers (`CountQueued`, then `Submit`
or `Refuse`; `Read`, `Abandon`), the loop on the event loop's thread (`StartAdd`,
`MapAdded`, `StartStep`, `Dispatch`, `HandleFailure`), `Stop`, and what the loop
awaits from the executor (`EngineAdd`; of `schedule()` `HoldRunning`, `Preempt`,
`Lose`, `ScheduleDecode`, `TakeWaiting`, `SchedulePrefill`; then `Postprocess`, and
`Fails`) interleave freely; `loop` is the await reached.  Between two awaits the
event loop runs alone, so `Dispatch` and `HandleFailure` are one action each.
Admission is two, because `get_capacity()` reads `waiting` and `running` one after
the other while the executor moves sequences between them: from `CountQueued` on
`counted` holds what was read, and no other handler runs until the answer
(`EventLoopFree`).  After `Stop` the executor finishes what it is doing and the
loop does nothing more.

The scheduler is what any policy may do with its deques.  Running sequences are
taken into a local one by one, up to `max_num_seqs` of them or, as in
`slo_aware.py:65`, all of them; the newest running one is preempted, or one that
is held (`fcfs.py:93` the one being looked at, `slo_aware.py:97` one accepted
before); a held one is dropped (`Lose`, `slo_aware.py:94`); waiting ones move to
`running` one at a time, in any order and any number of them.  Blocks and prompt
chunks are left out: when a preemption or an end happens is a free choice, and a
step that prefills part of a prompt, which generates nothing, is omitted.

A move from one place to another is one step here, several in the code, and a
count in between misses the sequence.  The bound of `BacklogBounded` does not
change by that.  A sequence on its way to or from `running` has been scheduled and
is not in the backlog.  One that is prefilled in part goes from one place of
`waiting` to the back: it is one at a time, and never while a request is being
handed over, the only other one that a count can miss.

The tokens of a sequence are its identity and their positions, so a skipped,
repeated or misrouted token shows: `Text(s, m, n)` is what `s` generated after its
first `m` tokens, up to the `n`-th.  `NothingSkipped` says of a stream whose end has
not been sent that it can be cut into such texts, each going on where the one
before ended or starting over (`ToldAll`).

**The ranks.**  In `ModelRunner` a rank other than 0 is a process (`Load`,
`WarmUp`, `MeetBarrier`, `PassBarrier`, `OpenShm`, then `ReadShm`, `ClearEvent`,
`QueueRun` round its loop, at last `ExitOnWorker`, `Leave`).  Rank 0 has two
threads: the executor (`BeginRun`, `WriteRun`, `SetForRun` once per event,
`RunOnRankZero`, `QueueRun`, `Collect`) and the one that stops the engine
(`BeginExit`, `WriteExit`, `SetForExit`, `ExitOnRankZero`, `Unlink`, `Join`).  A
collective is an entry in `queued`, and complete when every rank has queued as
many; a worker does not wait for it, rank 0 does, because it reads the tokens.
So a worker may be a call behind.  `graph_vars` are the input buffers that all
captured graphs share, row by row, and `effect` the slots and blocks the last
run of a rank touched.

**Shares of the weights.**  In `WeightSharding` an entry of a parameter is the
place of the checkpoint it was copied from.  `LoadWeight` is a `weight_loader`;
`QueryRow`, `KeyRow`, `KVHeadOf`, `GateRow`, `EmbeddingRows`, `LogitRow` are the
places at which the forward pass reads the parameters.  `Load` of `ModelRunner`
is `LoadWeight` in the order of the files.

Operators named `X_something` next to an operator `X` are deliberately wrong
versions of it, each the way a plausible slip in that code would look.  They
are used by no specification; substituting one for `X` must make TLC find the
property violated that PROJECT.json pairs it with, which shows that the
property does depend on that code.

## 3. What the runs show

| run | instance | shows |
|---|---|---|
| `allocator` | 3 interchangeable sequences, 3 blocks of 2 tokens, length up to 6 | types, accounting, labels, index, promised allocations, stable labels, under every legal order of calls |
| `policies` | the three schedulers of `Schedulers`; 3 requests of 3 kinds in every combination, 3 blocks of 2, batch of 2, 4 tokens a step, chunks of 2 | caches, queues, limits and outputs are right and the allocator is used legally under each; FCFS and decode-first serve in order of arrival, keep the oldest request's blocks, and finish every request |
| `chunked_stuck` | chunked prefill, batch of 3, 4 tokens a step | **violation**: the scheduler raises with a runnable sequence in `waiting` |
| `slo_aware` | 3 requests of 4 kinds, 4 blocks of 2, 7 tokens a step, calibration after 2 | caches and tables are right and the allocator is used legally whatever is urgent; no sequence is in two places; calibration stays inside its samples |
| `slo_lost` | same | **violation**: the scheduler looks finished while a request is not |
| `priority` | 3 requests of 3 kinds and 2 priorities, 3 blocks of 2, 2 tokens a step, 1 failed request | no started prompt is overtaken from below; the service is implemented, liveness included, so it never raises with work to do |
| `priority_shifted` | same | **violation**: a request has the priority of an earlier, failed one |
| `recovery` | FCFS, 2 requests of 4 kinds, 3 blocks of 2, 1 failure of the forward pass at any step | no block is lost or given out twice, every accepted request is finished all the same |
| `stale_prefix` | same | **violation**: a request accepted after the failure reads a block nobody computed |
| `serving` | 3 requests of 1, 2 and 1 tokens, queue depth 1, batch of 1, 1 failure, a stop at any moment | routing, completeness and closing of streams, and the bound of the backlog, with failures, lost sequences and clients that leave |
| `sent_twice` | same | **violation**: a token is sent to a client twice |
| `tensor_parallel` | 3 ranks, 12 query and 6 key heads, batches of 4 and of 3 rows on the graph of 4, 2 calls, exit at any moment | the shares combine to the unsplit model, ranks stay in step, the segment is there when opened, a replay is the eager pass, calls and exit return |

**Bounds.** Every engine run has fewer blocks than its requests need together, so
preemption, eviction of labelled blocks and refused allocations happen; two
prompts share a first block and differ in the second, so a prefix hit, a miss
after a hit and a hit on a free block happen; the token budget cuts a prompt;
blocks of two tokens put the boundaries of blocks, chunks and prompts against
each other.  The vocabulary is {0, 1} with 1 the end of sequence, and the model
samples either at every token, so every request may end early.  Three
sequences are needed and enough for "the one that decodes, the one preempted
for it, the one waiting behind".  `MaxLen` bounds the length of a sequence in
`BMToken` and `BMLastToken`; in the engine runs requests end below it, so
nothing is cut there.  `slo_aware` has one block more, because the lost sequence
and the swap need two sequences that lack a block in the same step and one
that does not.  `priority` samples a single token: how outputs end is covered
by the other policies.  `recovery` has two requests, one in a failing batch and
one accepted after it or beside it; its prompts end at the end and inside of a
block, which decides whether a repeated decode takes a second one.  In `policies`
the budget is two chunks, so that one step may visit the same sequence twice.  In
`serving` the bound of `BacklogBounded` is two with three requests, so it can be
exceeded; one request has two tokens, so that a sequence can be preempted after
its first and prefilled again (two tokens for each make the state space ten times
as large); `MaxFailures` and `MaxFailedAdds` bound how often something fails, and
one failure suffices to shift the numbering of requests against sequences, or
priorities against requests.  In `tensor_parallel` three ranks are two workers,
which may be a different number of calls behind; a rank has four query and two
key heads, so that heads, groups and ranks are different units; the second
batch is shorter and narrower than the first, so that rows and columns of it
stay in the buffers; and with `MaxCalls` = 2 rank 0 writes the segment a second
time, and a third for exit.  Section 4 proves the safety ones without bounds.

**Deadlock** is not checked: a run ends when all requests are finished or the
engine has exited, and a legal caller of the allocator may hold a full pool for
good.  That the engine does not stop with work to do is what
`ServedDespiteFailures`, `CallsReturn` and the liveness part of
`ImplementsService` say.  In `serving`
the system may stop because its requests are bounded; `StreamsClose` says that
no client is left waiting, of a server that is not stopped and but for the
sequences `slo_lost` is about: the stream of one of these ends only when 300 s
pass without a token (`Abandon`).

**Fairness.** The policies assume weak fairness of the engine step as a whole:
`generate()` and the loop of `AsyncEngine` call `step()` as long as
`is_finished()` is false, and a step runs without waiting for anybody.  No
fairness is assumed of arrivals, nor of which token is sampled.  From it
follows fairness of each request in `InferenceService`, with no policy
favouring one (`priority` favours, but requests are bounded).  For chunked
prefill and the SLO-aware policy only safety is checked (`KeepsServiceSafe`,
`UsesBlockManager`), because one can get stuck and the other loses requests.
`recovery` assumes the same of the loop with its exception handler
(`LoopGoesOn`), and nothing of failures.  In `serving` the loop is fair as a
whole, since `_engine_loop` never ends and each await returns, and so is each
`Read`, since a handler awaits its queue.  Fairness is strong there because a
request that is being admitted disables both for a moment, again and again; the
event loop of asyncio runs what is ready in the order in which it became ready,
so that others cannot overtake them for ever.  An admission that has begun is
answered (weak fairness of `Answer`); nothing is assumed of new requests, of
clients leaving, of failures or of a stop.  In
`tensor_parallel` each rank, and each of the two threads of rank 0, is weakly
fair: they are processes and threads of their own that only wait for an event
or a collective.  Nothing is assumed of calls, nor that the engine is stopped.

**Assumptions.** `FeasibleAssumption`: each request alone fits the pool, and
`max_tokens` is at least 1.  No code checks either; a request that does not fit
makes `schedule()` raise for ever.  `BlockSizeAssumption`: more than one token
per block (`config.py` asks for multiples of 256).  `ModelAssumption`: the
assertions of the layers, and that query heads come in whole groups.
`CheckpointsAssumption`: the files hold each tensor once.  `BatchesAssumption`:
batches are not empty and not above `max_num_seqs`, and that is at most 512,
up to which graphs are captured.

### Findings

* `chunked_prefill.py:78` -- a sequence prefilled in part is rotated behind a
  sequence that cannot be allocated, while it holds the blocks that one needs.
  The loop breaks at the head, nothing is running, and `schedule()` raises "no
  work available".  The state is unchanged, so it raises at every later step.
* `slo_aware.py:94` -- the second decode loop pops each deferred sequence and
  acts only if it still cannot append.  One that can by now, because an earlier
  iteration preempted another, goes into no list: it keeps its blocks and is
  never scheduled again, and `is_finished()` is true once the others are done.
  Its client waits until the 300 s timeout, and its entry in `_seq_to_request` is
  never removed; `MapHoldsLive` and `StreamsClose` except it by name (`lost`).
* `async_engine.py:95` -- the new tokens of a step are counted against the
  sequences in `running` before it.  A preempted one is in `waiting`; when it is
  prefilled again it is counted from zero and its earlier tokens are sent again.
* `async_engine.py:252` -- after a forward pass that raised, the streams are
  closed but nothing is cancelled in the scheduler.  A sequence whose prefill
  failed stays running with blocks nobody computed, decodes on, and labels the
  first of them once it is full; a later request with that prefix takes it from
  the prefix cache.
* `priority.py:43` -- a request that fails after `set_next_priority` and before
  `add` leaves its priority in the deque; every later request is served with
  the priority of the one before.

Also met while modelling, without a run of its own:

* `stop()` calls `exit` on the model runner while a step may still be running in
  the executor.  Without the condition `~ raced` TLC finds `RanksInStep` and
  `CallsReturn` violated: the segment is overwritten between two events.  Streams
  that are open get no end marker, which `StreamsClose` excepts (`stopped`).
* The captured sizes are 1, 2, 4, 8 and multiples of 16 up to `max_num_seqs`.
  With, say, 20, a batch of 17 finds no graph and `next()` raises
  `StopIteration`; `GraphForEveryBatch` proves for which values that happens.  The
  run `tensor_parallel` has a graph for every batch and does not meet it.
* `chunked_prefill.py:55` and `:58` -- with `len(waiting) + 1` visits a rotated
  sequence comes round again in the same step and is charged two chunks, while
  the comment promises a cap per sequence, and `EveryBatchWithinLimits` counts
  tokens only.  Caches and outputs stay right: the second entry recomputes what the
  first one wrote, and post-processing it twice counts its tokens once
  (`KVMatchesPrefix`, `UsesBlockManager`, `KeepsServiceSafe` in `policies`).
* `api_server.py:209` describes `max_queue_depth` as "Max concurrent requests before
  admission control rejects with 429".  `get_capacity` does not see the sequences
  that `schedule()` holds in locals.  Under the policies that hold `max_num_seqs`
  at most this is an error of one batch; `slo_aware.py:65` takes all of `running`,
  and its prefill loop moves any number of sequences there, so that each time the
  window is met `max_queue_depth` more may be.  What stays bounded is the
  backlog, the requests that were never scheduled (`BacklogBounded`).
* After a failed decode `may_append` adds a second block for the same position;
  the sequence may then need more blocks than the pool has and be preempted by
  itself (`recovery` shows that it is finished all the same).
* `get_capacity()` computes the use of the KV cache, and README.md and CHANGELOG
  name it as part of admission control, but `accepting` uses the depth of the
  queue alone.
* `generate_stream` removes its queue when it ends; a handler that never
  iterates it (the client left before) leaves the queue in the table.  Entries
  of the request tracker are never removed.
* `priority.py:11` says that low-priority sequences are preempted first, but
  line 77 preempts the newest; `priority.py:10` speaks of a chunk cap that the
  prefill loop does not apply; `slo_aware.py` never reads `max_num_seqs`;
  `docs/chunked_prefill_design.md` describes trying decode before prefill, the
  code does the opposite and its comment says so.

## 4. What is proved

### The allocator

`BlockManagerProofs` proves, for every pool, every block size above one, every
vocabulary, set of prompts and finite set of sequences:

| theorem | statement |
|---|---|
| `Invariance` | `BMSpec => []BMInv` |
| `TypeCorrect` | `BMSpec => []BMTypeOK` |
| `AccountingCorrect` | `BMSpec => []BlockAccounting` |
| `SharingCorrect` | `BMSpec => []TablesLabelled` |
| `IndexCorrect` | `BMSpec => []IndexSound` |
| `AllocationCorrect` | `BMSpec => []AllocateFindsBlocks` |
| `LabelsStable` | `BMSpec => HeldLabelsStable` |

The inductive invariant `BMInv` is the conjunction of the first four
properties; none of them is inductive alone.  `allocate` takes the blocks the
index offers, so that a table has no duplicates depends on the soundness of the
index (`CachedIdsProperties`: the labels of two cached blocks differ in
length).  The index stays sound in `hash_blocks` only because blocks being
filled carry no label (`TablesLabelled`), so that no label is overwritten.  A
block being filled has one holder because `allocate` takes it from the free
deque, which is `BlockAccounting`.  And `can_allocate` is sufficient
(`AllocationSufficient`) by counting: cached blocks found in the free deque map
one to one to cached blocks it charged as new.

The argument goes by action.  `TakeFreshSound`, `NewlyFullBlocks`,
`HashBlocksEffect` and `DeallocateEffect` say what a method does;
`LabelledTableStable` says that a sequence a step leaves alone stays labelled;
one lemma per action (`CreateKeeps`, `AllocateKeeps`, `AppendKeeps`,
`ChunkKeeps`, `TokenKeeps`, `LastTokenKeeps`, `ReleaseKeeps`) puts them
together and `NextInv` collects them.  They rest on block arithmetic
(`BlocksForBounds`, `DivUnique`, ...), and on `QueueLemmas`, what removing, splitting,
joining and reversing do to queues without duplicates.  The hypotheses are the
named assumptions of `BlockManager`; `MaxLenAssumption` is not used.

`EngineUsesAllocator`, `PriorityUsesAllocator` and `SLOUsesAllocator` carry the
theorems over to the engine with each of the five policies.

### The engine and its deques

`EngineProofs` proves of `Schedulers`, the engine with any of the three policies
that add little state to `SchedulerCore`, for every pool, set of requests and
limit.  The lemmas about the actions of `SchedulerCore`, one per action and
invariant, are in `SchedulerProofs`, which all five policies use:

| theorem | statement |
|---|---|
| `EngineCorrect` | `SchedulersSpec => []EngineInv /\ [][AllocatorStep]_schedulersVars` |
| `EngineUsesAllocator` | `SchedulersSpec => UsesBlockManager` |
| `RequestsKept` | `SchedulersSpec => []NoRequestLost` |
| `TokensShipped` | `SchedulersSpec => []PrefillShipsTokens` |
| `OrderKept` | `SchedulersSpec => []ServedInOrder` |
| `BatchesWithinLimits` | `SchedulersSpec => []EveryBatchWithinLimits` |
| `OldestKept` | `SchedulersSpec => OldestNeverPreempted` |
| `EngineServes` | `SchedulersSpec => KeepsServiceSafe` |

`EngineInv` adds four parts to the allocator's `BMInv` (`Sound` is what is left of
them when the places are unknown, as under the SLO-aware policy).  `Fields` are the types.
`Places` says in which deque, batch or hand a sequence of each status is.
`BatchPlanned` says whose tokens are scheduled: those of the part of the batch
that `postprocess` has not reached, except that a chunked batch may list a
sequence twice, whose second entry is then empty.  `TablesFit` says how far each
sequence is: a running one has exactly its last token to compute, or in this
step the rest of its prompt; a waiting one has no table or tokens to prefill
into the table it has.  The guards of the calls a legal caller may make
(`BMNext`) follow from it, and they are why `TablesFit` is there: `may_append`
looks at the length modulo the block size, and allocates one block too many or
too few for a sequence that is not exactly one token ahead.  Conversely
`BMInv'` comes from `AllocatorStep` by `NextInv`, so nothing about blocks is
proved twice.  `VisitKeeps` does one visit of a prefill loop for the FCFS and
the chunked loop at once; `PreemptEffect` does `preempt()` for both of its calls.

`EveryBatchWithinLimits` compares two counts: the running total the prefill loop
stops by, and the tokens of the sequences it put into the batch.  `AddsUpTo`
states the sum as running totals along the batch; a new entry extends them by
one (`AppendedAddsUp`).  What is inductive (`LimitInv`) is, for every policy, that
there is room for the one in hand (`BatchRoom`); for FCFS and decode-first also
that what was handed out adds up and that, while budget is left, all in the batch
were given all they needed, so that the loop visits nobody twice (`BatchLimits`,
which rests on `PartialInv` below).  A chunked batch may list a sequence twice,
and no entry exceeds `max_prefill_chunk` (`ChunkLimits`, `ChunksFit`).

`ServedInOrder` needs that the places themselves are ordered (`Ordered`: the
batch, the one in hand, `running`, `waiting`), and that identities are given in
the order of arrival.  `OldestKept` rests on that order, on a count, and on
`PartialInv`: who is preempted for another one is younger; who preempts itself
with no older one left holds all used blocks alone (`Partials`: a waiting
sequence holds blocks only if it was prefilled in part, and FCFS prefills it
before anybody decodes), and a request alone fits the pool (`AloneFits`,
`FeasibleAssumption`).  For `EngineServes` each arrival is `Accept`, each token
appended `Emit`, and everything else is not seen (`Unseen`); it needs besides
that a sequence keeps its prompt (`PromptsKept`), and `EngineInv` to know that a
sequence which takes a token is not finished.

### The engine when steps fail

`EngineProofs` proves of `EngineFailure`, for every pool, set of requests, limit
and number of failures:

| theorem | statement |
|---|---|
| `FailureCorrect` | `FailureSpec => []FailureInv /\ [][PoolStep]_failureVars` |
| `FailureAccounting` | `FailureSpec => []BlockAccounting` |
| `FailureKeepsRequests` | `FailureSpec => []NoRequestLost` |
| `FailureLabelsStable` | `FailureSpec => HeldLabelsStable` |
| `FailureServes` | `FailureSpec => KeepsServiceSafe` |

`EngineInv` does not hold here, and the engine is no legal caller of the
allocator: a batch that was dropped keeps its scheduled tokens, its sequences may
be scheduled again with the same tokens, and a decode that is scheduled again may
take a block more than its tokens need.  What breaks is one thing, that no table
is too long.  So `BlockManagerProofs` splits the allocator's invariant in two,
`BMInv <=> PoolInv /\ NoSpareBlocks` (`BMParts`), and shows that the first part
needs less of the caller (`PoolNext`): `LaxNext` lets `may_append` be called
whenever `can_append` allows it, and `hash_blocks` for any tokens the sequence has
and its table has room for.  A legal call is a lax one (`LegalIsLax`), and both
invariants come from the same lemmas.

`FailureInv` keeps `Placed` and `NoneDropped` of `EngineInv`, replaces `TablesFit`
by `TablesCover` (tables are at least as long as the computed and scheduled
tokens need) and `BatchPlanned` by `Planned` (each sequence of the batch is in it
once, holds blocks and has tokens scheduled).  `BatchGone` is the end of a step
whatever ended it, which is why `EndStep`, `ModelFails` and `AssertionFails` are
one case.  `KVMatchesPrefix` is not among the theorems: `stale_prefix` violates
what follows from it.

### The KV cache

`EngineProofs` proves, on top of `EngineInv`:

| theorem | statement |
|---|---|
| `CacheCorrect` | `SchedulersSpec => []CacheInv` |
| `CacheIsolated` | `SchedulersSpec => []KVMatchesPrefix` |
| `EngineTypes` | `SchedulersSpec => []SchedulerTypeOK` |

`KVMatchesPrefix` speaks of sequences, but a prefix hit reads blocks that no
sequence may hold.  `CacheInv` therefore says of every block that carries a
label that its slots hold what the prefix it names produces (`LabelComputed`).
The forward pass keeps this because it writes only to blocks that carry no label
and that nobody else holds (`WritesToOwnBlock`), to a slot for one sequence and
position only (`WrittenOnce`); `hash_blocks` labels only blocks the pass has
filled (`LabelsStay`); and the blocks `allocate` finds in the index are, by
`IndexSound`, labelled with the prefix asked for (`VisitCache`).

### The priority policy

`PriorityProofs` proves of `PrioritySpec`, for every set of requests, number of
priorities and failed requests:

| theorem | statement |
|---|---|
| `PriorityCorrect` | `[]PriorityInv /\ [][AllocatorStep]_priorityVars` |
| `NotOvertaken` | `[]NoOvertaking` |
| `PriorityRequestsKept` | `[]NoRequestLost` |
| `PriorityUsesAllocator` | `UsesBlockManager` |
| `PriorityCacheIsolated`, `PriorityTypes` | `[]KVMatchesPrefix`, `[]SchedulerTypeOK` |
| `PriorityServes` | `KeepsServiceSafe` |

The prefill loop walks a copy of `waiting` sorted once and takes sequences out of
the middle of the deque.  `VisitInv` ties the copy to the deque: what is still to
be visited waits, is in descending order (`Descending`; the sort is stable, so
the classes joined from the highest down are the sorted copy, `SortOfWaiting`)
and is not above the batch, and what waits without being in it or in the batch
was passed over for want of blocks, so holds none.  `NoOvertaking` follows: a
sequence prefilled in part holds blocks, so it was not passed over, and whoever
joined the batch before it is not below it.

### The SLO-aware policy

`SLOProofs` proves of `SLOSpec`, whatever the clock finds urgent:

| theorem | statement |
|---|---|
| `SLOCorrect` | `[]SLOInv /\ [][AllocatorStep]_sloVars` |
| `SLOUsesAllocator` | `UsesBlockManager` |
| `SLOHeldOnce` | `[]HeldOnce` |
| `SLOBatchFits` | `[]BatchFitsTables` |
| `SLOCacheIsolated` | `[]KVMatchesPrefix` |
| `SLOServes` | `KeepsServiceSafe` |
| `SLOCalibration` | `[]CalibrationInRange` |

A sequence this policy loses keeps its blocks, its status and its labels in the
prefix cache, so `Places` is false and nothing may rest on where a sequence is.
`SLOInv` is weaker: `Sound` says what each table has to hold whoever has it;
`QueuesApart`, `ListsApart` and `InHandApart` say only that no sequence is twice
in the deques and lists of `schedule()`; `AcceptedHold` says that, while they are
filled, tokens are scheduled for the accepted sequences, which have blocks, and
perhaps for preempted ones, which have none.  `FreesABlock` is the step a test
would hardly reach: after `preempt(victim)` the code calls `may_append` for
another sequence without asking `can_append` again, and a block is there because
an accepted victim has a block no one else holds, the one of its newest token,
which carries no label.  `SLOServes` is safety alone; the run `slo_lost` shows that
the liveness of the service fails.  `SLOCalibration` needs that every sample of a
time to first token comes with one of an inter-token latency, since
`postprocess` waits for the first and indexes both (`CalibrationInv`).

### The shares of the weights

`ModelRunnerProofs` proves, for every model and number of ranks that
`ModelAssumption` admits, and every order of loading:

| theorem | statement |
|---|---|
| `SharesStayInPlace` | `ShardSpec => []SharesInPlace` |
| `HeadsAreGrouped` | `ShardSpec => []HeadsGrouped` |
| `FeaturesDoMeetColumns` | `ShardSpec => []FeaturesMeetColumns` |
| `VocabularyIsInOrder` | `ShardSpec => []VocabularyInOrder` |

`SharesInPlace` says what each loaded tensor left in its parameter.  It is
inductive because a share lies inside its parameter (`IntoRows`) and the shares
of one parameter are disjoint (`IntoDisjoint`), which is what the offsets of
`qkv_proj` and `gate_up_proj` must give.  The rest is arithmetic on shares: the
rank and the place of a feature by division with remainder (`ShareOfPlace`), and
that the group of a query head lies on one rank because whole groups are dealt
out (`HeadCounts`).

### The ranks

`ModelRunnerProofs` proves, for every number of ranks, of calls, every set of
batches and every order of the files:

| theorem | statement |
|---|---|
| `RunnerTypes` | `RunnerSpec => []RunnerTypeOK` |
| `RunnerLoadsShares` | `RunnerSpec => ShardSpec` |
| `RunnerSharesCombine` | the three properties above hold throughout `RunnerSpec` |
| `SegmentThere` | `RunnerSpec => []OpenedWhileThere` |
| `RanksStayInStep` | `RunnerSpec => []RanksInStep` |
| `ReplaysAreEager` | `GraphsSuffice` implies `RunnerSpec => []ReplayIsEager` |
| `GraphForEveryBatch` | `GraphsSuffice <=>` every batch size has a captured graph |

`GraphsSuffice` is `MaxNumSeqs <= 8 \/ MaxNumSeqs % 16 = 0`, and
`GraphForEveryBatch` shows that nothing weaker will do.

`RanksInStep` compares what two ranks have queued, and is far from inductive.
`Lockstep` says more: the i-th collective of a rank is the one call i - 2 has
(`InOrder`); rank 0 has queued that of its current call or not yet, by its place
(`RankZero`); and a worker is in one of three situations (`Worker`): it has not
been told of the call, it was told and has the event or the call, or it has
queued the call's collective with its event cleared.  A worker that was not told
has the previous collective behind it.  Rank 0 writes the segment only after
`Collect`, when all workers are in the third situation, so nothing unread is
overwritten.  `InStep` restricts this to behaviours without an exit in the
middle of a step.  `Opening`, for the segment, does not need that: it counts the
collectives of the start and of exit only.  `ReplayIsEager` is shown to follow
from any contents of the buffers, which is why nothing about their history is
needed.

### The serving loop

`AsyncEngineProofs` proves, for every number of requests, tokens and failures
and every queue depth and batch size:

| theorem | statement |
|---|---|
| `AsyncTypes` | `AsyncSpec => []AsyncTypeOK` |
| `TokensReachOwner` | `AsyncSpec => []RoutedToOwner` |
| `MapOutlivesNothing` | `AsyncSpec => []MapHoldsLive` |
| `BacklogIsBounded` | `AsyncSpec => []BacklogBounded` |
| `StreamsTell` | `AsyncSpec => []StreamInv` |
| `NoTokenSkipped` | `AsyncSpec => []NothingSkipped` |
| `EndedAreComplete` | `AsyncSpec => []EndedComplete` |

The inductive invariant `AsyncInv` has six parts.  `Typed`.  `Placed`: the deques,
the sequences `schedule()` holds and the lost ones share nothing, which
is what makes preempting, holding and removing keep the others apart, and a
batch is running.  `Numbered`: a request is handed over once, and while
`loop = "added"` the last sequence of `waiting` is the one just made; it is why
looking at the end of the deque after the executor returned finds the right
sequence, and why no two sequences are of one request.  `Mapped`: the table
agrees with where the sequences came from, and its sequences are unfinished (the
lost ones among them) or were just finished.  `Routed`: what is in a queue or was
read is of sequences of that request; in `Dispatch` this needs that the sequence looked up for a request is
the only one, by `Numbered`.  `Admitted`, beside `BacklogBounded`: a sequence that
is running or held was scheduled before, so that preempting it adds nothing to
the backlog; and from `CountQueued` to the answer the backlog exceeds what was
counted by one at most, the request being handed over.  So an admission that saw
less than `max_queue_depth` finds a backlog of that at most, and adds one.  The
number of sequences held plays no part in this.  One lemma per action
(`CountQueuedKeeps` to `StopKeeps`) shows that it keeps all of them.

What a stream tells is a second invariant, `StreamInv`, on top of `AsyncInv`.
`Counted`: while the engine steps, `prev_counts` is what the sequences it lists
have generated, and the result of a step exists only until it is dispatched; so
the new text of a sequence goes on where its count was, or starts at its first
token if it was not listed.  `Followed`: for a sequence in the table, its
stream with what is queued tells its first `n` tokens (`Tells`), and the undelivered
result goes on from `n` (`Due`).  That is exact in every state, also between the
step and `Dispatch`, where a property of the stream alone would say nothing.
`Opened`: a stream that ended is not opened again.  `Completed`: unless the engine
failed, an end mark is the last thing in its queue, and when it is there or was
read, all tokens of the request were told: `Dispatch` looks at the finished
sequences after the new tokens, in two loops.  Moving an element from the queue
to the reader only splits the telling at another place (`ReadTells`).

### Only model-checked

All liveness, which is out of the reach of the prover: `ServedDespiteFailures`,
`CallsReturn`, `StreamsClose`, and the liveness half of `ImplementsService`.

## 5. What is not modelled

* An exception inside one rank only: the others then wait in a collective, and
  the outcome is up to NCCL's time-outs.  A batch that does not fit the
  segment of 2^20 bytes raises in `write_shm` before anything is shared; the
  engine sees it as the failure `EngineFailure` models.
* The sizing of the KV cache from free memory (`allocate_kv_cache`): each rank
  computes it from its own device, and nothing compares the results.
* The metrics collector, which counts and which nothing in the engine reads (its
  snapshot may raise while it iterates the free deque in another thread); the
  request tracker, whose time stamps nothing reads.
* Parameters every rank holds whole (norms), the tying of embeddings to the
  head, and the arithmetic of the layers: attention, rotary embedding, norms,
  activation, sampling (the token is a free choice).
* Wall-clock time: SLO targets and time-outs are free choices.
* The tokenizer, wire formats, logging, progress bars, benchmarks.  Digests are
  modelled without collisions.

## 6. The plan

1. *Done*: `BlockManager`, `AsyncEngine` with `stop()`, `WeightSharding`,
   `ModelRunner` and `Schedulers` with the KV cache, each with proofs;
   `InferenceService`, all five policies and `EngineFailure`.
2. *Done*: the safety of the engine under all five policies, and of the streams.
3. *Done*: the safety of the engine when its steps fail.
4. The metrics snapshot as one more reader of the deques and the free list.
5. A rank that fails while the others go on.
