---------------------------- MODULE ModelRunner -----------------------------
(***************************************************************************)
(* The ranks of a tensor-parallel engine, engine/model_runner.py with the  *)
(* part of llm_engine.py that starts, calls and stops them.  Rank 0 is the *)
(* engine's own process; each other rank is a process in loop().  A call   *)
(* goes through one shared-memory segment and one event per worker, and    *)
(* nothing tells rank 0 that a worker has read it but the collectives of   *)
(* the forward pass itself.                                                *)
(*                                                                         *)
(* Two threads of rank 0 may call: the executor, which runs the steps, and *)
(* the one that stops the engine.  Kernels and collectives are queued on   *)
(* the device: a worker goes on as soon as they are queued, while rank 0   *)
(* waits for the tokens, which need the collectives of all ranks.          *)
(***************************************************************************)
EXTENDS WeightSharding, SequencesExt

CONSTANTS
  Checkpoints,   (* the orders of the tensors in the files                 *)
  MaxNumSeqs,    (* max_num_seqs, so far as graphs are captured for it     *)
  Batches,       (* the blocks that each sequence of a batch reads         *)
  MaxCalls       (* bound: calls of run                                    *)

ASSUME CheckpointsAssumption ==
  \A f \in Checkpoints :
    f \in Seq(Weights) /\ Len(f) = Cardinality(Weights) /\ Range(f) = Weights
ASSUME BatchesAssumption ==
  /\ MaxNumSeqs \in 1 .. 512
  /\ \A b \in Batches : b \in Seq(Nat \ {0}) /\ Len(b) \in 1 .. MaxNumSeqs
ASSUME BoundsAssumption == MaxCalls \in Nat

VARIABLES
  files,      (* the order in which every rank loads                       *)
  pc,         (* the place of a rank; of the executor thread, in rank 0    *)
  stopper,    (* the place of the thread of rank 0 that runs exit()        *)
  to_set,     (* the next event each of those two threads sets             *)
  calls,      (* calls of run so far                                       *)
  linked,     (* the segment exists under its name                         *)
  shm,        (* the call in the segment                                   *)
  event,      (* the event of each worker                                  *)
  call,       (* the call a rank is executing                              *)
  queued,     (* the collectives a rank has queued, in order               *)
  graph_vars, (* a rank's input buffers of the captured graphs, row by row *)
  effect,     (* the last run of a rank: slots written, blocks read        *)
  raced       (* exit() was called in the middle of a step                 *)

shmVars   == <<linked, shm, event, to_set>>
boundVars == <<calls, raced>>
modelVars == <<graph_vars, effect>>
runVars   == <<shardVars, files, pc, stopper, call, queued, shmVars, boundVars,
               modelVars>>

Workers == Ranks \ {0}

NoCall == [method |-> "none"]
Exit   == [method |-> "exit"]
Run(k, is_prefill, b) ==
  [method |-> "run", id |-> k, is_prefill |-> is_prefill, batch |-> b]

(* Row i of call k writes a slot and reads the blocks of its table.        *)
Slot(k, i)     == <<k, i>>
Block(k, i, c) == <<k, i, c>>
PAD == Slot(-1, -1)         (* not written by store_kvcache_kernel         *)

(* The columns prepare_block_tables gives a batch, and all there are.      *)
ColumnsOf(b) == UNION {1 .. b[i] : i \in DOMAIN b}
Columns == UNION {ColumnsOf(b) : b \in Batches}

RunnerInit ==
  /\ ShardInit
  /\ files \in Checkpoints
  /\ pc = [r \in Ranks |-> "load"]
  /\ stopper = "no"
  /\ to_set = [thread \in {"executor", "stopper"} |-> 1]
  /\ calls = 0
  /\ linked = FALSE
  /\ shm = NoCall
  /\ event = [w \in Workers |-> FALSE]
  /\ call = [r \in Ranks |-> NoCall]
  /\ queued = [r \in Ranks |-> <<>>]
  /\ graph_vars = [r \in Ranks |-> [i \in 1 .. MaxNumSeqs |->
                     [slot |-> Slot(0, 0), context_len |-> 0,
                      table |-> [c \in Columns |-> Block(0, 0, 0)]]]]
  /\ effect = [r \in Ranks |-> [of |-> NoCall, writes |-> {}, reads |-> {}]]
  /\ raced = FALSE

Goto(r, place) == pc' = [pc EXCEPT ![r] = place]

(* A collective is queued, and complete when all ranks have queued theirs. *)
Queue(r, c) == queued' = [queued EXCEPT ![r] = Append(@, c)]
Complete(r) == \A q \in Ranks : Len(queued[q]) >= Len(queued[r])

-----------------------------------------------------------------------------
(* ModelRunner.__init__: load, warm up, meet at the barrier.               *)
Load(r) ==
  /\ pc[r] = "load"
  /\ loaded[r] # Weights
  /\ LoadWeight(r, files[Cardinality(loaded[r]) + 1])
  /\ UNCHANGED <<files, pc, stopper, call, queued, shmVars, boundVars, modelVars>>

WarmUp(r) ==
  /\ pc[r] = "load"
  /\ loaded[r] = Weights
  /\ Queue(r, <<"warmup", 0>>)
  /\ Goto(r, "warmup")
  /\ UNCHANGED <<shardVars, files, stopper, call, shmVars, boundVars, modelVars>>

(* Rank 0 has waited for the tokens of the warm-up and creates the segment *)
(* before the barrier.                                                     *)
MeetBarrier(r) ==
  /\ pc[r] = "warmup"
  /\ r = 0 => Complete(r)
  /\ linked' = (linked \/ r = 0)
  /\ Queue(r, <<"barrier", 0>>)
  /\ Goto(r, "barrier")
  /\ UNCHANGED <<shardVars, files, stopper, call, shm, event, to_set, boundVars,
                 modelVars>>

(* Mutant of PassBarrier: nobody waits for the others.                     *)
PassBarrier_alone(r) ==
  /\ pc[r] = "barrier"
  /\ Goto(r, IF r = 0 THEN "ready" ELSE "open")
  /\ UNCHANGED <<shardVars, files, stopper, call, queued, shmVars, boundVars,
                 modelVars>>

(* A worker goes on to open the segment, rank 0 to be called.              *)
PassBarrier(r) ==
  /\ pc[r] = "barrier"
  /\ Complete(r)
  /\ Goto(r, IF r = 0 THEN "ready" ELSE "open")
  /\ UNCHANGED <<shardVars, files, stopper, call, queued, shmVars, boundVars,
                 modelVars>>

OpenShm(w) ==
  /\ pc[w] = "open"
  /\ Goto(w, "wait")
  /\ UNCHANGED <<shardVars, files, stopper, call, queued, shmVars, boundVars,
                 modelVars>>

-----------------------------------------------------------------------------
(* write_shm: the call goes into the segment, then the events are set.     *)
Write(c, thread) ==
  /\ shm' = c
  /\ to_set' = [to_set EXCEPT ![thread] = 1]
  /\ UNCHANGED <<linked, event>>

(* Mutant of SetNext: only the first worker is told.                       *)
SetNext_first(thread) ==
  /\ to_set[thread] \in Workers
  /\ event' = [event EXCEPT ![1] = TRUE]
  /\ to_set' = [to_set EXCEPT ![thread] = WorldSize]
  /\ UNCHANGED <<linked, shm>>

SetNext(thread) ==
  /\ to_set[thread] \in Workers
  /\ event' = [event EXCEPT ![to_set[thread]] = TRUE]
  /\ to_set' = [to_set EXCEPT ![thread] = @ + 1]
  /\ UNCHANGED <<linked, shm>>

(* step() in the executor: call("run", seqs, is_prefill).                  *)
BeginRun(is_prefill, b) ==
  /\ pc[0] = "ready"
  /\ stopper = "no"
  /\ calls < MaxCalls
  /\ calls' = calls + 1
  /\ call' = [call EXCEPT ![0] = Run(calls + 1, is_prefill, b)]
  /\ Goto(0, "write")
  /\ UNCHANGED <<shardVars, files, stopper, queued, shmVars, raced, modelVars>>

WriteRun ==
  /\ pc[0] = "write"
  /\ Write(call[0], "executor")
  /\ Goto(0, "set")
  /\ UNCHANGED <<shardVars, files, stopper, call, queued, boundVars, modelVars>>

SetForRun ==
  /\ pc[0] = "set"
  /\ SetNext("executor")
  /\ UNCHANGED <<shardVars, files, pc, stopper, call, queued, boundVars, modelVars>>

RunOnRankZero ==
  /\ pc[0] = "set"
  /\ to_set["executor"] \notin Workers
  /\ Goto(0, "run")
  /\ UNCHANGED <<shardVars, files, stopper, call, queued, shmVars, boundVars, modelVars>>

(* Mutant of ReadShm: the event is not waited for.                         *)
ReadShm_at_once(w) ==
  /\ pc[w] = "wait"
  /\ call' = [call EXCEPT ![w] = shm]
  /\ Goto(w, "clear")
  /\ UNCHANGED <<shardVars, files, stopper, queued, shmVars, boundVars, modelVars>>

(* read_shm: wait for the event, read, clear the event.                    *)
ReadShm(w) ==
  /\ pc[w] = "wait"
  /\ event[w]
  /\ call' = [call EXCEPT ![w] = shm]
  /\ Goto(w, "clear")
  /\ UNCHANGED <<shardVars, files, stopper, queued, shmVars, boundVars, modelVars>>

ClearEvent(w) ==
  /\ pc[w] = "clear"
  /\ event' = [event EXCEPT ![w] = FALSE]
  /\ Goto(w, call[w].method)
  /\ UNCHANGED <<shardVars, files, stopper, call, queued, linked, shm, to_set,
                 boundVars, modelVars>>

-----------------------------------------------------------------------------
(* run: a prefill runs the layers as they are; a decode replays the        *)
(* smallest captured graph that has a row for every sequence.              *)
graph_bs == {1, 2, 4, 8} \cup {16 * i : i \in 1 .. MaxNumSeqs \div 16}
GraphFor(n) ==
  CHOOSE x \in graph_bs : x >= n /\ \A y \in graph_bs : y >= n => x <= y

(* A graph is captured on the rows the buffers have.                       *)
GraphRows(n) == (1 .. GraphFor(n)) \cap (1 .. MaxNumSeqs)

(* Mutant of Buffers: the slots of an earlier batch are not erased.        *)
Buffers_unfilled(g, k, b) ==
  [i \in 1 .. MaxNumSeqs |->
     IF i > Len(b) THEN [g[i] EXCEPT !.context_len = 0]
     ELSE [slot |-> Slot(k, i), context_len |-> b[i],
           table |-> [c \in Columns |-> IF c <= b[i] THEN Block(k, i, c) ELSE PAD]]]

(* The slots are filled with -1 and the lengths with 0 before the batch is *)
(* copied in; of the tables only the columns the batch has are overwritten.*)
Buffers(g, k, b) ==
  [i \in 1 .. MaxNumSeqs |->
     [slot        |-> IF i <= Len(b) THEN Slot(k, i) ELSE PAD,
      context_len |-> IF i <= Len(b) THEN b[i] ELSE 0,
      table       |-> [c \in Columns |->
                         IF i > Len(b) \/ c \notin ColumnsOf(b) THEN g[i].table[c]
                         ELSE IF c <= b[i] THEN Block(k, i, c) ELSE PAD]]]

Eager(c) ==
  [of     |-> c,
   writes |-> {Slot(c.id, i) : i \in DOMAIN c.batch},
   reads  |-> UNION {{Block(c.id, i, j) : j \in 1 .. c.batch[i]} : i \in DOMAIN c.batch}]

Replay(c, g) ==
  [of     |-> c,
   writes |-> {g[i].slot : i \in GraphRows(Len(c.batch))} \ {PAD},
   reads  |-> UNION {{g[i].table[j] : j \in 1 .. g[i].context_len} :
                       i \in GraphRows(Len(c.batch))}]

(* The kernels of run are queued, its collectives among them.  A worker    *)
(* goes back to its loop, rank 0 waits for the tokens.                     *)
QueueRun(r) ==
  LET c == call[r]
      g == Buffers(graph_vars[r], c.id, c.batch)
  IN  /\ pc[r] = "run"
      /\ Queue(r, <<"run", c.id>>)
      /\ IF c.is_prefill
         THEN effect' = [effect EXCEPT ![r] = Eager(c)] /\ UNCHANGED graph_vars
         ELSE /\ graph_vars' = [graph_vars EXCEPT ![r] = g]
              /\ effect' = [effect EXCEPT ![r] = Replay(c, g)]
      /\ Goto(r, IF r = 0 THEN "collect" ELSE "wait")
      /\ UNCHANGED <<shardVars, files, stopper, call, shmVars, boundVars>>

(* Mutant of Collect: rank 0 does not wait for the other ranks.            *)
Collect_at_once ==
  /\ pc[0] = "collect"
  /\ Goto(0, "ready")
  /\ UNCHANGED <<shardVars, files, stopper, call, queued, shmVars, boundVars, modelVars>>

(* tolist(): the tokens are there when every rank's collectives are.       *)
Collect ==
  /\ pc[0] = "collect"
  /\ Complete(0)
  /\ Goto(0, "ready")
  /\ UNCHANGED <<shardVars, files, stopper, call, queued, shmVars, boundVars, modelVars>>

-----------------------------------------------------------------------------
(* AsyncEngine.stop() and LLMEngine.exit: no further step is begun, but    *)
(* one may be running.                                                     *)
BeginExit ==
  /\ stopper = "no"
  /\ pc[0] \notin {"load", "warmup", "barrier"}
  /\ stopper' = "write"
  /\ raced' = (pc[0] # "ready")
  /\ UNCHANGED <<shardVars, files, pc, call, queued, shmVars, calls, modelVars>>

WriteExit ==
  /\ stopper = "write"
  /\ Write(Exit, "stopper")
  /\ stopper' = "set"
  /\ UNCHANGED <<shardVars, files, pc, call, queued, boundVars, modelVars>>

SetForExit ==
  /\ stopper = "set"
  /\ SetNext("stopper")
  /\ UNCHANGED <<shardVars, files, pc, stopper, call, queued, boundVars, modelVars>>

(* exit(): close the segment, meet the workers at the barrier, unlink it.  *)
ExitOnRankZero ==
  /\ stopper = "set"
  /\ to_set["stopper"] \notin Workers
  /\ stopper' = "barrier"
  /\ Queue(0, <<"exit", 0>>)
  /\ UNCHANGED <<shardVars, files, pc, call, shmVars, boundVars, modelVars>>

Unlink ==
  /\ stopper = "barrier"
  /\ Complete(0)
  /\ stopper' = "join"
  /\ linked' = FALSE
  /\ UNCHANGED <<shardVars, files, pc, call, queued, shm, event, to_set, boundVars,
                 modelVars>>

Join ==
  /\ stopper = "join"
  /\ \A w \in Workers : pc[w] = "gone"
  /\ stopper' = "done"
  /\ UNCHANGED <<shardVars, files, pc, call, queued, shmVars, boundVars, modelVars>>

ExitOnWorker(w) ==
  /\ pc[w] = "exit"
  /\ Queue(w, <<"exit", 0>>)
  /\ Goto(w, "leave")
  /\ UNCHANGED <<shardVars, files, stopper, call, shmVars, boundVars, modelVars>>

Leave(w) ==
  /\ pc[w] = "leave"
  /\ Complete(w)
  /\ Goto(w, "gone")
  /\ UNCHANGED <<shardVars, files, stopper, call, queued, shmVars, boundVars, modelVars>>

-----------------------------------------------------------------------------
RankStep(r) == Load(r) \/ WarmUp(r) \/ MeetBarrier(r) \/ PassBarrier(r) \/ QueueRun(r)
WorkerStep(w) == OpenShm(w) \/ ReadShm(w) \/ ClearEvent(w) \/ ExitOnWorker(w) \/ Leave(w)
ExecutorStep == WriteRun \/ SetForRun \/ RunOnRankZero \/ Collect
StopperStep == WriteExit \/ SetForExit \/ ExitOnRankZero \/ Unlink \/ Join

RunnerNext ==
  \/ \E r \in Ranks : RankStep(r)
  \/ \E w \in Workers : WorkerStep(w)
  \/ \E is_prefill \in BOOLEAN, b \in Batches : BeginRun(is_prefill, b)
  \/ ExecutorStep
  \/ BeginExit
  \/ StopperStep

(* Every process and thread goes on; calls and the end are up to others.   *)
RunnerSpec ==
  /\ RunnerInit
  /\ [][RunnerNext]_runVars
  /\ \A r \in Ranks : WF_runVars(RankStep(r))
  /\ \A w \in Workers : WF_runVars(WorkerStep(w))
  /\ WF_runVars(ExecutorStep)
  /\ WF_runVars(StopperStep)

-----------------------------------------------------------------------------
(* The variables have their types.                                         *)
RunnerTypeOK ==
  /\ \A r \in Ranks : loaded[r] \subseteq Weights
  /\ pc \in [Ranks -> {"load", "warmup", "barrier", "open", "ready", "write", "set",
                       "run", "collect", "wait", "clear", "exit", "leave", "gone"}]
  /\ stopper \in {"no", "write", "set", "barrier", "join", "done"}
  /\ event \in [Workers -> BOOLEAN]
  /\ \A r \in Ranks : call[r].method \in {"none", "run", "exit"}
  /\ to_set \in [{"executor", "stopper"} -> 1 .. WorldSize]

(* The ranks combine their parts of the same call: collectives are matched *)
(* by their order alone, so no rank may ever skip a call, run one twice or *)
(* out of order, although the one segment is overwritten without asking.   *)
(* Nothing guards a step against exit(), and nothing is promised for it.   *)
RanksInStep ==
  ~ raced =>
    \A r, q \in Ranks : \A i \in DOMAIN queued[r] \cap DOMAIN queued[q] :
      queued[r][i] = queued[q][i]

(* A worker opens the segment after it is created and before it is gone.   *)
OpenedWhileThere == \A w \in Workers : pc[w] = "open" => linked

(* On every rank, a replayed graph writes the slots and reads the blocks   *)
(* of its batch and no others, whatever batches went through its buffers   *)
(* before, and whatever rows pad it.                                       *)
ReplayIsEager ==
  \A r \in Ranks : effect[r].of # NoCall => effect[r] = Eager(effect[r].of)

(* A step gets its tokens, and exit() between steps ends every process.    *)
CallsReturn ==
  /\ pc[0] = "write" ~> (pc[0] = "ready" \/ raced)
  /\ stopper = "write" ~> (stopper = "done" \/ raced)
=============================================================================
