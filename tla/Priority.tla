------------------------------ MODULE Priority ------------------------------
(***************************************************************************)
(* The priority policy, scheduler/priority.py: running sequences decode as *)
(* in the other policies; when none does, the waiting ones are visited by  *)
(* priority, and one that finds no blocks is passed over.  A priority      *)
(* reaches the scheduler ahead of its request, through a deque of its own. *)
(***************************************************************************)
EXTENDS SchedulerCore

CONSTANTS
  Levels,         (* the priorities clients ask for                        *)
  MaxFailedAdds   (* bound: requests that fail after set_next_priority     *)

LOW == 0
NORMAL == 1
HIGH == 2

ASSUME LevelsAssumption == Levels \subseteq {LOW, NORMAL, HIGH}
ASSUME FailedAddsAssumption == MaxFailedAdds \in Nat

VARIABLES
  asked,              (* the priority a client asked for                   *)
  seq_priority,       (* _seq_priority, NORMAL where there is no entry     *)
  pending_priorities, (* _pending_priorities                               *)
  failed_adds,        (* requests that failed so far                       *)
  to_visit            (* what is left of the sorted copy of waiting        *)

levelVars    == <<asked, seq_priority, pending_priorities, failed_adds>>
priorityVars == <<vars, levelVars, to_visit>>

PriorityInit ==
  /\ CoreInit
  /\ asked = [s \in Seqs |-> NORMAL]
  /\ seq_priority = [s \in Seqs |-> NORMAL]
  /\ pending_priorities = <<>>
  /\ failed_adds = 0
  /\ to_visit = <<>>

(* set_next_priority(p) and add(s): the sequence gets the oldest priority  *)
(* that is pending.                                                        *)
AddWithPriority(s, p) ==
  LET queue == Append(pending_priorities, p)
  IN  /\ AddRequest(s)
      /\ asked' = [asked EXCEPT ![s] = p]
      /\ seq_priority' = [seq_priority EXCEPT ![s] = Head(queue)]
      /\ pending_priorities' = Tail(queue)
      /\ UNCHANGED <<failed_adds, to_visit>>

(* A request whose sequence cannot be made: its priority stays behind.     *)
FailAdd(p) ==
  /\ pc = "idle"
  /\ failed_adds < MaxFailedAdds
  /\ failed_adds' = failed_adds + 1
  /\ pending_priorities' = Append(pending_priorities, p)
  /\ UNCHANGED <<vars, asked, seq_priority, to_visit>>

-----------------------------------------------------------------------------
WaitingAt(p) == Without(waiting, {s \in Seqs : seq_priority[s] # p})

(* Mutant of SortedWaiting: the lowest priority comes first.               *)
SortedWaiting_ascending == WaitingAt(LOW) \o WaitingAt(NORMAL) \o WaitingAt(HIGH)

(* A stable sort: in each priority the order of waiting is kept.           *)
SortedWaiting == WaitingAt(HIGH) \o WaitingAt(NORMAL) \o WaitingAt(LOW)

EndTryDecode ==
  /\ EndDecode("prefill")
  /\ to_visit' = IF scheduled_seqs = <<>> THEN SortedWaiting ELSE <<>>
  /\ UNCHANGED levelVars

MayVisit ==
  /\ to_visit # <<>>
  /\ remaining > 0
  /\ Len(scheduled_seqs) < MaxNumSeqs

(* Mutant of SkipVisit: the first sequence without blocks ends the loop.   *)
SkipVisit_break ==
  /\ pc = "prefill"
  /\ MayVisit
  /\ ~ HasBlocks(Head(to_visit))
  /\ to_visit' = <<>>
  /\ UNCHANGED <<vars, levelVars>>

SkipVisit ==
  /\ pc = "prefill"
  /\ MayVisit
  /\ ~ HasBlocks(Head(to_visit))
  /\ to_visit' = Tail(to_visit)
  /\ UNCHANGED <<vars, levelVars>>

Rotated(s) == Append(Without(waiting, {s}), s)

(* A sequence gets as much of its prompt computed as the budget allows;    *)
(* the cap on a chunk that the chunked-prefill policy has is not applied.  *)
VisitNext ==
  LET s == Head(to_visit)
      chunk == Smaller(num_tokens(s), remaining)
  IN  /\ pc = "prefill"
      /\ MayVisit
      /\ HasBlocks(s)
      /\ AllocateOnFirstVisit(s)
      /\ num_scheduled_tokens' = [num_scheduled_tokens EXCEPT ![s] = chunk]
      /\ is_prefill' = [is_prefill EXCEPT ![s] = TRUE]
      /\ num_batched_tokens' = num_batched_tokens + chunk
      /\ IF chunk = num_tokens(s)
         THEN /\ status' = [status EXCEPT ![s] = "RUNNING"]
              /\ waiting' = Without(waiting, {s})
              /\ running' = Append(running, s)
         ELSE /\ waiting' = Rotated(s)
              /\ UNCHANGED <<status, running>>
      /\ scheduled_seqs' = Append(scheduled_seqs, s)
      /\ to_visit' = Tail(to_visit)
      /\ UNCHANGED <<token_ids, request, pc, batch_is_prefill, cur, processed,
                     kv, levelVars>>

EndVisits ==
  /\ pc = "prefill"
  /\ ~ MayVisit
  /\ pc' = IF scheduled_seqs # <<>> THEN "run" ELSE "raised"
  /\ batch_is_prefill' = TRUE
  /\ to_visit' = <<>>
  /\ UNCHANGED <<bmVars, queueVars, seqVars, kv, scheduled_seqs,
                 num_batched_tokens, cur, processed, levelVars>>

Forgotten(levels) ==
  [s \in Seqs |-> IF s \in Batch /\ status[s] = "FINISHED" THEN NORMAL
                  ELSE levels[s]]

(* postprocess() ends by forgetting the priorities of finished sequences;  *)
(* what was asked for them is of no more interest either.                  *)
EndPriorityStep ==
  /\ EndStep
  /\ seq_priority' = Forgotten(seq_priority)
  /\ asked' = Forgotten(asked)
  /\ UNCHANGED <<pending_priorities, failed_adds, to_visit>>

PriorityStep ==
  \/ (StartStep("decode") \/ DecodePhase) /\ UNCHANGED <<levelVars, to_visit>>
  \/ EndTryDecode
  \/ SkipVisit
  \/ VisitNext
  \/ EndVisits
  \/ (RunModel \/ \E t \in Token : PostprocessOne(t))
       /\ UNCHANGED <<levelVars, to_visit>>
  \/ EndPriorityStep

PriorityNext ==
  \/ \E s \in Seqs, p \in Levels : AddWithPriority(s, p)
  \/ \E p \in Levels : FailAdd(p)
  \/ PriorityStep

PrioritySpec ==
  PriorityInit /\ [][PriorityNext]_priorityVars /\ WF_priorityVars(PriorityStep)

-----------------------------------------------------------------------------
(* A prompt that is prefilled in part is not overtaken by a request of     *)
(* lower priority, neither in the step that cuts it nor in a later one:    *)
(* whoever is left out of a batch below it holds no blocks yet.            *)
NoOvertaking ==
  (pc = "run" /\ batch_is_prefill) =>
    \A s \in Batch, w \in Range(waiting) \ Batch :
      seq_priority[w] > seq_priority[s] => block_table[w] = <<>>

(* "Set priority for the next request to be added" (priority.py:37): a     *)
(* request in the scheduler has the priority its client asked for.         *)
OwnPriority ==
  \A s \in Seqs :
    status[s] \in {"WAITING", "RUNNING"} => seq_priority[s] = asked[s]
=============================================================================
