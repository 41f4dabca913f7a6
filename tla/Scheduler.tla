----------------------------- MODULE Scheduler ------------------------------
(***************************************************************************)
(* vllm/core/scheduler.py over the block manager, and the part of          *)
(* LLMEngine.step that feeds it: requests are added and aborted between    *)
(* steps; a step schedules, executes the model and processes its outputs.  *)
(* schedule() is one call in the code.  Here every iteration of its loops  *)
(* is an action, so that each call of the block manager is one step of     *)
(* BlockManagerV1.                                                         *)
(*                                                                         *)
(* The running and the swapped queue are sorted by arrival time whenever   *)
(* they are read, so they are sets here, and arrivals keeps the order in   *)
(* which the live groups came.  The waiting queue is never sorted.         *)
(***************************************************************************)
EXTENDS BlockManagerV1, SetSums, SequencesExt

CONSTANTS
    Policies,               \* the policies to start the engine with
    MaxNumBatchedTokens,    \* SchedulerConfig.max_num_batched_tokens
    MaxNumSeqs,             \* SchedulerConfig.max_num_seqs
    LoraOf,                 \* SequenceGroup.lora_int_id, 0 for none
    MaxLoras                \* LoRAConfig.max_loras

\* SchedulerConfig._verify_args, and the groups of several sequences modelled.
ASSUME SchedulerAssumption ==
    /\ Policies \subseteq {"default", "chunked"}
    /\ MaxNumSeqs \in Nat \ {0}
    /\ MaxNumBatchedTokens \in Nat /\ MaxNumBatchedTokens >= MaxNumSeqs
    /\ "default" \in Policies => MaxNumBatchedTokens >= MaxModelLen
    /\ LoraOf \in [Groups -> Nat]
    /\ MaxLoras \in Nat /\ (MaxLoras = 0 => \A g \in Groups : LoraOf[g] = 0)
    /\ \A g \in Groups : BestOf[g] > 1 => g \in BeamGroups

VARIABLES
    policy,          \* "chunked" if SchedulerConfig.chunked_prefill_enabled
    pc,              \* where the engine is in its step
    arrivals,        \* the groups in some queue, by metrics.arrival_time
    waiting,         \* Scheduler.waiting
    running,         \* Scheduler.running, in a round what is left of it
    swapped,         \* Scheduler.swapped, in a round what is left of it
    computed,        \* SequenceData._num_computed_tokens
    stage,           \* SequenceData._stage
    batch,           \* the groups scheduled in this round
    preempted,       \* SchedulerRunningOutputs.preempted
    swappedOut,      \* SchedulerRunningOutputs.swapped_out
    leftover,        \* leftover_waiting_sequences or leftover_swapped
    tokenBudget,     \* tokens a group has in the SchedulingBudget
    seqBudget,       \* sequences a group has in the SchedulingBudget
    currLoras        \* curr_loras

progress == <<computed, stage>>
queueVars == <<arrivals, waiting, running, swapped>>
resultVars == <<batch, preempted, swappedOut, leftover>>
budgetVars == <<tokenBudget, seqBudget, currLoras>>
roundVars == <<resultVars, budgetVars>>
schedulerVars == <<vars, policy, pc, queueVars, progress, roundVars>>

Phases == {"idle", "prefills", "running", "current", "swapped", "end", "queues",
           "execute", "outputs", "forks", "trim"}
Failures == {"AssertionError", "KeyError"}

At(phase) == Alive /\ pc = phase
ChunkedPrefill == policy = "chunked"
-----------------------------------------------------------------------------
(***************************************************************************)
(* Queues and budget                                                       *)
(***************************************************************************)
Rank(g) == CHOOSE i \in DOMAIN arrivals : arrivals[i] = g

\* FCFS.sort_by_priority: the first and the last of a sorted queue.
Oldest(Q) == CHOOSE g \in Q : \A h \in Q : Rank(g) <= Rank(h)
Youngest(Q) == CHOOSE g \in Q : \A h \in Q : Rank(g) >= Rank(h)

Nothing == [g \in Groups |-> 0]
Total(budget) == SumOver(budget, Groups)

\* One sequence more than the budget has.
BugFits(g, n) ==
    /\ n # 0
    /\ Total(tokenBudget) + n <= MaxNumBatchedTokens
    /\ Total(seqBudget) + MaxNumRunningSeqs(g) <= MaxNumSeqs + 1

\* SchedulingBudget.can_schedule, and the test for 0 before it.
Fits(g, n) ==
    /\ n # 0
    /\ Total(tokenBudget) + n <= MaxNumBatchedTokens
    /\ Total(seqBudget) + MaxNumRunningSeqs(g) <= MaxNumSeqs

\* SchedulingBudget.add_* ignores a group that is counted already.
Count(budget, g, n) == [budget EXCEPT ![g] = IF @ = 0 THEN n ELSE @]

LoraFull(g) == /\ LoraOf[g] > 0 /\ LoraOf[g] \notin currLoras
               /\ Cardinality(currLoras) >= MaxLoras
AddLora(g) == currLoras' = currLoras \cup ({LoraOf[g]} \ {0})

\* Scheduler._get_num_new_tokens.
NewTokens(g, st) == SumOver([s \in Seqs |-> len[s] - computed[s]], SeqsWith(g, st))
ChunkedNewTokens(g, st) ==
    IF ChunkedPrefill /\ Cardinality(SeqsWith(g, st)) = 1
    THEN MinOf(NewTokens(g, st), MaxNumBatchedTokens - Total(tokenBudget))
    ELSE NewTokens(g, st)

PromptLimit == IF ChunkedPrefill THEN MaxModelLen
               ELSE MinOf(MaxModelLen, MaxNumBatchedTokens)

\* An assertion or a lookup of the scheduler fails: the engine stops.
Fail(e) == pc' = e /\ UNCHANGED <<vars, queueVars, progress, roundVars>>

\* SequenceData.reset_state_for_recompute, and the state of a new sequence.
StartAgain(S) ==
    /\ computed' = [s \in Seqs |-> IF s \in S THEN 0 ELSE computed[s]]
    /\ stage' = [s \in Seqs |-> IF s \in S THEN "PREFILL" ELSE stage[s]]

\* A queue without the groups that are not in Q.
Keep(queue, Q) ==
    LET kept[i \in 0..Len(queue)] ==
            IF i = 0 THEN << >>
            ELSE IF queue[i] \in Q THEN Append(kept[i - 1], queue[i])
            ELSE kept[i - 1]
    IN  kept[Len(queue)]
Forget(g) == arrivals' = Keep(arrivals, Groups \ {g})
-----------------------------------------------------------------------------
(***************************************************************************)
(* Between two steps                                                       *)
(***************************************************************************)

\* LLMEngine.add_request.
AddGroup(g) ==
    /\ At("idle")
    /\ g \notin Range(arrivals)
    /\ AddRequest(g)
    /\ arrivals' = Append(arrivals, g)
    /\ waiting' = Append(waiting, g)
    /\ StartAgain({s \in Seqs : GroupOf[s] = g})
    /\ UNCHANGED <<pc, running, swapped, roundVars>>

\* The swapped queue is not searched.
BugAbortGroup(g) ==
    /\ At("idle")
    /\ g \in Range(arrivals)
    /\ Abort(g)
    /\ Forget(g)
    /\ waiting' = Keep(waiting, Groups \ {g})
    /\ running' = running \ {g}
    /\ UNCHANGED <<pc, swapped, progress, roundVars>>

\* abort_seq_group.
AbortGroup(g) ==
    /\ At("idle")
    /\ g \in Range(arrivals)
    /\ Abort(g)
    /\ Forget(g)
    /\ waiting' = Keep(waiting, Groups \ {g})
    /\ running' = running \ {g}
    /\ swapped' = swapped \ {g}
    /\ UNCHANGED <<pc, progress, roundVars>>
-----------------------------------------------------------------------------
(***************************************************************************)
(* schedule()                                                              *)
(***************************************************************************)

\* _schedule_default counts the running groups first and admits prompts first,
\* unless a group is swapped out; _schedule_chunked_prefill starts from nothing.
StartSchedule ==
    /\ At("idle") /\ arrivals # << >>
    /\ IF ChunkedPrefill
       THEN /\ pc' = "running"
            /\ UNCHANGED <<seqBudget, currLoras>>
       ELSE /\ pc' = IF swapped = {} THEN "prefills" ELSE "running"
            /\ seqBudget' = [g \in Groups |-> IF g \in running THEN MaxNumRunningSeqs(g)
                                              ELSE 0]
            /\ currLoras' = IF MaxLoras > 0 THEN {LoraOf[g] : g \in running} ELSE {}
    /\ UNCHANGED <<vars, queueVars, progress, resultVars, tokenBudget>>

\* _schedule_prefills, on the first group of the waiting queue.
Prompt == CHOOSE s \in SeqsWith(Head(waiting), "WAITING") : TRUE
PromptTokens == ChunkedNewTokens(Head(waiting), "WAITING")
\* A prompt that no free block is enough for waits.
BugNeverFits == PromptTokens > PromptLimit

NeverFits == PromptTokens > PromptLimit \/ CanAllocate(Head(waiting), Prompt) = "NEVER"
FitsNow == ~NeverFits /\ CanAllocate(Head(waiting), Prompt) = "OK"
Prefilling == At("prefills") /\ waiting # << >>

IgnorePrompt ==
    /\ Prefilling /\ NeverFits
    /\ Finish({Prompt})
    /\ waiting' = Tail(waiting)
    /\ Forget(Head(waiting))
    /\ UNCHANGED <<pc, running, swapped, progress, roundVars>>

SkipPrompt ==
    /\ Prefilling /\ FitsNow /\ LoraFull(Head(waiting))
    /\ waiting' = Tail(waiting)
    /\ leftover' = Append(leftover, Head(waiting))
    /\ UNCHANGED <<vars, pc, arrivals, running, swapped, progress, batch, preempted,
                   swappedOut, budgetVars>>

AdmitPrompt ==
    LET g == Head(waiting) IN
    /\ Prefilling /\ FitsNow /\ ~LoraFull(g)
    /\ Fits(g, PromptTokens)
    /\ Allocate(g)
    /\ waiting' = Tail(waiting)
    /\ batch' = batch \cup {g}
    /\ tokenBudget' = Count(tokenBudget, g, PromptTokens)
    /\ seqBudget' = Count(seqBudget, g, MaxNumRunningSeqs(g))
    /\ AddLora(g)
    /\ UNCHANGED <<pc, arrivals, running, swapped, progress, preempted, swappedOut, leftover>>

\* The prompts admitted do not keep the running groups out of the batch.
BugEndPrefills ==
    /\ At("prefills")
    /\ \/ waiting = << >>
       \/ /\ waiting # << >> /\ ~NeverFits
          /\ FitsNow => ~LoraFull(Head(waiting)) /\ ~Fits(Head(waiting), PromptTokens)
    /\ waiting' = leftover \o waiting
    /\ leftover' = << >>
    /\ pc' = IF ChunkedPrefill THEN "end" ELSE "running"
    /\ UNCHANGED <<vars, arrivals, running, swapped, progress, batch, preempted, swappedOut,
                   budgetVars>>

EndPrefills ==
    /\ At("prefills")
    /\ \/ waiting = << >>
       \/ /\ waiting # << >> /\ ~NeverFits
          /\ FitsNow => ~LoraFull(Head(waiting)) /\ ~Fits(Head(waiting), PromptTokens)
    /\ waiting' = leftover \o waiting
    /\ leftover' = << >>
    /\ pc' = IF ChunkedPrefill \/ batch # {} THEN "end" ELSE "running"
    /\ UNCHANGED <<vars, arrivals, running, swapped, progress, batch, preempted, swappedOut,
                   budgetVars>>

\* _schedule_running, on the oldest running group.
Current == Oldest(running)
CurrentTokens == ChunkedNewTokens(Current, "RUNNING")
Unslotted(g) == SeqsWith(g, "RUNNING") \ scheduled
Decoding == At("current")

\* assert num_running_tokens != 0
TakeCurrent ==
    /\ At("running") /\ running # {}
    /\ pc' = IF CurrentTokens = 0 THEN "AssertionError" ELSE "current"
    /\ UNCHANGED <<vars, queueVars, progress, roundVars>>

AppendSlotsOfCurrent(s) ==
    /\ Decoding /\ s \in Unslotted(Current)
    /\ AppendSlots(s)
    /\ UNCHANGED <<pc, queueVars, progress, roundVars>>

CurrentIsScheduled ==
    /\ Decoding /\ Unslotted(Current) = {}
    /\ pc' = "running"
    /\ running' = running \ {Current}
    /\ batch' = batch \cup {Current}
    /\ tokenBudget' = Count(tokenBudget, Current, CurrentTokens)
    /\ seqBudget' = IF ChunkedPrefill
                    THEN Count(seqBudget, Current, MaxNumRunningSeqs(Current))
                    ELSE seqBudget
    /\ AddLora(Current)
    /\ UNCHANGED <<vars, arrivals, waiting, swapped, progress, preempted, swappedOut,
                   leftover>>

\* The wrong end of the queue.
BugVictim == Oldest(running)

\* While there is no room for the current group, the youngest of the groups
\* left gives its blocks up: the last one is the current group itself.
Victim == Youngest(running)
NoRoom == /\ Decoding /\ granted = {}
          /\ Unslotted(Current) # {} /\ ~CanAppendSlots(SeqsWith(Current, "RUNNING"))
GiveUp ==
    /\ running' = running \ {Victim}
    /\ pc' = IF Victim = Current THEN "running" ELSE "current"
    /\ tokenBudget' = [tokenBudget EXCEPT ![Current] = 0]
    /\ seqBudget' = [seqBudget EXCEPT ![Current] = 0]
    /\ currLoras' = currLoras \ ({LoraOf[Current]} \ {0})

\* curr_loras.remove(seq_group.lora_int_id)
LoraIsGone == LoraOf[Current] > 0 /\ LoraOf[Current] \notin currLoras
LoraKeyError ==
    /\ NoRoom /\ LoraIsGone
    /\ Fail("KeyError")

\* The state of the sequence is not reset.
BugRecomputeYoungest ==
    /\ NoRoom /\ ~LoraIsGone
    /\ PreemptByRecompute(Victim)
    /\ GiveUp
    /\ preempted' = Append(preempted, Victim)
    /\ UNCHANGED <<arrivals, waiting, swapped, progress, batch, swappedOut, leftover>>

RecomputeYoungest ==
    /\ NoRoom /\ ~LoraIsGone
    /\ PreemptByRecompute(Victim)
    /\ GiveUp
    /\ preempted' = Append(preempted, Victim)
    /\ StartAgain(SeqsWith(Victim, "RUNNING"))
    /\ UNCHANGED <<arrivals, waiting, swapped, batch, swappedOut, leftover>>

SwapOutYoungest ==
    /\ NoRoom /\ ~LoraIsGone
    /\ PreemptBySwap(Victim)
    /\ GiveUp
    /\ swappedOut' = swappedOut \cup {Victim}
    /\ UNCHANGED <<arrivals, waiting, swapped, progress, batch, preempted, leftover>>

EndRunning ==
    /\ At("running") /\ running = {}
    /\ pc' = IF preempted = << >> /\ swappedOut = {} THEN "swapped"
             ELSE IF ChunkedPrefill THEN "prefills" ELSE "end"
    /\ UNCHANGED <<vars, queueVars, progress, roundVars>>

\* _schedule_swapped, on the oldest swapped group.
Returning == Oldest(swapped)
Swapping == At("swapped") /\ swapped # {}
ComesBack == SeqsWith(Returning, "SWAPPED") = {}

SkipSwapped ==
    /\ Swapping /\ ~ComesBack /\ CanSwapIn(Returning) /\ LoraFull(Returning)
    /\ swapped' = swapped \ {Returning}
    /\ leftover' = Append(leftover, Returning)
    /\ UNCHANGED <<vars, pc, arrivals, waiting, running, progress, batch, preempted,
                   swappedOut, budgetVars>>

SwapInOldest ==
    LET n == NewTokens(Returning, "SWAPPED") IN
    /\ Swapping /\ ~ComesBack /\ ~LoraFull(Returning)
    /\ Fits(Returning, n)
    /\ SwapIn(Returning)
    /\ tokenBudget' = Count(tokenBudget, Returning, n)
    /\ seqBudget' = Count(seqBudget, Returning, MaxNumRunningSeqs(Returning))
    /\ AddLora(Returning)
    /\ UNCHANGED <<pc, queueVars, progress, resultVars>>

AppendSlotsOfReturning(s) ==
    /\ Swapping /\ ComesBack /\ s \in Unslotted(Returning)
    /\ AppendSlots(s)
    /\ UNCHANGED <<pc, queueVars, progress, roundVars>>

\* assert num_new_tokens == 1, if the group is past its prompt.
ReturningHasMoreTokens ==
    /\ Swapping /\ ComesBack /\ Unslotted(Returning) = {}
    /\ Cardinality(SeqsWith(Returning, "RUNNING")) > 1
    /\ Fail("AssertionError")

ReturningIsScheduled ==
    /\ Swapping /\ ComesBack /\ Unslotted(Returning) = {}
    /\ Cardinality(SeqsWith(Returning, "RUNNING")) = 1
    /\ swapped' = swapped \ {Returning}
    /\ batch' = batch \cup {Returning}
    /\ UNCHANGED <<vars, pc, arrivals, waiting, running, progress, preempted, swappedOut,
                   leftover, budgetVars>>

EndSwapped ==
    /\ At("swapped")
    /\ \/ swapped = {}
       \/ /\ swapped # {} /\ ~ComesBack
          /\ \/ ~CanSwapIn(Returning)
             \/ ~LoraFull(Returning) /\ ~Fits(Returning, NewTokens(Returning, "SWAPPED"))
    /\ swapped' = swapped \cup Range(leftover)
    /\ leftover' = << >>
    /\ pc' = IF ChunkedPrefill THEN "prefills" ELSE "end"
    /\ UNCHANGED <<vars, arrivals, waiting, running, progress, batch, preempted, swappedOut,
                   budgetVars>>

\* The queues after a round.
OverBudget == Total(tokenBudget) > MaxNumBatchedTokens \/ Total(seqBudget) > MaxNumSeqs

\* ScheduledSequenceGroup.token_chunk_size.  Decodes of several sequences are
\* not capped by what remains of the budget: it may be negative after them.  A
\* prompt is then given a chunk of negative size; a single decode runs its one
\* token all the same, and only its share of the budget is negative.
Chunk(s) == IF stage[s] = "PREFILL" THEN tokenBudget[GroupOf[s]] ELSE 1
NegativeChunk == \E s \in scheduled : Chunk(s) < 0

\* assert budget.num_batched_tokens <= ... and budget.num_curr_seqs <= ...
\* A prompt's negative chunk passes these, but the model runner has no input
\* for it; a decode's negative share goes unnoticed.
CheckBudget ==
    /\ At("end")
    /\ pc' = IF OverBudget \/ NegativeChunk THEN "AssertionError" ELSE "queues"
    /\ UNCHANGED <<vars, queueVars, progress, roundVars>>

\* The groups preempted go to the end of the waiting queue.
BugEndSchedule ==
    /\ At("queues")
    /\ pc' = "execute"
    /\ waiting' = waiting \o preempted
    /\ running' = running \cup batch
    /\ swapped' = swapped \cup swappedOut
    /\ preempted' = << >> /\ swappedOut' = {}
    /\ seqBudget' = Nothing /\ currLoras' = {}
    /\ UNCHANGED <<vars, arrivals, progress, batch, leftover, tokenBudget>>

EndSchedule ==
    /\ At("queues")
    /\ pc' = "execute"
    /\ waiting' = Reverse(preempted) \o waiting
    /\ running' = running \cup batch
    /\ swapped' = swapped \cup swappedOut
    /\ preempted' = << >> /\ swappedOut' = {}
    /\ seqBudget' = Nothing /\ currLoras' = {}
    /\ UNCHANGED <<vars, arrivals, progress, batch, leftover, tokenBudget>>
-----------------------------------------------------------------------------
(***************************************************************************)
(* LLMEngine._process_model_outputs and the single step output processor   *)
(***************************************************************************)

\* The size of a chunk is ignored.
BugExecute ==
    /\ At("execute")
    /\ pc' = "outputs"
    /\ computed' = [s \in Seqs |-> IF s \in scheduled THEN len[s] ELSE computed[s]]
    /\ stage' = [s \in Seqs |-> IF s \in scheduled THEN "DECODE" ELSE stage[s]]
    /\ tokenBudget' = Nothing
    /\ UNCHANGED <<vars, queueVars, resultVars, seqBudget, currLoras>>

\* SequenceGroup.update_num_computed_tokens, with the chunk of a prefill or 1.
Execute ==
    /\ At("execute")
    /\ pc' = "outputs"
    /\ computed' = [s \in Seqs |-> computed[s] + IF s \in scheduled THEN Chunk(s) ELSE 0]
    /\ stage' = [s \in Seqs |-> IF s \in scheduled /\ computed'[s] = len[s] THEN "DECODE"
                                ELSE stage[s]]
    /\ tokenBudget' = Nothing
    /\ UNCHANGED <<vars, queueVars, resultVars, seqBudget, currLoras>>

\* A chunk that does not reach the end of the prompt samples nothing.
EndChunk(s) ==
    /\ At("outputs") /\ computed[s] < len[s]
    /\ SkipSample(s)
    /\ UNCHANGED <<pc, queueVars, progress, roundVars>>

Continue(s) ==
    /\ At("outputs") /\ computed[s] = len[s]
    /\ AppendToken(s)
    /\ UNCHANGED <<pc, queueVars, progress, roundVars>>

\* No sample continues s, so one continues another sequence of the group.
DropParent(s) ==
    /\ At("outputs") /\ s \in scheduled /\ computed[s] = len[s]
    /\ SeqsWith(GroupOf[s], "RUNNING") # {s}
    /\ RemoveSeq(s)
    /\ StartAgain({s})
    /\ UNCHANGED <<pc, queueVars, roundVars>>

EndOutputs ==
    /\ At("outputs") /\ scheduled = {}
    /\ pc' = "forks"
    /\ UNCHANGED <<vars, queueVars, progress, roundVars>>

ForkChild(p, c) ==
    /\ At("forks")
    /\ Fork(p, c)
    /\ computed' = [computed EXCEPT ![c] = computed[p]]
    /\ stage' = [stage EXCEPT ![c] = stage[p]]
    /\ UNCHANGED <<pc, queueVars, roundVars>>

EndForks ==
    /\ At("forks")
    /\ pc' = "trim"
    /\ UNCHANGED <<vars, queueVars, progress, roundVars>>

StopSeq(s) ==
    /\ At("trim")
    /\ Stop(s)
    /\ UNCHANGED <<pc, queueVars, progress, roundVars>>

\* Beam search keeps best_of finished sequences, and best_of running ones or,
\* once it stops, none.
DropUnselected(s) ==
    /\ At("trim") /\ GroupOf[s] \in batch
    /\ \/ Cardinality(SeqsWith(GroupOf[s], "FINISHED")) > BestOf[GroupOf[s]]
       \/ /\ status[s] = "RUNNING"
          /\ \/ Cardinality(SeqsWith(GroupOf[s], "FINISHED")) = BestOf[GroupOf[s]]
             \/ Cardinality(SeqsWith(GroupOf[s], "RUNNING")) > BestOf[GroupOf[s]]
    /\ RemoveSeq(s)
    /\ StartAgain({s})
    /\ UNCHANGED <<pc, queueVars, roundVars>>

\* free_finished_seq_groups.
EndStep ==
    /\ At("trim")
    /\ \A s \in sampled : status[s] = "RUNNING" => ~TooLong(s)
    /\ \A g \in batch : /\ Cardinality(SeqsWith(g, "RUNNING")) <= BestOf[g]
                        /\ Cardinality(SeqsWith(g, "FINISHED")) <= BestOf[g]
    /\ pc' = "idle"
    /\ running' = {g \in running : Unfinished(g) # {}}
    /\ arrivals' = Keep(arrivals, {g \in Groups : Unfinished(g) # {}})
    /\ batch' = {}
    /\ UNCHANGED <<vars, waiting, swapped, progress, preempted, swappedOut, leftover,
                   budgetVars>>
-----------------------------------------------------------------------------
SchedulerInit ==
    /\ Init
    /\ policy \in Policies
    /\ pc = "idle"
    /\ arrivals = << >> /\ waiting = << >> /\ running = {} /\ swapped = {}
    /\ computed = [s \in Seqs |-> 0] /\ stage = [s \in Seqs |-> "PREFILL"]
    /\ batch = {} /\ preempted = << >> /\ swappedOut = {} /\ leftover = << >>
    /\ tokenBudget = Nothing /\ seqBudget = Nothing /\ currLoras = {}

Schedule ==
    \/ StartSchedule
    \/ IgnorePrompt \/ SkipPrompt \/ AdmitPrompt \/ EndPrefills
    \/ TakeCurrent \/ CurrentIsScheduled \/ RecomputeYoungest \/ SwapOutYoungest \/ EndRunning
    \/ SkipSwapped \/ SwapInOldest \/ ReturningIsScheduled \/ EndSwapped
    \/ \E s \in Seqs : AppendSlotsOfCurrent(s) \/ AppendSlotsOfReturning(s)
    \/ CheckBudget \/ EndSchedule

ProcessOutputs ==
    \/ Execute \/ EndOutputs \/ EndForks \/ EndStep
    \/ \E s \in Seqs : \/ EndChunk(s) \/ Continue(s) \/ DropParent(s)
                       \/ StopSeq(s) \/ DropUnselected(s)
                       \/ \E c \in Seqs : ForkChild(s, c)

ScheduleFails == LoraKeyError \/ ReturningHasMoreTokens

\* LLMEngine.step, called as long as there are unfinished requests.
EngineStep == (Schedule \/ ScheduleFails \/ ProcessOutputs) /\ UNCHANGED policy

Client == (\E g \in Groups : AddGroup(g) \/ AbortGroup(g)) /\ UNCHANGED policy

\* An exception or the last request ends the loop of the engine.
Failed == err # "none" \/ pc \in Failures
Stopped == (Failed \/ (At("idle") /\ arrivals = << >>)) /\ UNCHANGED schedulerVars

SchedulerNext == EngineStep \/ Client \/ Stopped

SchedulerSpec == SchedulerInit /\ [][SchedulerNext]_schedulerVars

\* The engine keeps stepping.  Clients need not add or abort anything.
FairSchedulerSpec == SchedulerSpec /\ WF_schedulerVars(EngineStep)
-----------------------------------------------------------------------------
(***************************************************************************)
(* What the scheduler must keep true                                       *)
(***************************************************************************)

\* Every variable has its type.
SchedulerTypeOK ==
    /\ TypeOK
    /\ policy \in Policies
    /\ pc \in Phases \cup Failures
    /\ {arrivals, waiting, preempted, leftover} \subseteq Seq(Groups)
    /\ {running, swapped, batch, swappedOut} \subseteq SUBSET Groups
    /\ computed \in [Seqs -> Nat] /\ stage \in [Seqs -> {"PREFILL", "DECODE"}]
    /\ tokenBudget \in [Groups -> Int] /\ seqBudget \in [Groups -> Nat]
    /\ currLoras \subseteq Nat

\* Between two steps every request is in exactly one queue, and the statuses of
\* its sequences agree with the queue: no preemption, swap, abort or finish
\* loses a request or leaves it behind (schedule, abort_seq_group,
\* free_finished_seq_groups).  A waiting group has one sequence, as
\* _schedule_prefills asserts.
QueuesMatchStatuses ==
    At("idle") =>
        /\ IsInjective(arrivals) /\ IsInjective(waiting)
        /\ Range(arrivals) = {g \in Groups : Unfinished(g) # {}}
        /\ Range(waiting) = {g \in Groups : SeqsWith(g, "WAITING") # {}}
        /\ running = {g \in Groups : SeqsWith(g, "RUNNING") # {}}
        /\ swapped = {g \in Groups : SeqsWith(g, "SWAPPED") # {}}
        /\ Range(waiting) \cap (running \cup swapped) = {} /\ running \cap swapped = {}
        /\ \A g \in Range(waiting) : Cardinality(SeqsWith(g, "WAITING")) = 1

\* No assertion of the scheduler fails, it finds every LoRA it drops, and no
\* call it makes raises.
NoSchedulerError == ~Failed

\* "We don't sort waiting queue because we assume it is sorted."
WaitingIsSorted ==
    pc = "idle" => \A i, j \in DOMAIN waiting : i < j => Rank(waiting[i]) < Rank(waiting[j])

\* No request is computed while an older one waits.
FirstComeFirstServed ==
    pc = "execute" => \A g \in batch, h \in Range(waiting) : Rank(g) < Rank(h)

\* What is marked as computed is in blocks that are still there: a preempted
\* sequence starts again from its first token (reset_state_for_recompute), and
\* a swapped or forked one keeps what it has.
ComputedTokensAreStored ==
    \A s \in Seqs : status[s] # "FINISHED" =>
        computed[s] <= len[s] /\ computed[s] <= BlockSize * Len(blockTables[s])

\* What _get_num_new_tokens caps: one sequence of a group under chunked prefill.
\* The default policy counts whole prompts and decodes and checks the sum.
BatchIsCapped ==
    ChunkedPrefill => \A g \in batch : Cardinality(SeqsWith(g, "RUNNING")) = 1

\* A forward pass computes at most max_num_batched_tokens tokens: chunks of
\* prompts, decodes and the groups swapped in share one budget, of which a group
\* gives back what it does not use.  Under chunked prefill only for a batch
\* without a beam search past its prompt: its tokens are counted uncapped, single
\* decodes after it count less than the one token they run, and the pass is then
\* longer than the budget.
BatchIsBounded ==
    [][pc = "execute" /\ BatchIsCapped =>
        SumOver([s \in Seqs |-> computed'[s] - computed[s]], Seqs)
            <= MaxNumBatchedTokens]_schedulerVars

\* The LoRAs of a batch fit the slots the workers have for them: "it schedules
\* ... requests as long as it fits `budget` and curr_loras <= max_lora".
LorasFitTheSlots ==
    pc = "execute" => Cardinality({LoraOf[g] : g \in batch} \ {0}) <= MaxLoras

\* Without chunked prefill a batch is all prompts or all decodes of one token,
\* as the attention backends and the assertions of _schedule_default take for
\* granted, and no prompt is run while a group is swapped out.
BatchIsUniform ==
    pc = "execute" /\ ~ChunkedPrefill =>
        \/ swapped = {} /\ \A s \in scheduled : computed[s] = 0
        \/ \A s \in scheduled : computed[s] = len[s] - 1

\* Once no more requests come, every request finishes, however often it is
\* preempted: the queues, the budget and the block manager never wait for each
\* other.  (While requests come, prompts are served before the running groups.)
NoMoreRequests == <>[][\A g \in Groups : ~AddGroup(g)]_schedulerVars
EveryRequestFinishes ==
    NoMoreRequests => \A g \in Groups : Unfinished(g) # {} ~> Unfinished(g) = {}
=============================================================================
