# Verification of CacheBlend's serving core

CacheBlend is a fork of vLLM 0.4.1 (`src/vllm_blend`) with one addition: reusing
the KV caches of several text chunks in one prompt by recomputing a selected part
of the tokens. These TLA+ modules model the part of the program in which requests
meet scarce memory: the block managers, the scheduler and the engine step that
drives them, the contents of the KV cache through sharing, swapping and
speculation, the asynchronous front end, and the selective recomputation itself. TLC
checks small instances. For any number of blocks, sequences, requests, LoRAs, layers
and samples TLAPS proves the invariants of both block managers, of the scheduler over the first,
of prefix caching, of what the KV cache holds under the second, with speculative decoding
too, of the LoRA caches, of the async engine and of the selective recomputation.

Paths below are relative to `src/vllm_blend/vllm` unless they start with `src/`.

## Inventory

| Component | State it keeps | Operations | What makes it correct |
|---|---|---|---|
| Sequences and groups, `sequence.py` | status, tokens, logical blocks and computed tokens of a sequence; the members of a group | append a token, fork, add and remove members, reset for recompute | computed tokens are stored tokens; a finished member never matters to a live one |
| Block manager V1, `core/block_manager_v1.py` | a table of physical blocks per sequence, a reference count per block, two free lists | `allocate`, `append_slots` with copy on write, `fork`, `swap_in`, `swap_out`, `free`, and the `can_*` questions before them | no block lost, none handed out twice, a slot to write belongs to one sequence |
| Prefix caching, same file and `core/evictor.py` | blocks by content hash, an LRU list of unreferenced blocks, computed marks | promotion of full blocks, eviction | a cached block has the tokens its hash names |
| Scheduler, `core/scheduler.py` | waiting, running and swapped queues; per round a budget and the LoRAs in use | `schedule` with a default and a chunked-prefill policy, preemption by recompute or swap, abort | no request lost, the budget kept, arrival order, every request finishes |
| Engine, `engine/llm_engine.py`, `engine/output_processor/` | nothing between steps beyond the scheduler | add, abort, step: schedule, execute, process outputs | forks, stops and beam selection leave the groups consistent |
| Async engine, `engine/async_llm_engine.py` | streams by request id, queues of new and finished requests, a background loop | add, abort, loop turn, timeout, error | every stream ends; nobody sleeps while a request is unfinished |
| CacheBlend, `model_executor/models/llama.py`, `attention/backends/xformers.py`, `src/example/blend.py` | a metadata dictionary with the phase flags, old keys and values per layer, selected indices | collect, check, reuse; the example edits the flags between calls | every token a layer reads is fresh or collected for that position |
| Block manager V2, `core/block_manager_v2.py`, `core/block/` | block tables of block objects, reference counter, copy-on-write tracker | as V1, with lookahead slots and without swapping | as V1; lookahead slots are there when the models write them |
| Speculative decoding, `spec_decode/`, `engine/output_processor/multi_step.py` | a second KV cache, of the draft model, under the same block tables | propose, score, accept or reject, append several tokens | neither cache keeps a rejected token where the next round reads |
| Workers, executors, `worker/`, `executor/` | the contents of blocks on GPU and CPU | swap in, swap out, copy, then run the model | blocks are moved before they are overwritten |
| LoRA managers, `lora/` | LoRAs registered in CPU memory and active in GPU slots, both LRU caches; the slot of every row of a batch | add, remove, make the LoRAs of a batch active, map its rows | caches and slots agree, a row uses the weights of its own LoRA |
| Servers, the rest of the model runner, models, kernels | see `PROJECT.json` | | |

How they interact. `LLMEngine.step` is synchronous: it calls
`Scheduler.schedule`, which calls the block manager; then the executor; then the
output processor, which calls back into the scheduler (`fork_seq`, `free_seq`)
and through it into the block manager. Requests are added and aborted between
steps. Nothing is persisted and the engine does not retry: an exception ends it.
What is hard is therefore not threads but long protocols: the scheduler asks
(`can_append_slots`) and acts later, a group's members leave and join while their
blocks are shared, and five kinds of calls keep one reference count. Only the
async engine adds real interleavings. `PROJECT.json` lists the hazards line by
line, with the properties that cover them.

## Plan

1. `SequenceGroups`, `BlockManagerV1`, the abstract `BlockPool`: done.
2. `Scheduler` over `BlockManagerV1`, both policies, LoRA bookkeeping: done.
3. `BlockManagerV1Proofs`: type correctness and the safety invariants: done.
4. `AsyncEngine`, the request tracker and background loop over an abstract engine: done.
5. `CacheBlend`, the phases of the layers over several requests: done.
6. `KVCache` with `PrefixCaching`, `BlockManagerV2` and `SpeculativeDecoding`,
   composed in `KVCacheRounds` with the worker's copies: done.
7. `LoraManager`, the LoRA caches and slots behind `max_loras`: done.
8. The steps of the block manager and its refinement of `BlockPool`: proved.
9. `LoraManagerProofs`, `AsyncEngineProofs`, `CacheBlendProofs`: every safety property
   of these modules: proved.
10. `SchedulerProofs`, `SchedulerPolicy`: the queues, the computed tokens, the order and
    the budget of the scheduler: proved.
11. `KVCacheProofs`: counts, hashes and promises with every setup; the contents of the
    blocks under block manager V2: proved.

## Modules

`SequenceGroups` declares requests (groups), sequence ids and their fixed
parameters, and the state the block manager and the scheduler read: `status` and `len`. A group
draws its sequences from its own finite pool of ids; the code has a counter. The
four finished statuses are one.

`BlockManagerV1` has `block_tables`, `ref_count` and the free lists, and one
action for each call that the scheduler or the output processor makes:

| Action | Code |
|---|---|
| `AddRequest` | `LLMEngine.add_request` |
| `Allocate` | `_allocate_and_set_running` after `can_allocate` said OK |
| `AppendSlots` | one turn of the loop in `Scheduler._append_slots`: `AppendNewBlock`, `AppendInPlace`, `AppendCopyOnWrite` or one of its exceptions; `can_append_slots` is asked before the first turn only |
| `AppendToken`, `SkipSample`, `Fork`, `Stop`, `RemoveSeq` | `_process_sequence_group_outputs`; `SkipSample` is a chunk of a prompt, which samples nothing |
| `PreemptByRecompute`, `PreemptBySwap`, `SwapIn` | `_preempt_by_recompute`, `_swap_out`, `_swap_in` |
| `Abort` | `abort_seq_group` |

A loop of `allocate()` and `free()` calls over tables is one step (`Update`): the
calls are not interleaved with anything. The free list is a set, since which
block `pop()` returns is never observed. An exception sets `err`, which disables
everything. The scheduler asks `can_append_slots` once for a group
(`core/scheduler.py:400`) and not at all after `_swap_in` (lines 540-541), so the answer is
carried: `granted` has the sequences the loop has yet to go through. No call asks
again; wherever the code allocates and finds no free block, "out of memory" is
raised. `scheduled` and `sampled` record who was given a slot and who a
token in this round; the code has this in the list of scheduled groups and the
order of statements. The actions are enabled in every order the scheduler could
produce, and in more: the module alone is the block manager under any such caller.

`BlockPool` is the abstract promise: a block is idle or owned by sequences of one
group, and changes hands only through being idle. `ImplementsPool` instantiates
it with the holders of each block.

`SetSums` has the sum of a function over a set of groups or sequences, for `Scheduler`
and `BlockManagerV2`; `SetSumTheorems` is what the proofs about both need of it.

`Scheduler` extends `BlockManagerV1`. Every iteration of a loop of `schedule()` is
an action, so that each call of the block manager is a step of that module: an
action conjoins `Allocate`, `AppendSlots`, `SwapIn` and so on with the queue and
budget updates of the code around the call. So each step of the scheduler is a
step of `BlockManagerV1` or leaves its variables alone, and the block manager's
invariants hold under the scheduler. `policy` is the one
the engine was started with. `pc` says which loop is running; a failing
assertion or lookup sets `pc` to `"AssertionError"` or `"KeyError"`. `CheckBudget`
stops in the same way at a prompt's chunk of negative size (`NegativeChunk`), which the
assertions let pass and the model runner has no input for; a decode runs one token,
whatever it was counted as. `computed` and `stage` are
those of `SequenceData`: a chunk has the size in the budget while the sequence is in
its prompt and 1 afterwards. The running
and swapped queues are sorted by arrival whenever they are read, so they are sets
and `arrivals` keeps the order; the waiting queue is a sequence, since it is not
sorted. Everything of the round that `schedule()` returns (`batch`, budgets) lives
until `EndStep`. Which sequence stops, which is forked and which the beam search
drops is a free choice among what scores and stop conditions allow; the length cap
of `StopChecker` is exact. Requests can be aborted, and added again, between two steps.

`AsyncEngine` is the asynchronous front end with `engine_use_ray` off. Everything that
runs between two awaits is one action; the interleavings are those of the event loop.
A caller starts `generate`, reads, is cancelled, disconnects (which aborts) or closes
its generator, and may use an id again once it is done with it. The loop collects new
and finished requests (`StartStep`), waits for a step (`EndStep`, `StepFails`,
`Timeout`), hands out the outputs and goes on, or sleeps until a request arrives
(`WakeUp`). `LLMEngine` is a set of requests that a step may give an output, finish, or
leave silent: a step that only preempts produces nothing. `ErrorCallback` is
`_raise_exception_on_finish`, which runs some time after the loop ended: in between, a
caller of `generate` may restart the loop, with a new tracker.

`CacheBlend` is `LlamaModel.forward` with the example's script. An entry of a cache
says whose it is, in which text it was computed and by which positions its key was
rotated; one action per layer does what `LlamaAttention` and `XFormersImpl.forward` do
there: `PlainLayer`, `CheckLayer`, which chooses the rows to compute again, and
`ReuseLayer`, or `LayerRaises`, which ends the script. The script keeps ids but hands over
texts: it decodes every chunk and the joined prompt, and the engine encodes what it
gets (`src/example/blend.py:59`, 90, 97). The constant `Reads` says how many tokens come out
of each chunk alone, and which ones of the prompt: the same tokens, fewer or more, or as
many others. The script collects every chunk, joins the entries it keeps, generates with
reuse and once more without. Which rows differ most is any choice. Both variants are
covered: `blend.py` takes a suffix of one token ("TODO fix last len"),
`blend_samsum.py` the whole query.

`KVCache` is the state shared by the modules about the contents of blocks: sequences
with their tokens, block tables, counts, and for each entry of a block the prefix of
tokens its key and value were computed for. `PrefixCaching` gives the calls of
block manager V1 with the `CachedBlockAllocator`: hashes are the token sequences they are
computed from, or a number from the counter; a freed block keeps its hash and contents
until another hash takes it. `BlockManagerV2` gives the calls of
`BlockSpaceManagerV2`; `seen` is the number of tokens the table knows of, so that
unseen tokens and lookahead slots are told apart. `SpeculativeDecoding` gives the
proposals a draft model may make and the tokens the rejection sampler may accept.
`arrival` is the order of the live requests, as pairs.
`KVCacheRounds` puts them together: rounds of prefills or of decodes with preemption
and swap-in, then `Execute`, which is `Worker.cache_swap` followed by what the models
store, then the outputs. All copies of a round run at once, after its swaps: an entry
copied from a block that the same swaps or copies overwrite with something else becomes
`Mixed`. The engine's setup is chosen by `Init` and never changes.
What the rounds leave out of the scheduler is its budgets; its own module has them.

`LoraManager` is `LRUCacheWorkerLoRAManager` over `LRUCacheLoRAModelManager`. The
manager is a record, and what its methods do to it are operators (`Deactivate`,
`Unregister`, `Activate`, `MakeRoom`, `WithLora`) that the actions compose, as the
callbacks of the two LRU caches do. A batch is a mapping: `StartBatch`, then
`ApplyLora` for its LoRAs in any order (they come from a set), `SetLoraMapping`, the
forward pass, `EndBatch`. `AddLora` and `RemoveLora` are the calls of `LLMEngine`
between two steps. A load may fail: in a batch this ends the engine, in a call it does
not, but the oldest LoRA is gone. `LoraInit` is the state after start-up, which runs
warm-up batches and removes all LoRAs, but may keep the last of these batches' mapping
(`WarmUpMappings`). The scheduler is not part of it: a batch is any of
`Mappings`.

`MCBlockManagerV1`, `MCScheduler`, `MCLoraManager`, `MCAsyncEngine`, `MCCacheBlend` and
`MCKVCache` define the instances. The modules named `...Proofs`, `SchedulerPolicy`,
which extends `SchedulerProofs`, and `SetSumTheorems` hold the proofs. Operators named `Bug...` are
faulty variants of the definition that follows them, kept to show that the properties
notice; nothing uses them.

## Runs

All bounds are constants of the configurations: lengths are capped by
`MaxModelLen` as the code caps them, ids and blocks are finite sets, and requests
may come back for ever, so the state spaces are finite without a constraint.

* `BlockManagerV1` (2 788 states up to symmetry of blocks): a beam group of two
  sequences and a single one, blocks of two tokens, four GPU and three CPU blocks.
  Enough for every branch: the two groups cannot both grow to the end, a shared
  block is full or not, a swap moves a shared and a private block. Deadlock is not
  checked: an exception ends the engine. Shows exact counts (`RefCountExact`), that the
  `can_*` checks suffice (`NoBlockError`), exclusive slots, blocks on the right
  device, sharing kept by swaps, room kept by admissions, and the refinement.
* `SlidingWindow` (573 states up to symmetry): window of two blocks, a prompt of three; groups of one
  sequence. Tables run past the window twice. `WindowIsNotOverwritten` is about what
  attention reads.
* `SlidingWindowFork`, `FinishedSibling` (violations): two findings below.
* `Scheduler` (457 176 up to symmetry): each of the two policies, chosen in the initial
  state; beam width two with a third id for the child that exists while the beam is
  trimmed, two single requests, two adapters and one LoRA slot. Blocks are scarce:
  swap-out, recomputation and aborts in every queue occur, and groups are skipped for
  their adapter, swapped ones too. Recomputed prompts are chunked and mixed with
  decodes, since the decodes before them take a part of the token budget. Deadlock is
  checked here and in all runs of the scheduler: `Stopped` is the only way to stand
  still.
* `SchedulerLiveness` (69 717): three single requests, three blocks of one token, two
  running at a time; a request may grow past the GPU and is then ignored.
* `SwapIn`, `LoraSlots` (violations): two findings below.
* `LoraManager` (42 310): four LoRAs, three places in CPU memory, two slots, seven
  mappings. Both caches evict, and the mappings differ only in the samples, share a
  LoRA, have rows without one, or need more slots than there are, which ends the
  engine (`LoraSlots` shows that the scheduler may ask for it). Deadlock is therefore
  not checked.
* `AsyncEngine` (317 065): two requests, one of whose ids is used twice, two outputs
  each, two starts of the loop: enough for a stale abort to meet the second use, for a
  request to arrive while the loop sleeps, is busy or has just died, and for a restart
  before the error callback of the loop before. `EveryStreamIsServed` is liveness.
* `CacheBlend` (1 463): four samples, four layers with check layer 1, a third of the
  rows recomputed, two tokens generated. Several samples show what one
  leaves behind for the next in `old_kvs` and the metadata dictionary. The tokenizer
  reads two of them as they were, the third in as many tokens of which one is another,
  and the last in one token less, which ends the script. Deadlock is not checked for
  that.
* `KVCache` (665 394): three setups, a single request and, where it is supported, a
  beam search of two; three GPU and two CPU blocks of three tokens. Prompts share a
  full block, a part of one, or nothing; two positions have two possible tokens, so
  that forks and proposals differ. With speculative decoding two tokens are proposed,
  a request crosses two block boundaries and then the length limit of the draft
  model. Deadlock is not checked: lack of CPU blocks, and a beam search preempted
  under V2, which cannot swap, end the engine.

Fairness. `FairSchedulerSpec` has weak fairness of `EngineStep`: the loops around
the engine call `step()` as long as there are unfinished requests
(`entrypoints/llm.py:241`). Nothing is assumed of clients, except that
`EveryRequestFinishes` is claimed once no more requests come: the default policy
admits prompts before decodes, so a steady stream of prompts does starve them. `AsyncSpec` has
weak fairness of the loop's next step and of the error callback: the event loop runs
what is ready, and a step returns, fails or times out. Callers owe nothing. The
fairness is of the step, not of any particular outcome: a request ends because of
the length cap, never because the model is assumed to sample a stop token.

## Findings

Each is a run that TLC ends with a counterexample.

* `FinishedSibling`: `allocate()` counts finished members of a group
  (`core/block_manager_v1.py:290`). Recomputing a sampling group with `best_of` > 1
  and one finished member loses its blocks.
* `SlidingWindowFork`: window reuse takes the first entries of a table, which copy
  on write does not replace (`core/block_manager_v1.py:390`); two requests end up
  writing the same block.
* `SwapIn`: a beam group that was swapped out has as many new tokens as sequences
  when it returns; `assert num_new_tokens == 1` (`core/scheduler.py:548`) ends the
  engine.
* `LoraSlots`: preempting a group drops its LoRA from `curr_loras` although another
  group of the batch uses it (`core/scheduler.py:407`), so the batch may need more
  adapters than `max_loras`.

The runs that pass avoid these by their constants or properties, and say so: the
scheduler's runs have several sequences only in beam groups
(`SchedulerAssumption`), windows are checked with one sequence per group, and
`NoSchedulerError` is checked with single sequences. The model itself still takes
the failing steps; a run in which one occurs simply ends there, as the engine does.
Under chunked prefill the `KeyError` of `curr_loras.remove` and the assertion
`num_running_tokens != 0` are reachable as well, and the waiting queue is not
always sorted; see the hazards.

One more came out of a proof that failed: `BatchIsBounded` under chunked prefill, with
several sequences per group. A comment says that the order of the loop guarantees
chunks of at least one token (`core/scheduler.py:395-396`), but `_get_num_new_tokens`
caps the tokens of single sequences only. The decodes of a beam search of two may
take the budget below zero, and the next single decode gets a negative number of
tokens. With `MaxNumBatchedTokens` 4 and four requests, two of which have
different LoRAs for one slot, TLC found a batch that runs seven tokens while the
budget counts four: the negative share hides the excess from the assertion in
`schedule`, and the decode that has it still runs one token. Only for a prompt is a
negative chunk an error (`NegativeChunk`). So `BatchIsBounded` is false under chunked
prefill for such batches, and claims nothing of them (`BatchIsCapped`: every group of the
batch has one running sequence). The run `Scheduler` is too small for the case.

These properties name the cases in which the code does not keep a promise, and exclude
all others:

* `EveryStreamIsServed`: `Asleep`, the loop waits for a new request while one is
  unfinished, because its last step had no outputs (`engine/async_llm_engine.py:477`; the
  docstring at line 442 says it returns whether requests are in progress); and `Lost`, a
  request still in the queue of new requests, or in a replaced tracker, when the loop
  dies.
* `NoStreamIsCutShort`: an abort that was queued for an id drops a new request that uses
  the id in the same turn of the loop.
* `BatchUsesItsLoras`: `set_lora_mapping` keeps the indices of an equal mapping
  (`lora/models.py:409-412`). Equal batches find their LoRAs in the same slots, unless
  `add_lora` or `remove_lora` was called in between (`calls`): after a batch for LoRA 1,
  remove LoRA 1, add LoRA 2, and the same batch loads LoRA 1 into another slot and
  runs with the weights of LoRA 2. Without the condition TLC finds this in ten states.
  `remove_all_loras` after the warm-up is such a call: the first batch may meet the
  warm-up's mapping and its indices.
* `TablesHoldTheirTokens` and `ComputedBlocksAreStored`: with prefix caching, entries that
  are `Mixed`. A copy's source may be the target of another copy of the same round, and
  all copies run at once (`src/vllm_blend/csrc/cache_kernels.cu:68-95`): four single requests
  that share partly filled blocks in pairs (prompts `<<1>>`, `<<1>>`, `<<2>>`, `<<2>>`,
  `BlockSize` 3, three GPU blocks) come to it in 20 states. Or it is the target of a swap:
  after a copy out of a block was recorded, another sequence of the group gives that
  block up for the one that already has its hash (`_maybe_promote_last_block`), and a group
  swapped in takes it; `cache_swap` swaps before it copies (`worker/worker.py:210-217`). Two
  beam requests of the prompt `<<1>>` come to this in 21 states. Every other entry must be
  the right one, also in the instances that get there: the one with two
  beam requests (941 467 states), and the run's with both requests beam searches
  (572 198 states), were checked to the end. In the run itself one request is a beam search
  and the other is not, since only a single sequence is preempted by recomputation.
  Under block manager V2 there is no exception, which is proved.
* `CacheHoldsThePrompt`: if the tokenizer reads the joined prompt in as many tokens as were
  kept of its chunks, but other ones, nothing notices, and the reused entries are those of
  the chunks' tokens. In another number of tokens, the prompt raises in the check layer, which
  `NoBlendError` allows.

## Proofs

Every theorem assumes what the modules' `ASSUME`s say of the constants (finite sets
of blocks and ids, disjoint devices, positive lengths, `SchedulerConfig._verify_args`)
and the hypotheses it names. Each hypothesis excludes cases in which the claim fails,
or which no driver of the code sets up.

| Hypothesis | Excludes | Theorems |
|---|---|---|
| `WindowsAreUnshared`: no sliding window, or every `BestOf` is 1 | `SlidingWindowFork` | all of `BlockManagerV1` and `Scheduler` |
| `OnlyBeamsBranch`: a group with `BestOf` > 1 is a beam group | `FinishedSibling` | all of `BlockManagerV1`; under the scheduler `SchedulerAssumption` has it |
| `DefaultPolicy` | chunked prefill, under which prompts are admitted in a round with preemptions, and decodes are not capped | order of service, no error; the budget of groups of several sequences |
| `NoLoras` | skipping a prompt for its LoRA, which is overtaken then, and the `KeyError` of `curr_loras.remove` | order of service, no error |
| `SingleSequences`: every `BestOf` is 1 | `SwapIn`, a full CPU, and a beam group that comes back behind its place | `ServedInOrder`, `SinglesNeverFail` |
| `OneCheckLayer` | several check layers: the metadata dictionary has one (`model_executor/models/llama.py:300`) and the scripts keep it | all of `CacheBlend` |

Each inductive invariant was checked by TLC on the runs' instances before it was
proved, with one lemma for every action or kind of actions and one step for every
conjunct an action can disturb.

### Block manager V1

`BlockManagerV1Proofs` proves `TypeOK`, `RefCountExact`, `NoBlockError`,
`TablesAreOnTheRightDevice`, `ScheduledSlotIsExclusive` and `WindowIsNotOverwritten`
from `IInv`:

* `TableInv`: the count of a block is the number of tables that contain it, it is
  free exactly at 0, and a table is of the form `FitsWindow` says: without a window it
  contains no block twice; with one, entry `i` repeats entry `i % window`, and entries
  less than a window apart are different;
* `WindowInv`: with a window no block has two holders and nothing is swapped. The
  code does not ensure this; `WindowsAreUnshared` does. Without it copy on write would
  break `FitsWindow`, and a swap would move one block to several;
* `TablesAreOnTheRightDevice`: without it `fork()` could overwrite a table;
* `GroupsInv`: a waiting group has one member, which `allocate()` needs to count
  right; a group that samples one sequence has only its parent, which
  `_preempt_by_recompute` needs;
* `RoundInv`, `FitInv`: a table is at most one block short, and not short once
  scheduled: the assertion of `append_slots`;
* `GrantInv`: there is a free block for every sequence the loop of `_append_slots` has
  yet to go through, though nobody asks again: each turn takes one block at most and the
  answer, or `can_swap_in`, counted one for each. This is what `NoException` rests on;
* `SlotInv`: a scheduled sequence alone holds its last block. It survives the other
  calls since those give away only free blocks, and forks happen only to sequences
  whose token has been processed.

The argument is one lemma per operation on tables (`...Keeps` for
`AppendNewBlock`, `ForkTable`, `MoveTables`, ...), stated about holders of a block,
then one per action. The swap lemma is the long one: the counts of
the new blocks are the numbers of moved holders, through the injection that maps
old blocks to new ones. Under a window `append_slots` takes entry
`len(block_table) % window` (`ReuseEntry`): the first few lemmas are about remainders, and
show that this entry is the one a window before the end of the table, which the
next `window - 1` entries do not name. A prompt's slots with their repetitions are
an initial table of that form (`SlotTableFits`).

From the same invariant follow the action properties `AdmissionLeavesRoom` and
`SwapKeepsSharing`, and the refinement `ImplementsPool`. For the refinement a block
must not be shared between groups (`GroupsAreApart`), and every step must change the
tables of one group and gain free blocks only, or drop blocks, or fork inside a group
(`TablesStep`); such a step is one of `BlockPool` or a stutter.

### Scheduler

`SchedulerProofs` shows that the engine drives the block manager as `BlockManagerV1`
allows (`SchedulerDrivesManager`: every behaviour of `SchedulerSpec` is one of its
`Spec`), so that `IInv` holds here, and `QueuesMatchStatuses`. `QueueInv` says
where a group is in the middle of a round. It waits (`Waiters`: in the waiting queue,
preempted, or skipped), runs (`Runners`: still to be scheduled, or in the batch) or is
swapped out (`Sleepers`), and all its unfinished sequences have that status; a group
that `_schedule_swapped` has just swapped in is the one exception (`HasReturned`). No
group is in two places (`ApartInv`), and what a phase leaves empty is empty in the next
(`PhaseInv`). Each action moves one group, or joins two queues. `Keep` is a
recursive function; that it exists and what it returns is proved first.

The same module shows `SchedulerTypeOK`, `ComputedTokensAreStored` and
`BatchIsUniform`. `StoredInv` relates tables and lengths through every call of
the block manager. `ProgressInv` says that a sequence is computed to its end only
between the forward pass and its sample, and that a prompt in progress is alone in its
group. `BudgetInv` says that only groups of this batch are counted and that a chunk
is no longer than what is left of its prompt, without which `computed` could pass
`len` or fall below zero. `UniformInv` adds that a round of prompts starts with
nothing else placed. Sums over finite sets are unfolded from the community modules'
definition of `MapThenSumSet` in `SetSumTheorems`.

`SchedulerPolicy` shows `WaitingIsSorted` and `FirstComeFirstServed`. `OrderInv`
orders the places: groups that run are older than groups preempted in this round,
those older than groups that wait, and the youngest is preempted first. The
exception is a group that was swapped out: prompts younger than it have not been
admitted, but it may be younger than one that waits, preempted after it. So
`FirstComeFirstServed` needs single sequences, while `WaitingIsSorted` does not.

It also shows `BatchIsBounded` and `NoSchedulerError`. `PaidInv`: a
group in the budget has at least one token in it for each of its sequences, and
nothing is scheduled without; this relates what the forward pass computes, which is a
sum over sequences, to the budget, a sum over groups. `CheckBudget` asserts the
bound for the default policy; under chunked prefill it is an invariant of the
round, if groups are single. `SinglesInv` then bounds the round without the
assertion: each running group costs one sequence and, when it decodes, one token, at most
`MaxNumSeqs` groups run, and the configuration has
`MaxNumBatchedTokens >= MaxNumSeqs`. So the assertion never fails under these
hypotheses, no group is scheduled for zero tokens, nothing is swapped out and no call
is refused.

### Blocks and their contents

`KVCacheProofs` is about `KVCacheRounds`, for every setup and with no other hypothesis than
`KVCacheAssumption`. `KVCacheTypeOK`, `CountsMatchTables`, `OneBlockPerHash` and
`SlotsArePromisedOnce` follow from `BlocksInv`:

* `StatusInv`, `ArrivalInv`, `RoundInv`: the sequences of a request have one status; the
  live requests are in a total order; a group some of whose sequences have been given
  slots is the next one of the round, so nobody comes between its question and its last
  slot;
* `TableInv`, `FitInv`: blocks are counted and on the right device, and a table is one
  block short only of the last token;
* `HashInv`: a hash of tokens has a length that says at which place of a table its block may
  be. Without it two blocks of one table could be promoted to one cached block, and the
  counts would be wrong;
* `PromiseInv`: what the rest of a group was promised is free.

Prefix caching shares blocks by hash, so allocation is a map from hashes to blocks
(`RenameKeeps`), and a swap maps the blocks of a group to blocks that may be in use
already (`MoveTablesKeeps`). Under V2 `NumTouched` must bound what `append_slots` takes
(`SlotsFit`): tokens not stored yet, lookahead slots, and one copy of a shared block.

`TablesHoldTheirTokens` under V2 and `DraftCacheHoldsTheTokens` follow from `V2Inv`, three
more invariants:

* `SharingInv`: blocks are shared within a group, and not at all with lookahead slots;
  the blocks that are new in a round have one holder, are no source of a copy, and each
  is the target of one copy at most. So the copies of a round are independent of their order;
* `RoomInv`: the positions the models will write are in blocks with one holder, which
  is why nothing that is stored is lost;
* `ContentInv`: every position of a running sequence is found in its block or, for a new
  block, in the block it is to be copied from (`Sources`). While outputs are processed
  this includes the proposals: accepted tokens but the last one are among them. The draft
  model is one position behind (`DraftEnd`), and no more than that, because a bonus
  token is never taken.

### LoRA managers, async engine, CacheBlend

`LoraManagerProofs`: `SlotsHoldTheirLoras` and `BatchUsesItsLoras`. `ManagerInv`
says what the two LRU caches and the slots owe each other and is kept by each
operator of the manager; `ApplyInv`, that the LoRAs a batch has loaded so far are the
newest of both caches, so that loading the next one evicts none of them;
`IndicesInv`, that the indices kept from an equal mapping are still those of the slots.

`AsyncEngineProofs`: `AsyncTypeOK`, `EngineRequestsAreRegistered`,
`NoStreamIsCutShort` and the action property `AbortTakesEffectNextStep`. `AsyncInv`
follows a stream from the caller to the queue of new requests, the tracker and the
engine: which caller may still read it (`CallerInv`, `AddedInv`, `NewInv`), that an id to be
dropped has a stream or was aborted (`DropInv`), that an aborted request still in the
engine is to be dropped (`AbortInv`), and that a stream ends after its final
output and gets nothing between (`QueueInv`, `FinalInv`). `LoopInv` says that two loops
never do anything at the same time.

`CacheBlendProofs`: `BlendTypeOK`, `CacheHoldsThePrompt`, `ReuseIsConfined`,
`RowsSeeTheirPrefix`, `SampledFromLastToken` and `NoBlendError`, for any samples,
layers and ratio. `BlendInv` says, for each step of the script and each layer of
the pass, which rows there are (`RowsInv`, `SelectionInv`), what has been collected and
not yet rotated (`CollectInv`), and what each layer's cache holds up to the position
reached (`CacheInv`). The slices of the script are lemmas about `JoinChunks`, whose
recursive function is constructed by hand. `Kept` are the tokens the collected entries
belong to, `Text` those of the prompt: the proofs keep them apart, and only where
`ReadsItsChunks` are they the same. `RaisesOnlyWhenMisread` is `NoBlendError`: a layer
goes on unless the numbers of both differ. The proofs asked for more of the
constants than the runs did: samples are not empty, check layers are among
the layers, no token of a prompt stands at two places, and a prompt is read in at
least as many tokens as the ids of its last chunk, the longest suffix a script sets.

### Only model-checked

`LorasFitTheSlots`, which is violated; the contents of blocks with prefix caching
(`TablesHoldTheirTokens`, `ComputedBlocksAreStored`), except for copies that read what
the same round overwrites, see the findings; the order of service and
the absence of errors outside the hypotheses above, as far as they hold. Liveness,
`EveryRequestFinishes` and `EveryStreamIsServed`, is out of the prover's reach and
stays with TLC.

## Not modelled

* The wall clock (`delay_factor`), `reset()` (no caller), texts, scores, probabilities
  and statistics; the components listed as `not_modelled` in `PROJECT.json`, with the
  reason for each.
* Prefix caching: the LRU order of the evictor (any of its blocks may go), hash
  collisions, and its combination with chunked prefill, which raises a RuntimeError in
  the model runner (`worker/model_runner.py:270-277`). Contents and hashes of free
  blocks that nothing can ask for again are forgotten (`Remembered`,
  `RememberedHash`), to keep states few.
* Block manager V2: `prefix_caching_block.py`. The manager asserts that caching is off
  and only creates naive allocators.
* Speculative decoding: which tokens are proposed and accepted is any choice (the
  recovered token may be any, since probabilities are clamped to a positive value);
  gathering and scattering of the batch in tensors and the acceptance metrics are left
  out. A step whose last accepted token ends the sequence is `Stop`.
* Async engine: `engine_use_ray`, and the await between the arrival time of a request
  and its entry into the queue (`engine/async_llm_engine.py:541`).
* CacheBlend: several prompts in one call and preemption of a request that reuses
  caches; the drivers never cause either. Texts and the tokenizer are the constant
  `Reads`; that a single row is broadcast over several, where numbers of tokens differ by
  chance in this way, is left out (`Raises`).
* LoRA: the managers without LRU, which nothing creates, dummy LoRAs, and the padded and
  embedding indices, computed from the same slots.
* The scheduler over block manager V2 with budgets and LoRA.
